SPECIFICATION FairSpec
CONSTANTS
  Sub = {s1}
  Key = {k1}
  KeyOf <- SameKey
  BatchSize = 1
  MaxFaults = 2
  Drain = {d1}
  Handler = {h1}
  Worker = {w1, w2}
INVARIANTS
  InHandIsUnacknowledged
  CompensatedMeansDeleted
  CompletedMeansMailed
  NothingLostSilently
  CompensationIsJustified
PROPERTIES
  RemovedRowStaysRemoved
  EverySagaSettles
  EveryCommandIsSent
CHECK_DEADLOCK FALSE
