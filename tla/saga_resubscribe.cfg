SPECIFICATION Spec
CONSTANTS
  Sub = {s1, s2}
  Key = {k1}
  KeyOf <- SameKey
  BatchSize = 1
  MaxFaults = 0
  Drain = {d1}
  Handler = {h1, h2}
  Worker = {w1, w2}
SYMMETRY Symmetry
INVARIANTS
  TypeOK
  OneLiveRowPerKey
PROPERTY KeepsPromise
CHECK_DEADLOCK FALSE
