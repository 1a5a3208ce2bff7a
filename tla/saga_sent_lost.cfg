SPECIFICATION Spec
CONSTANTS
  Sub = {s1}
  Key = {k1}
  KeyOf <- SameKey
  BatchSize = 1
  MaxFaults = 1
  Drain = {d1}
  Handler = {h1}
  Worker = {w1, w2}
INVARIANT SentIsDelivered
CHECK_DEADLOCK FALSE
