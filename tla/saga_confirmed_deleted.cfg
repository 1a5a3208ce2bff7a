SPECIFICATION Spec
CONSTANTS
  Sub = {s1}
  Key = {k1}
  KeyOf <- SameKey
  BatchSize = 1
  MaxFaults = 0
  Drain = {d1}
  Handler = {h1}
  Worker = {w1, w2}
PROPERTY ConfirmedIsNeverCompensated
CHECK_DEADLOCK FALSE
