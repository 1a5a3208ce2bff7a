SPECIFICATION Spec
CONSTANTS
  Msg = {m1}
  Release = {m1}
  Size <- OneAudience
  MaxAttempts = 3
  Prefetch = 10
  ReturnKeys = {"retry"}
  MaxFaults = 0
INVARIANT RetryComesBack
CHECK_DEADLOCK FALSE
