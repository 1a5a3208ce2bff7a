SPECIFICATION FairSpec
CONSTANTS
  Msg = {m1}
  Release = {m1}
  Size <- OneAudience
  MaxAttempts = 3
  Prefetch = 10
  ReturnKeys = {"published"}
  MaxFaults = 1
PROPERTY ConsumerComesBack
CHECK_DEADLOCK FALSE
