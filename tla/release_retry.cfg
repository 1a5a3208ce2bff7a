SPECIFICATION FairSpec
CONSTANTS
  Msg = {m1, m2, m3}
  Release = {m1, m2}
  Size <- OneAudience
  MaxAttempts = 2
  Prefetch = 1
  ReturnKeys = {"published", "retry"}
  MaxFaults = 2
INVARIANTS
  TypeOK
  HandledOrParked
  EmailsAreBounded
  ParkedWhenExhausted
PROPERTIES
  EveryMessageLeaves
CHECK_DEADLOCK FALSE
