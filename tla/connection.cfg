SPECIFICATION FairSpec
CONSTANTS
  Poll = {p1, p2}
  MaxRows = 2
  MaxFaults = 2
  None = None
INVARIANTS
  TypeOK
  ChannelIsLive
  OneDialPerFailure
PROPERTIES
  EveryRowIsPublished
CHECK_DEADLOCK FALSE
