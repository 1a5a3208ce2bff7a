SPECIFICATION FairSpec
CONSTANTS
  Client = {c1, c2}
  Request <- Requests
  MaxRows = 2
  OnGitHub = {"plain"}
  Transport = "grpc"
  MaxFaults = 1
  Interval = {5, 30}
  None = None
INVARIANTS
  TypeOK
  AnswerTellsTruth
  AnswerSurvivesTheWay
  GaugeCountsRequests
  UsersHaveStores
  OneRepeatable
PROPERTIES
  NobodyIsCut
  EveryRequestEnds
  StopIsFinished
CHECK_DEADLOCK FALSE
