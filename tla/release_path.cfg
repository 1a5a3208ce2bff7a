SPECIFICATION PathFairSpec
CONSTANTS
  r1 = r1
  Repo = {r1}
  MaxTag = 1
  Releases <- Once
  Call = {c1}
  Content <- Described
  Text <- Texts
  Null = Null
  Transport = "grpc"
  MaxFaults = 1
  Sub = {s1}
  RepoOf <- OneRepo
  Job = {j1}
  MaxAttempts = 1
  Prefetch = 1
  ReturnKeys = {"published", "retry"}
  MaxMailFaults = 1
INVARIANTS
  RecordedReaches
  LettersAreBounded
PROPERTIES
  KeepsNewsPromise
  NewsArrive
CHECK_DEADLOCK FALSE
