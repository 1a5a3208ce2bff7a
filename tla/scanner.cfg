SPECIFICATION FairSpec
CONSTANTS
  r1 = r1
  r2 = r2
  s1 = s1
  s2 = s2
  Repo = {r1, r2}
  MaxTag = 2
  Releases <- TwoAndNone
  Call = {c1, c2}
  Content <- Described
  Text <- Texts
  Null = Null
  Transport = "grpc"
  MaxFaults = 1
  Sub = {s1, s2}
  RepoOf <- OneEach
  Job = {j1, j2}
INVARIANTS
  TypeOK
  AnnouncedOnce
  LettersAreTrue
PROPERTIES
  TagsMoveForward
  RefusalEndsScan
  NewReleaseIsAnnounced
  KeepsReleasePromise
CHECK_DEADLOCK FALSE
