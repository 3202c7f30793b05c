SPECIFICATION Spec
CONSTANTS
  A = A
  B = B
  J1 = J1
  J2 = J2
  Ip1 = Ip1
  Ip2 = Ip2
  Console = Console
  NoNode = NoNode
  NoResult = NoResult
  Nodes = {A, B, Console}
  Ips = {Ip1}
  Jobs = {J1}
  JobSpec <- OneConnectivityJob
  Policies <- ChainAB
  InitialPolicy <- PolicyAB
  Profiles <- OldBackup
  Actions <- SkipJob
  Deletable = {}
  StopStages = {}
  ClearKinds = {"connectivity"}
  AttemptLimit = 3
  BacklogLimit = 2
  Chunks = 0
  HitChunk = HitChunk
  MaxGrants = 4
  MaxSeq = 0
  Copies = 1
INVARIANTS
  TypeOK
  FailoverMonotone
  GrantsFenced
  ProjectionFresh
PROPERTIES
  NeverReturns
  ResultsFenced
