SPECIFICATION Spec
CONSTANTS
  A = A
  B = B
  J1 = J1
  J2 = J2
  Ip1 = Ip1
  Ip2 = Ip2
  Console = Console
  NoNode = NoNode
  NoResult = NoResult
  Nodes = {A, Console}
  Ips = {Ip1}
  Jobs = {J1}
  JobSpec <- OneScan
  Policies <- ChainA
  InitialPolicy <- PolicyA
  Profiles <- AllCurrent
  Actions <- StopJobRetryRow
  Deletable = {}
  StopStages = {}
  ClearKinds = {}
  AttemptLimit = 2
  BacklogLimit = 2
  Chunks = 2
  HitChunk <- HitInFirst
  MaxGrants = 3
  MaxSeq = 1
  Copies = 1
INVARIANTS
  JobStateAgrees
  PipelineComplete
PROPERTIES
  DoneIsFinal
