SPECIFICATION Spec
CONSTANTS
  A = A
  B = B
  J1 = J1
  J2 = J2
  Ip1 = Ip1
  Ip2 = Ip2
  Console = Console
  NoNode = NoNode
  NoResult = NoResult
  Nodes = {A, B, Console}
  Ips = {Ip1, Ip2}
  Jobs = {J1}
  JobSpec <- OneSelection
  Policies <- ChainAB
  InitialPolicy <- PolicyAB
  Profiles <- AllCurrent
  Actions <- StopAndRetryJob
  Deletable = {B}
  StopStages = {"route"}
  ClearKinds = {}
  AttemptLimit = 2
  BacklogLimit = 1
  Chunks = 0
  HitChunk = HitChunk
  MaxGrants = 2
  MaxSeq = 0
  Copies = 1
INVARIANTS
  PipelineComplete
