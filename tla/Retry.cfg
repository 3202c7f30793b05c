SPECIFICATION Spec
CONSTANTS
  A = A
  B = B
  J1 = J1
  J2 = J2
  Ip1 = Ip1
  Ip2 = Ip2
  Console = Console
  NoNode = NoNode
  NoResult = NoResult
  Nodes = {A, Console}
  Ips = {Ip1}
  Jobs = {J1, J2}
  JobSpec <- PipelineAndSpeed
  Policies <- ChainA
  InitialPolicy <- PolicyA
  Profiles <- AllCurrent
  Actions <- RetryRows
  Deletable = {}
  StopStages = {"speed"}
  ClearKinds = {}
  AttemptLimit = 2
  BacklogLimit = 2
  Chunks = 0
  HitChunk = HitChunk
  MaxGrants = 3
  MaxSeq = 0
  Copies = 2
INVARIANTS
  TunnelExclusive
  SpeedAlone
  SpeedGated
  ResultEndsAttempt
  PipelineComplete
