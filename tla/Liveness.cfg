SPECIFICATION LiveSpec
CONSTANTS
  A = A
  B = B
  J1 = J1
  J2 = J2
  Ip1 = Ip1
  Ip2 = Ip2
  Console = Console
  NoNode = NoNode
  NoResult = NoResult
  Nodes = {A, Console}
  Ips = {Ip1}
  Jobs = {J1}
  JobSpec <- OneFullJob
  Policies <- ChainA
  InitialPolicy <- PolicyA
  Profiles <- AllCurrent
  Actions <- StopJob
  Deletable = {}
  StopStages = {}
  ClearKinds = {}
  AttemptLimit = 2
  BacklogLimit = 2
  Chunks = 0
  HitChunk = HitChunk
  MaxGrants = 9
  MaxFaults = 1
  MaxSeq = 0
  Copies = 1
PROPERTIES
  JobsEnd
  CancellationEnds
