CONSTANTS
  MaxDeeds <- MoreDeeds
  MaxWire <- WireOf
  NoOne = NoOne
  a = a
  b = b
  c = c
  n1 = n1
  n2 = n2
  n3 = n3
  t1 = t1
  g1 = g1
  Edited = {a, b}
  Stored <- StoredDoc
  Docs <- Pair
  DefaultDoc <- Plain
  Illegal <- Nameless
  MaxProxies = 1
  NamesTyped = {"", "a"}
  PortsTyped = {}
  PortNumbers = {"22", "7000"}
  BadPorts = {}
  Hosts = {n1, n2}
  Instances = {a, b, c}
  HostOf <- HostOfEach
  LineOf <- LineOfEach
  SummaryRows = 2
  Owned = {a, b}
  NodeIds = {1, 2}
  Preferred = 2
  MaxName = 1
  Addresses = {"", "a"}
  Pasted <- Pastes
  Words = {"", "x"}
  Narrowing = {"all", "pass"}
  MaxPages = 2
  TagIds = {t1}
  GroupIds = {g1}
  Columns = {"ip", "speed"}
  FirstViews <- OneView
  MaxViews = 2
  ViewNames = {"b"}
  MaxJobs = 2
  MaxKeys = 2
  MaxBulk = 2
  Servers = {s1}
  Edits = {"regroup"}
  MaxFound = 2
  Named <- FirstOnly
  TestJobs = {j1, j2}
  MaxTasks = 2
  TestGroups = {p1, p2}
  TestModes = {"full", "route"}
  DefaultMode = "full"
  MaxFrozen = 2
  Testers <- ThreeNodes
  Domains = {"a", "b"}
  Machines = {1, 2}
  MaxTicked = 2
  States = {"all", "off"}
SPECIFICATION BulkSpec
PROPERTY RetryKeepsKey
CHECK_DEADLOCK FALSE
