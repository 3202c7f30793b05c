CONSTANTS
  n = n
  s1 = s1
  s2 = s2
  summary = summary
  decommission = decommission
  log = log
  NoSession = NoSession
  Nodes = {n}
  Sessions = {s1, s2}
  Calls = {summary, decommission}
  Streams = {log}
  NodeOf <- OneNode
  Kind <- EachKind
  QueueSize = 1
SPECIFICATION Spec
INVARIANT OfflineWhenGone
CHECK_DEADLOCK FALSE
