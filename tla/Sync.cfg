CONSTANTS
  s1 = s1
  s2 = s2
  a = a
  b = b
  req = req
  Scheduler = Scheduler
  NoOne = NoOne
  Servers = {s1, s2}
  Hosts = {a, b}
  Requests = {req}
  FailThreshold = 1
  MaxDomains = 1
SPECIFICATION FairSpec
INVARIANTS TypeOK PinIsCandidate RowHeld SavedIsPublished
PROPERTIES NeverDangling PinPublished Converges
