CONSTANTS
  w1 = w1
  w2 = w2
  Request = {r1, r2}
  Commands = {k1}
  MaxTasks = 1
  Bot <- MCBot
  Client = {w1, w2}
  Scope = {s1, s2}
  Capacity = 1
  MaxConnections = 2
  MaxEvents = 2
  MaxRequests <- MCRequests
  Clients = {c1, c2}
  Providers <- MCProviders
  Configs <- MCConfigs
  Primaries <- MCPrimaries
  Threshold = 2
  Cooldown = 1
  Checked = TRUE
  MaxNow = 1
  MaxStarts = 3
SPECIFICATION MCSpec
INVARIANTS ServiceIsSound StreamsAreExact
PROPERTIES SkipsOnEvidence EverythingEndsInTime
CHECK_DEADLOCK FALSE
