SPECIFICATION MCSpec
CONSTANTS
  Parts = {"outage", "storage", "routing", "events", "log", "reads", "torn", "audit"}
  r1 = r1
  n1 = n1
  n2 = n2
  n3 = n3
  secret = secret
  e1 = e1
  e2 = e2
  Runs = {r1}
  NoRun = NoRun
  MaxChainDepth = 2
  Nodes = {n1}
  NumCalls = 3
  Requests <- OutageRequests
  Costs = {2}
  Mode = "enforce"
  Faults = TRUE
  Reads = FALSE
  NoNode = NoNode
  Normal = {a}
  Members = {m}
  Blank = Blank
  MaxIndex = 2
  MaxVote = 1
  MaxCrashes = 2
  Peers = {n1, n2, n3}
  PeersOf <- ThreePeers
  TokenOf <- OneWithoutToken
  NoToken = NoToken
  InitFlag = n3
  MaxTerm = 2
  Emitters = {e1, e2}
  TraceRuns = {"r1", "r2"}
  Times = {1}
  None = None
  Torn = Torn
  Tears = FALSE
  MaxEvents = 4
  MaxFailures = 2
INVARIANTS OutageContained CrashSafe ReportedIsTrue TrailsIntact
PROPERTY AcknowledgedIsRead
CHECK_DEADLOCK FALSE
