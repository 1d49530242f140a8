SPECIFICATION MCSpec
CONSTANTS
  Parts = {"cluster", "shadow", "routing", "autosave", "pollers", "push", "stream"}
  r1 = r1
  r2 = r2
  n1 = n1
  n2 = n2
  g1 = g1
  h1 = h1
  h2 = h2
  eng = eng
  NoOverride = NoOverride
  Uncapped = Uncapped
  NoUnit = NoUnit
  NoToken = NoToken
  secret = secret
  Partial = Partial
  Absent = Absent
  NoEvent = NoEvent
  Runs = {r1, r2}
  NoRun = NoRun
  MaxChainDepth = 2
  Nodes = {n1}
  NoNode = NoNode
  NumCalls = 3
  Requests <- TreeRequests
  Costs = {2}
  Mode = "enforce"
  Faults = FALSE
  Reads = FALSE
PROPERTIES ImplementsLedger ReservationsReleased ClusterAnswers ChangesArrive
CHECK_DEADLOCK FALSE
