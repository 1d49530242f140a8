SPECIFICATION MCSpec
CONSTANTS
  Parts = {"enforce"}
  r1 = r1
  r2 = r2
  eng = eng
  Runs = {r1}
  NoRun = NoRun
  MaxChainDepth = 1
  Units = {eng}
  Uncapped = Uncapped
  BaseCap <- MCBaseCap
  NoUnit = NoUnit
  NumCalls = 1
  Requests <- StreamRequests
  Costs = {1}
  Mode = "enforce"
  MaxSteps = 5
  OverrideBudgets = {}
  NoOverride = NoOverride
  Disconnects = "anytime"
INVARIANT StreamAlwaysSettled
