SPECIFICATION MCSpec
CONSTANTS
  Parts = {"enforce"}
  r1 = r1
  r2 = r2
  eng = eng
  Runs = {r1}
  NoRun = NoRun
  MaxChainDepth = 1
  Units = {eng}
  Uncapped = Uncapped
  BaseCap <- MCBaseCap
  NoUnit = NoUnit
  NumCalls = 2
  Requests <- OneRunRequests
  Costs = {1}
  Mode = "enforce"
  MaxSteps = 5
  OverrideBudgets = {1}
  NoOverride = NoOverride
  Disconnects = "midstream"
PROPERTY CentralBudgetEnforced
