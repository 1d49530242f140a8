SPECIFICATION MCSpec
CONSTANTS
  Parts = {"enforce", "loops", "routes", "metering", "dates", "reports", "scan"}
  r1 = r1
  r2 = r2
  eng = eng
  Runs = {r1, r2}
  NoRun = NoRun
  MaxChainDepth = 1
  Units = {eng}
  Uncapped = Uncapped
  BaseCap <- MCBaseCap
  NoUnit = NoUnit
  NumCalls = 2
  Requests <- MixedRequests
  Costs = {0, 3}
  Mode = "enforce"
  MaxSteps = 5
  OverrideBudgets = {1}
  NoOverride = NoOverride
  Disconnects = "anytime"
INVARIANTS
  TypeOK HeadroomAccounted SpendReconciles KilledNeverForwarded
  RoutedAndPriced ResponsesMetered CalendarAgrees ReportsReconcile ScanHonest
PROPERTY RunawayContained
CHECK_DEADLOCK FALSE
