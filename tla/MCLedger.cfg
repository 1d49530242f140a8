SPECIFICATION MCSpec
CONSTANTS
  r3 = r3
  Runs = {r1, r2, r3}
  NoRun = NoRun
  MaxChainDepth = 2
  NumCalls = 3
  Budgets = {1, 3}
  Amounts = {1, 2}
  ParentsFirst = TRUE
SYMMETRY RunSymmetry
INVARIANTS TypeOK ReservedIsOutstanding SpentIsSettled BudgetCeiling StepsDistinct
