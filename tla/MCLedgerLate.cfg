SPECIFICATION Spec
CONSTANTS
  r3 = r3
  Runs = {r1, r2}
  NoRun = NoRun
  MaxChainDepth = 2
  NumCalls = 2
  Budgets = {3}
  Amounts = {1, 2}
  ParentsFirst = FALSE
SYMMETRY RunSymmetry
INVARIANTS ReservedIsOutstanding
