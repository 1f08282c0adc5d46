SPECIFICATION TurnsSpec
CONSTANTS
  Handlers = {r1, r2}
  Documents = {doc1, doc2}
  PracticeIds = {pr1, pr2}
  Budgets <- MCBudgets
  MaxCount = 2
  MaxAsked = 3
  MaxHandled = 2
  Openings <- MCStarts
  Nothing = Nothing
SYMMETRY Symmetry
INVARIANTS RestIsWhole
PROPERTIES NothingUndoneUntilOverlap BudgetBinds
CHECK_DEADLOCK FALSE
