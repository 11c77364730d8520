SPECIFICATION Spec
CONSTANTS
  Workers = {1}
  Unbound = Unbound
  Budgets = {0, 2, Unbound}
  MaxSessionSteps = 2
  MaxSessions = 3
  MaxFailures = 2
INVARIANTS ClosedOnce BudgetKept AgreedReplacementBegins DeadlineKept
PROPERTIES RunEnds
