\* A board of two tasks, a session with two calls at once, another agent.
SPECIFICATION Spec
CONSTANTS
  Tasks = {t1, t2}
  Session = {s1, s2}
  Others = {o1}
  Budget = 1
  Settable = {"backlog", "cancelled"}
  Acts <- SomeActs
  MaxCalls = 3
  MaxElse = 1
  MaxTools = 3
  MaxUpdates = 1
  MaxDeaths = 1
SYMMETRY Symmetry
INVARIANTS
  BudgetHolds
  NotesSurvive
  Credited
  ReportsWithinClaims
  RepliedOnce
CHECK_DEADLOCK FALSE
