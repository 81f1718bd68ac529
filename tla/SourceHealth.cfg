SPECIFICATION Spec
CONSTANTS
  Reporters = {r1, r2, r3}
  MaxTime = 3
  NoState = NoState
SYMMETRY Symmetry
INVARIANTS
  AnsweredIsShown
  RowSumsUpReports
PROPERTIES
  ImplementsLatestReport
