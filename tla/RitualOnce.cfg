\* The ritual alone, without faults.
SPECIFICATION Spec
CONSTANTS
  Tasks = {t1, t2}
  Triagers = {s1, s2}
  Events = {1, 2}
  Processes = {p1, p2}
  Day = 4
  Never = 10
  Limit = 1
  Cooldown = 2
  RitualTime = 2
  MaxNap = 1
  Flip = 2
  MaxTime = 5
  MaxMoves = 0
  MaxFaults = 0
  MovedTo = {"waiting_review", "backlog"}
  Installations <- OnlyTheRitual
  Resolutions <- SomeResolutions
SYMMETRY Symmetry
INVARIANTS
  RitualOncePerDay
CHECK_DEADLOCK FALSE
