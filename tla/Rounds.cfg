\* Two tasks over a day of four units, or two days for the ritual.
SPECIFICATION Spec
CONSTANTS
  Tasks = {t1, t2}
  Triagers = {s1, s2}
  Events = {1, 2}
  Processes = {p1, p2}
  Day = 4
  Never = 10
  Limit = 1
  Cooldown = 2
  RitualTime = 2
  MaxNap = 1
  Flip = 2
  MaxTime = 9
  MaxMoves = 2
  MaxFaults = 1
  MovedTo = {"waiting_review", "backlog"}
  Installations <- SomeInstallations
  Resolutions <- SomeResolutions
SYMMETRY Symmetry
INVARIANTS
  StampedMeansTold
  RemindedAgainNeedsSlip
  AnnouncedTwiceNeedsDeath
  NotifiedMeansAnnounced
  ShownAgainNeedsCrossing
  EventsKept
  DigestNotMissed
CHECK_DEADLOCK FALSE
