SPECIFICATION Spec
CONSTANTS
  Clients = {c1, c2}
  MaxBirths = 2
  e1 = e1
  NoExt = NoExt
  NoRow = NoRow
  Unset = Unset
  ExtIds <- OneExtId
  Payloads <- BoardPayloads
  Patches <- BoardPatches
SYMMETRY Symmetry
INVARIANTS
  ExternalIdUnique
  ClaimExclusive
  ClaimLeavesQueue
  ClaimAccounted
  CompletedMeansDone
PROPERTIES
  DoneIsStamped
  ClaimSurvivesPatch
  ImplementsClaimQueue
CHECK_DEADLOCK FALSE
