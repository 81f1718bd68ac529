\* Two callers on a shared database that may hold one old task; two ids.
SPECIFICATION Spec
CONSTANTS
  Clients = {c1, c2}
  e1 = e1
  e2 = e2
  NoExt = NoExt
  NoRow = NoRow
  Unset = Unset
  MaxLegacy = 1
  MaxIds = 2
  ExtIds <- TwoExtIds
  Payloads <- SomePayloads
  Patches <- SomePatches
  LegacyRows <- OldRows
SYMMETRY Symmetry
INVARIANTS
  ExternalIdUnique
  DeletedStaysDeleted
  CompletedOnlyWhenDone
PROPERTIES
  ReservationStaysInStep
  ImplementsClaimQueue
