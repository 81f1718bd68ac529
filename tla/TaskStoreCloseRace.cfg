SPECIFICATION Spec
CONSTANTS
  Clients = {c1, c2}
  MaxBirths = 1
  e1 = e1
  NoExt = NoExt
  NoRow = NoRow
  Unset = Unset
  ExtIds <- OneExtId
  Payloads <- AgentPayloads
  Patches <- CloseOrBlockPatches
INVARIANT CompletedOnlyWhenDone
CHECK_DEADLOCK FALSE
