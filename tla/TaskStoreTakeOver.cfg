SPECIFICATION Spec
CONSTANTS
  Clients = {c1, c2}
  MaxBirths = 1
  e1 = e1
  NoExt = NoExt
  NoRow = NoRow
  Unset = Unset
  ExtIds <- OneExtId
  Payloads <- AgentPayloads
  Patches <- TakeOverPatches
PROPERTY ClaimsOnlyCodexTasks
CHECK_DEADLOCK FALSE
