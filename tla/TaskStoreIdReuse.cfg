SPECIFICATION Spec
CONSTANTS
  Clients = {c1, c2}
  MaxBirths = 2
  e1 = e1
  NoExt = NoExt
  NoRow = NoRow
  Unset = Unset
  ExtIds <- OneExtId
  Payloads <- AgentPayloads
  Patches <- NoRequeuePatches
INVARIANT AgentsReceiveDifferentTasks
CHECK_DEADLOCK FALSE
