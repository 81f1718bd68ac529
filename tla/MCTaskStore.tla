----------------------------- MODULE MCTaskStore -----------------------------
(* Small instances of TaskStore for TLC.                                   *)
EXTENDS TaskStore, TLC

CONSTANT e1

(* Callers are interchangeable; no liveness is checked.                    *)
Symmetry == Permutations(Clients)

Body(s, a, e) == [status |-> s, assignee |-> a, ext |-> e]
SetStatus(s) == Body(s, Unset, Unset)
Assign(a) == Body(Unset, a, Unset)

OneExtId == {e1}

(* Tasks for the agent with an external id, and PATCHes that close a task, *)
(* put it back in the queue claiming the external id, and give the         *)
(* external id up (then a second task can be created).                     *)
BoardPayloads == {Body("backlog", "codex", e1)}
BoardPatches == {SetStatus("done"), Body("backlog", Unset, e1), Body(Unset, Unset, NoExt)}

(* A task for the agent, and PATCHes that never put it back to backlog.    *)
AgentPayloads == {Body("backlog", "codex", NoExt)}
NoRequeuePatches == {SetStatus("blocked")}

(* A human takes the task over.                                            *)
TakeOverPatches == {Assign("me")}

(* One caller closes the task while another one blocks it.                 *)
CloseOrBlockPatches == {SetStatus("done"), SetStatus("blocked")}

=============================================================================
