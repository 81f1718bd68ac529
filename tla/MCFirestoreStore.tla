-------------------------- MODULE MCFirestoreStore ---------------------------
(* A small instance of FirestoreStore for TLC.                             *)
EXTENDS FirestoreStore, TLC

CONSTANTS e1, e2

(* Callers are interchangeable; no liveness is checked.                    *)
Symmetry == Permutations(Clients)

Body(s, a, e) == [status |-> s, assignee |-> a, ext |-> e]
TwoExtIds == {e1, e2}

(* A task for the agent; PATCHes that close it, put it back in the queue,  *)
(* rename it to the other external id and give the external id up.         *)
SomePayloads == {Body("backlog", "codex", e1)}
SomePatches == {Body("done", Unset, Unset), Body("backlog", Unset, Unset),
                Body(Unset, Unset, e2), Body("blocked", Unset, NoExt)}

(* An old task that bears an external id, reserved or not, and one that    *)
(* was closed.                                                             *)
OldRows == {[status |-> "backlog", assignee |-> "codex", ext |-> e1, completed |-> FALSE],
            [status |-> "done", assignee |-> "me", ext |-> e2, completed |-> TRUE]}

=============================================================================
