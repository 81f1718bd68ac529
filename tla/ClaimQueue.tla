----------------------------- MODULE ClaimQueue ------------------------------
(***************************************************************************)
(* What POST /api/agent/claim promises its callers (docs/API.md, "Claim    *)
(* the Next Task"), with no table, no ids and no requests: a task that     *)
(* waits in the queue is given to one agent at a time, and never passes    *)
(* from one agent to another without going back to the queue.              *)
(***************************************************************************)
CONSTANTS
  Agents,     (* callers that claim                                        *)
  Tasks       (* every task there will ever be                             *)

VARIABLE slot (* where each task is                                        *)

(* "queued" is on offer; "aside" is on the board, not on offer and with no *)
(* agent, such as a task a human works on.                                 *)
Places == {"unborn", "queued", "aside", "gone"} \cup Agents

(* The board may hold tasks already; nobody works on them yet.             *)
Init == slot \in [Tasks -> {"unborn", "queued", "aside", "gone"}]

Move(t, from, to) ==
  /\ slot[t] \in from
  /\ slot' = [slot EXCEPT ![t] = to]

Arrive(t) == \E to \in {"queued", "aside"} : Move(t, {"unborn"}, to)
Take(a, t) == Move(t, {"queued"}, a)
SetAside(t) == Move(t, {"queued"}, "aside")
Requeue(t) == Move(t, {"aside"} \cup Agents, "queued")
Retire(t) == Move(t, {"queued", "aside"} \cup Agents, "gone")

(* Any number of claims may be forgotten at once.                          *)
Abandon ==
  \E lost \in SUBSET {t \in Tasks : slot[t] \in Agents} :
    slot' = [t \in Tasks |-> IF t \in lost THEN "aside" ELSE slot[t]]

Next ==
  \/ \E t \in Tasks :
       \/ Arrive(t)
       \/ \E a \in Agents : Take(a, t)
       \/ SetAside(t)
       \/ Requeue(t)
       \/ Retire(t)
  \/ Abandon

Spec == Init /\ [][Next]_slot

=============================================================================
