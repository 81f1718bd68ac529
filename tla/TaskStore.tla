------------------------------ MODULE TaskStore ------------------------------
(***************************************************************************)
(* The SQLite task store (src/app/store.py, class SqliteTaskStore) under   *)
(* the task handlers of src/app/main.py.                                   *)
(*                                                                         *)
(* FastAPI runs the handlers in a thread pool, each with a session of its  *)
(* own, and the driver opens a transaction only for INSERT, UPDATE and     *)
(* DELETE: what a handler has SELECTed may be stale by the time it writes. *)
(* A handler is therefore a sequence of steps, one per statement that      *)
(* touches the table, and the steps of different callers interleave.       *)
(*                                                                         *)
(* Reads whose result only shapes the response (the refresh after a        *)
(* commit, the lookup that tells 409 from 500 after an IntegrityError, the *)
(* `previous` row given to the history sheet) change no state and have no  *)
(* step; a request answered 404, 409 or 500 leaves the table as it was.    *)
(***************************************************************************)
EXTENDS Naturals, FiniteSets

CONSTANTS
  Clients,    (* callers of the API, each with one request at a time       *)
  ExtIds,     (* external ids                                              *)
  NoExt,      (* external_id IS NULL                                       *)
  NoRow,      (* no row with this id                                       *)
  Unset,      (* a field the PATCH body does not name                      *)
  Payloads,   (* the TaskCreate bodies that are sent                       *)
  Patches,    (* the TaskUpdate bodies that are sent                       *)
  MaxBirths   (* bound: tasks ever created                                 *)

Statuses == {"backlog", "in_progress", "waiting_review", "blocked", "done", "cancelled"}
Assignees == {"me", "codex", "unassigned"}
Births == 1..MaxBirths

(* INTEGER PRIMARY KEY values. They never exceed the number of births.     *)
Ids == 1..MaxBirths

Payload == [status : Statuses, assignee : Assignees, ext : ExtIds \cup {NoExt}]
Patch == [status : Statuses \cup {Unset}, assignee : Assignees \cup {Unset},
          ext : ExtIds \cup {NoExt, Unset}]

(* completed stands for "completed_at IS NOT NULL". uid numbers the tasks  *)
(* in order of creation: it is not a column, it tells two tasks that were  *)
(* given the same id from one another.                                     *)
Row == [uid : Births, status : Statuses, assignee : Assignees,
        ext : ExtIds \cup {NoExt}, completed : BOOLEAN]

ASSUME ConstantsAssumption ==
  /\ MaxBirths \in Nat \ {0}
  /\ NoExt \notin ExtIds
  /\ NoRow \notin Row
  /\ Unset \notin Statuses \cup Assignees \cup ExtIds \cup {NoExt}
  /\ Payloads \subseteq Payload
  /\ Patches \subseteq Patch

VARIABLES
  rows,       (* the tasks table: id -> row                                *)
  births,     (* tasks created so far                                      *)
  pc,         (* where each caller's request is                            *)
  at,         (* the id the request works on                               *)
  snap,       (* update_task: the row as it was loaded                     *)
  patch,      (* update_task: the request body                             *)
  cand,       (* claim_agent_task: the candidates not tried yet            *)
  claimed,    (* history: <<caller, uid>>, caller's UPDATE won the task    *)
  handed,     (* history: <<caller, uid>>, the claim response was sent     *)
  stale       (* history: uids written from an out-of-date snapshot        *)

requests == <<pc, at, snap, patch, cand>>
history == <<claimed, handed, stale>>
vars == <<rows, births, requests, history>>

TypeOK ==
  /\ rows \in [Ids -> Row \cup {NoRow}]
  /\ births \in 0..MaxBirths
  /\ pc \in [Clients -> {"idle", "update", "delete", "claim_next", "claim_read"}]
  /\ at \in [Clients -> Ids]
  /\ snap \in [Clients -> Row \cup {NoRow}]
  /\ patch \in [Clients -> Patch]
  /\ cand \in [Clients -> SUBSET Ids]
  /\ claimed \subseteq Clients \X Births
  /\ handed \subseteq Clients \X Births
  /\ stale \subseteq Births

-----------------------------------------------------------------------------
NoPatch == [status |-> Unset, assignee |-> Unset, ext |-> Unset]

Live == {i \in Ids : rows[i] # NoRow}
LiveUids == {rows[i].uid : i \in Live}

(* SQLite gives a new row of a table without AUTOINCREMENT the largest id  *)
(* in use plus one: the id of a deleted last task is given out again.      *)
IsNextId(i) ==
  /\ i = 1 \/ i - 1 \in Live
  /\ \A j \in Live : j < i

(* Mutant: no UNIQUE constraint.                                           *)
ExtFreeUnchecked(e, i) == TRUE

(* The UNIQUE constraint on external_id; NULLs do not collide.             *)
ExtFree(e, i) == e = NoExt \/ \A j \in Live \ {i} : rows[j].ext # e

Init ==
  /\ rows = [i \in Ids |-> NoRow]
  /\ births = 0
  /\ pc = [c \in Clients |-> "idle"]
  /\ at = [c \in Clients |-> 1]
  /\ snap = [c \in Clients |-> NoRow]
  /\ patch = [c \in Clients |-> NoPatch]
  /\ cand = [c \in Clients |-> {}]
  /\ claimed = {} /\ handed = {} /\ stale = {}

(* The request of c is answered.                                           *)
Answer(c) ==
  /\ pc' = [pc EXCEPT ![c] = "idle"]
  /\ at' = [at EXCEPT ![c] = 1]
  /\ snap' = [snap EXCEPT ![c] = NoRow]
  /\ patch' = [patch EXCEPT ![c] = NoPatch]
  /\ cand' = [cand EXCEPT ![c] = {}]

(* The history of tasks that were deleted or put back to backlog ends.     *)
Without(pairs, uids) == {p \in pairs : p[2] \notin uids}

-----------------------------------------------------------------------------
(* POST /api/tasks and /api/agent/tasks: one INSERT, which either commits  *)
(* or hits the UNIQUE constraint and is rolled back. completed_at is never *)
(* set here, whatever the status.                                          *)
Create(c, p) ==
  /\ pc[c] = "idle"
  /\ births < MaxBirths
  /\ \E i \in Ids :
       /\ IsNextId(i)
       /\ ExtFree(p.ext, i)
       /\ rows' = [rows EXCEPT ![i] =
            [uid |-> births + 1, status |-> p.status, assignee |-> p.assignee,
             ext |-> p.ext, completed |-> FALSE]]
  /\ births' = births + 1
  /\ UNCHANGED <<requests, history>>

(* PATCH /api/tasks/{id}: update_task loads the row ...                    *)
UpdateLoad(c, i, p) ==
  /\ pc[c] = "idle"
  /\ i \in Live
  /\ pc' = [pc EXCEPT ![c] = "update"]
  /\ at' = [at EXCEPT ![c] = i]
  /\ snap' = [snap EXCEPT ![c] = rows[i]]
  /\ patch' = [patch EXCEPT ![c] = p]
  /\ UNCHANGED <<rows, births, cand, history>>

(* ... sets the attributes on the loaded object ...                        *)
Field(new, old) == IF new = Unset THEN old ELSE new

(* Mutant: leaving done does not clear completed_at.                       *)
PatchedKeepingStamp(r, p) ==
  [r EXCEPT !.status = Field(p.status, @),
            !.assignee = Field(p.assignee, @),
            !.ext = Field(p.ext, @),
            !.completed = @ \/ p.status = "done"]

(* Mutant: completed_at is decided before the new status is set.           *)
PatchedStampFirst(r, p) ==
  [r EXCEPT !.status = Field(p.status, @),
            !.assignee = Field(p.assignee, @),
            !.ext = Field(p.ext, @),
            !.completed = IF p.status = Unset THEN @ ELSE r.status = "done"]

Patched(r, p) ==
  [uid |-> r.uid,
   status |-> Field(p.status, r.status),
   assignee |-> Field(p.assignee, r.assignee),
   ext |-> Field(p.ext, r.ext),
   completed |-> IF p.status = Unset THEN r.completed ELSE p.status = "done"]

(* ... and the flush emits an UPDATE of the columns whose value differs    *)
(* from the LOADED one; the others keep what the table holds by then.      *)
Emitted(new, loaded, current) == IF new = loaded THEN current ELSE new

(* Mutant: every column is written, as by a merge of the loaded object.    *)
FlushedWhole(new, old, cur) == [new EXCEPT !.uid = cur.uid]

Flushed(new, old, cur) ==
  [uid |-> cur.uid,
   status |-> Emitted(new.status, old.status, cur.status),
   assignee |-> Emitted(new.assignee, old.assignee, cur.assignee),
   ext |-> Emitted(new.ext, old.ext, cur.ext),
   completed |-> Emitted(new.completed, old.completed, cur.completed)]

(* Nothing to emit, no row left to update (StaleDataError) or a taken      *)
(* external id (IntegrityError): the table stays as it is.                 *)
UpdateCommit(c) ==
  LET i == at[c]
      new == Patched(snap[c], patch[c])
      row == Flushed(new, snap[c], rows[i])
      writes == new # snap[c] /\ i \in Live /\ ExtFree(row.ext, i)
      requeued == IF writes /\ row.status = "backlog" /\ patch[c].status = "backlog"
                  THEN {row.uid} ELSE {}
  IN /\ pc[c] = "update"
     /\ rows' = IF writes THEN [rows EXCEPT ![i] = row] ELSE rows
     /\ stale' = IF writes /\ rows[i] # snap[c] THEN stale \cup {rows[i].uid} ELSE stale
     /\ claimed' = Without(claimed, requeued)
     /\ handed' = Without(handed, requeued)
     /\ Answer(c)
     /\ UNCHANGED births

(* DELETE /api/tasks/{id}: load, then DELETE by primary key. A row that is *)
(* gone by then is only a warning.                                         *)
DeleteLoad(c, i) ==
  /\ pc[c] = "idle"
  /\ i \in Live
  /\ pc' = [pc EXCEPT ![c] = "delete"]
  /\ at' = [at EXCEPT ![c] = i]
  /\ UNCHANGED <<rows, births, snap, patch, cand, history>>

DeleteCommit(c) ==
  LET gone == {rows[i].uid : i \in Live \cap {at[c]}}
  IN /\ pc[c] = "delete"
     /\ rows' = [rows EXCEPT ![at[c]] = NoRow]
     /\ claimed' = Without(claimed, gone)
     /\ handed' = Without(handed, gone)
     /\ stale' = stale \ gone
     /\ Answer(c)
     /\ UNCHANGED births

-----------------------------------------------------------------------------
Claimable(i) == /\ i \in Live
                /\ rows[i].assignee = "codex"
                /\ rows[i].status = "backlog"

(* POST /api/agent/claim lists the candidates. With none it answers 404.   *)
(* Their smart order is not modelled: any remaining one is tried next.     *)
ClaimList(c) ==
  /\ pc[c] = "idle"
  /\ \E i \in Ids : Claimable(i)
  /\ cand' = [cand EXCEPT ![c] = {i \in Ids : Claimable(i)}]
  /\ pc' = [pc EXCEPT ![c] = "claim_next"]
  /\ UNCHANGED <<rows, births, at, snap, patch, history>>

(* On to the candidates that are left, or 404.                             *)
NextCandidate(c, left) ==
  IF left = {}
  THEN Answer(c)
  ELSE /\ pc' = [pc EXCEPT ![c] = "claim_next"]
       /\ cand' = [cand EXCEPT ![c] = left]
       /\ at' = [at EXCEPT ![c] = 1]
       /\ UNCHANGED <<snap, patch>>

(* Mutant: UPDATE ... WHERE id = :id.                                      *)
WinsUnconditionally(i) == i \in Live

(* try_claim: UPDATE ... WHERE id = :id AND status = 'backlog'. The        *)
(* assignee is not looked at again.                                        *)
Wins(i) == i \in Live /\ rows[i].status = "backlog"

ClaimTry(c, i) ==
  /\ pc[c] = "claim_next"
  /\ i \in cand[c]
  /\ IF Wins(i)
     THEN /\ rows' = [rows EXCEPT ![i].status = "in_progress"]
          /\ claimed' = claimed \cup {<<c, rows[i].uid>>}
          /\ pc' = [pc EXCEPT ![c] = "claim_read"]
          /\ at' = [at EXCEPT ![c] = i]
          /\ cand' = [cand EXCEPT ![c] = @ \ {i}]
          /\ UNCHANGED <<snap, patch>>
     ELSE /\ NextCandidate(c, cand[c] \ {i})
          /\ UNCHANGED <<rows, claimed>>
  /\ UNCHANGED <<births, handed, stale>>

(* Mutant: the loop goes on after a claim was won.                         *)
ClaimReadAndGoOn(c) ==
  /\ pc[c] = "claim_read"
  /\ NextCandidate(c, cand[c])
  /\ UNCHANGED <<rows, births, history>>

(* The task is read back by id after the commit and returned; a task that  *)
(* is gone counts as a candidate that was not won.                         *)
ClaimRead(c) ==
  /\ pc[c] = "claim_read"
  /\ IF at[c] \in Live
     THEN /\ handed' = handed \cup {<<c, rows[at[c]].uid>>}
          /\ Answer(c)
     ELSE /\ NextCandidate(c, cand[c])
          /\ UNCHANGED handed
  /\ UNCHANGED <<rows, births, claimed, stale>>

(* The server process dies and is started again: every request in flight   *)
(* is gone, every committed statement stays. A task whose claim was not    *)
(* answered yet stays in_progress with nobody working on it.               *)
Restart ==
  /\ \E c \in Clients : pc[c] # "idle"
  /\ pc' = [c \in Clients |-> "idle"]
  /\ at' = [c \in Clients |-> 1]
  /\ snap' = [c \in Clients |-> NoRow]
  /\ patch' = [c \in Clients |-> NoPatch]
  /\ cand' = [c \in Clients |-> {}]
  /\ claimed' = claimed \cap handed
  /\ UNCHANGED <<rows, births, handed, stale>>

Next ==
  \/ \E c \in Clients :
       \/ \E p \in Payloads : Create(c, p)
       \/ \E i \in Ids : \E p \in Patches : UpdateLoad(c, i, p)
       \/ UpdateCommit(c)
       \/ \E i \in Ids : DeleteLoad(c, i)
       \/ DeleteCommit(c)
       \/ ClaimList(c)
       \/ \E i \in Ids : ClaimTry(c, i)
       \/ ClaimRead(c)
  \/ Restart

Spec == Init /\ [][Next]_vars

-----------------------------------------------------------------------------
(* Two live tasks never have the same external id, whatever inserts and    *)
(* external_id updates overlap (store.py 113-147, models.py 82).           *)
ExternalIdUnique ==
  \A i, j \in Live : rows[i].ext = rows[j].ext /\ rows[i].ext # NoExt => i = j

(* No task is won by two callers, unless it went back to backlog between   *)
(* the two: the conditional UPDATE of try_claim makes claims exclusive     *)
(* whatever the candidate lists that were read before (store.py 149-159).  *)
ClaimExclusive ==
  \A p, q \in claimed : p[2] = q[2] => p = q

(* A won task is live and is not offered to another claim: nothing but an  *)
(* explicit return to backlog re-queues it.                                *)
ClaimLeavesQueue ==
  \A p \in claimed : \E i \in Live : rows[i].uid = p[2] /\ rows[i].status # "backlog"

(* Every task that was won has been handed to its winner or is about to    *)
(* be: one claim request never takes two tasks and hands out one of them   *)
(* (main.py 292-297). Only a restart leaves a won task with nobody.        *)
ClaimAccounted ==
  \A p \in claimed :
    \/ p \in handed
    \/ /\ pc[p[1]] = "claim_read"
       /\ at[p[1]] \in Live
       /\ rows[at[p[1]]].uid = p[2]

(* completed_at is set only on done tasks, as long as no PATCH was written *)
(* over a row that had changed since it was loaded (store.py 132-137): the *)
(* stale write is the only way to break the pair.                          *)
CompletedMeansDone ==
  \A i \in Live : rows[i].uid \notin stale /\ rows[i].completed => rows[i].status = "done"

(* A task that becomes done after its creation is stamped in the same      *)
(* UPDATE, again unless the write was stale.                               *)
DoneIsStamped ==
  [][\A i \in Live :
       /\ rows'[i] # NoRow
       /\ rows'[i].uid = rows[i].uid
       /\ rows'[i].status = "done" /\ rows[i].status # "done"
       /\ rows'[i].uid \notin stale'
       => rows'[i].completed]_vars

(* A task leaves in_progress for backlog only by a PATCH that says so: a   *)
(* PATCH of other fields, loaded before a claim and written after it, does *)
(* not undo the claim (only changed columns are emitted).                  *)
ClaimSurvivesPatch ==
  [][\A i \in Live :
       /\ rows'[i] # NoRow
       /\ rows'[i].uid = rows[i].uid
       /\ rows[i].status = "in_progress" /\ rows'[i].status = "backlog"
       => \E c \in Clients : /\ pc[c] = "update" /\ at[c] = i
                             /\ patch[c].status = "backlog"]_vars

-----------------------------------------------------------------------------
(* The board seen as a queue of claims: a task's place is read off its row *)
(* and the caller that won it.                                             *)
Holders(u) == {c \in Clients : <<c, u>> \in claimed}

Queued(u) == \E i \in Live : rows[i].uid = u /\ rows[i].status = "backlog"

Place(u) ==
  IF u > births THEN "unborn"
  ELSE IF u \notin LiveUids THEN "gone"
  ELSE IF Queued(u) THEN "queued"
  ELSE IF Holders(u) = {} THEN "aside"
  ELSE CHOOSE c \in Holders(u) : TRUE

Slot == [u \in Births |-> Place(u)]

Queue == INSTANCE ClaimQueue WITH Agents <- Clients, Tasks <- Births, slot <- Slot

(* The store with all its races implements the queue: no interleaving of   *)
(* PATCHes, deletions, id reuse and restarts moves a task from one agent   *)
(* to another without a return to backlog.                                 *)
ImplementsClaimQueue == Queue!Spec

-----------------------------------------------------------------------------
(* docs/API.md 317-318: "two agents claiming concurrently always receive   *)
(* different tasks", here as long as nobody puts the task back to backlog. *)
AgentsReceiveDifferentTasks ==
  \A p, q \in handed : p[2] = q[2] => p = q

(* README.md 237: claim "atomically hands the top-ranked Codex backlog     *)
(* task": what a claim wins is assigned to Codex.                          *)
ClaimsOnlyCodexTasks ==
  [][\A i \in Live :
       (\E c \in Clients : <<c, rows[i].uid>> \in claimed' \ claimed)
       => rows[i].assignee = "codex"]_vars

(* adapters/task_assistant_mcp.py 573-574: moving away from done clears    *)
(* completed_at, so a task that is not done has none.                      *)
CompletedOnlyWhenDone ==
  \A i \in Live : rows[i].completed => rows[i].status = "done"

=============================================================================
