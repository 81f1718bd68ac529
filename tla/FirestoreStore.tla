--------------------------- MODULE FirestoreStore ----------------------------
(***************************************************************************)
(* The Firestore task store (src/app/store.py, class FirestoreTaskStore)   *)
(* under the task handlers of src/app/main.py: a collection of task        *)
(* documents, a collection that reserves external ids, and the document    *)
(* the next id is counted in.                                              *)
(*                                                                         *)
(* Any number of server instances share the database. A Firestore          *)
(* transaction is serialisable and is retried when it conflicts, so each   *)
(* is one step; everything a handler reads outside of a transaction may be *)
(* stale when it writes, so each such read is a step of its own. A request *)
(* that is refused (404, 409, 500) leaves the database as it was.          *)
(*                                                                         *)
(* A database may be older than the reservations: a document may bear an   *)
(* external id that nothing reserves, and a reservation may be stale       *)
(* (tests/test_firestore_task_store.py, "legacy").                         *)
(***************************************************************************)
EXTENDS Naturals

CONSTANTS
  Clients,    (* callers of the API, each with one request at a time       *)
  ExtIds,     (* external ids                                              *)
  NoExt,      (* external_id is None                                       *)
  NoRow,      (* no document with this id                                  *)
  Unset,      (* a field the PATCH body does not name                      *)
  Payloads,   (* the TaskCreate bodies that are sent                       *)
  Patches,    (* the TaskUpdate bodies that are sent                       *)
  LegacyRows, (* what the documents of an old database look like           *)
  MaxLegacy,  (* bound: documents of an old database                       *)
  MaxIds      (* bound: ids ever counted                                   *)

Statuses == {"backlog", "in_progress", "waiting_review", "blocked", "done", "cancelled"}
Assignees == {"me", "codex", "unassigned"}
Ids == 1..MaxIds
NoId == 0

Payload == [status : Statuses, assignee : Assignees, ext : ExtIds \cup {NoExt}]
Patch == [status : Statuses \cup {Unset}, assignee : Assignees \cup {Unset},
          ext : ExtIds \cup {NoExt, Unset}]
Row == [status : Statuses, assignee : Assignees, ext : ExtIds \cup {NoExt},
        completed : BOOLEAN]

ASSUME ConstantsAssumption ==
  /\ MaxIds \in Nat /\ MaxLegacy \in 0..MaxIds
  /\ NoExt \notin ExtIds
  /\ NoRow \notin Row
  /\ Unset \notin Statuses \cup Assignees \cup ExtIds \cup {NoExt}
  /\ Payloads \subseteq Payload
  /\ Patches \subseteq Patch
  /\ LegacyRows \subseteq Row
  /\ \A r \in LegacyRows : r.completed => r.status = "done"

VARIABLES
  docs,       (* collection "tasks": id -> document                        *)
  mapping,    (* collection "task_external_ids": external id -> task_id    *)
  counter,    (* metadata/task_counter                                     *)
  pc,         (* where each caller's request is                            *)
  at,         (* the id the request works on                               *)
  body,       (* the body of the request                                   *)
  seen,       (* update_task: the snapshot had a completed_at              *)
  cand,       (* claim_agent_task: the candidates not tried yet            *)
  claimed,    (* history: <<caller, id>>, the claim was committed          *)
  gone        (* history: ids of deleted documents                         *)

request == <<pc, at, body, seen, cand>>
vars == <<docs, mapping, counter, request, claimed, gone>>

TypeOK ==
  /\ docs \in [Ids -> Row \cup {NoRow}]
  /\ mapping \in [ExtIds -> Ids \cup {NoId}]
  /\ counter \in 0..MaxIds
  /\ pc \in [Clients -> {"idle", "create_id", "create_put", "update_check",
                         "update_txn", "update_plain", "claim"}]
  /\ at \in [Clients -> Ids \cup {NoId}]
  /\ body \in [Clients -> Payload \cup Patch]
  /\ seen \in [Clients -> BOOLEAN]
  /\ cand \in [Clients -> SUBSET Ids]
  /\ claimed \subseteq Clients \X Ids
  /\ gone \subseteq Ids

-----------------------------------------------------------------------------
NoBody == [status |-> Unset, assignee |-> Unset, ext |-> Unset]

Live == {i \in Ids : docs[i] # NoRow}
Bearers(e) == {i \in Live : docs[i].ext = e}

Init ==
  /\ counter \in 0..MaxLegacy
  /\ docs \in [Ids -> LegacyRows \cup {NoRow}]
  /\ Live \subseteq 1..counter
  /\ \A e \in ExtIds : \A i, j \in Bearers(e) : i = j
  /\ mapping \in [ExtIds -> 0..counter]
  /\ pc = [c \in Clients |-> "idle"]
  /\ at = [c \in Clients |-> NoId]
  /\ body = [c \in Clients |-> NoBody]
  /\ seen = [c \in Clients |-> FALSE]
  /\ cand = [c \in Clients |-> {}]
  /\ claimed = {}
  /\ gone = 1..counter \ Live

(* The request of c is answered, or its server instance is gone.           *)
Answer(c) ==
  /\ pc' = [pc EXCEPT ![c] = "idle"]
  /\ at' = [at EXCEPT ![c] = NoId]
  /\ body' = [body EXCEPT ![c] = NoBody]
  /\ seen' = [seen EXCEPT ![c] = FALSE]
  /\ cand' = [cand EXCEPT ![c] = {}]

(* _mapping_state: the task a reservation stands for, NoId when there is   *)
(* no reservation or a stale one.                                          *)
Owner(e) == IF mapping[e] \in Live /\ docs[mapping[e]].ext = e
            THEN mapping[e] ELSE NoId

-----------------------------------------------------------------------------
(* POST /api/tasks, /api/agent/tasks. get_task_by_external_id looks at the *)
(* reserved task, then asks the collection: its answer rests on one read   *)
(* of the documents, and with a bearer there is a 409.                     *)
CreateCheck(c, p) ==
  /\ pc[c] = "idle"
  /\ p.ext = NoExt \/ Bearers(p.ext) = {}
  /\ pc' = [pc EXCEPT ![c] = "create_id"]
  /\ body' = [body EXCEPT ![c] = p]
  /\ UNCHANGED <<docs, mapping, counter, at, seen, cand, claimed, gone>>

(* _next_id counts in a transaction of its own: an id is used up even when *)
(* the document is never written.                                          *)
CreateId(c) ==
  /\ pc[c] = "create_id"
  /\ counter < MaxIds
  /\ counter' = counter + 1
  /\ at' = [at EXCEPT ![c] = counter + 1]
  /\ pc' = [pc EXCEPT ![c] = "create_put"]
  /\ UNCHANGED <<docs, mapping, body, seen, cand, claimed, gone>>

NewRow(p) == [status |-> p.status, assignee |-> p.assignee, ext |-> p.ext,
              completed |-> FALSE]

(* Mutant: the check made before the id was counted is relied on.          *)
ReservableUnchecked(e, i) == TRUE

(* In the transaction: the external id is free, stale, or the task's own.  *)
Reservable(e, i) == e = NoExt \/ Owner(e) \in {NoId, i}

(* A transaction with the reservation, or a plain set without one. A       *)
(* reservation taken in the meantime answers 409.                          *)
CreatePut(c) ==
  LET i == at[c]
      p == body[c]
  IN /\ pc[c] = "create_put"
     /\ IF Reservable(p.ext, NoId)
        THEN /\ docs' = [docs EXCEPT ![i] = NewRow(p)]
             /\ mapping' = [e \in ExtIds |-> IF e = p.ext THEN i ELSE mapping[e]]
        ELSE UNCHANGED <<docs, mapping>>
     /\ Answer(c)
     /\ UNCHANGED <<counter, claimed, gone>>

-----------------------------------------------------------------------------
(* PATCH /api/tasks/{id}: update_task gets the document; completed_at will *)
(* be decided from this snapshot.                                          *)
UpdateGet(c, i, p) ==
  /\ pc[c] = "idle"
  /\ i \in Live
  /\ pc' = [pc EXCEPT ![c] = IF p.ext = Unset THEN "update_plain"
                             ELSE IF p.ext = NoExt THEN "update_txn"
                             ELSE "update_check"]
  /\ at' = [at EXCEPT ![c] = i]
  /\ body' = [body EXCEPT ![c] = p]
  /\ seen' = [seen EXCEPT ![c] = docs[i].completed]
  /\ UNCHANGED <<docs, mapping, counter, cand, claimed, gone>>

(* A new external id: 409 when another task bears it.                      *)
UpdateCheck(c) ==
  /\ pc[c] = "update_check"
  /\ IF Bearers(body[c].ext) \subseteq {at[c]}
     THEN /\ pc' = [pc EXCEPT ![c] = "update_txn"]
          /\ UNCHANGED <<at, body, seen, cand>>
     ELSE Answer(c)
  /\ UNCHANGED <<docs, mapping, counter, claimed, gone>>

Field(new, old) == IF new = Unset THEN old ELSE new

(* Mutant: leaving done does not clear completed_at.                       *)
MergedKeepingStamp(r, p, stamped) ==
  [status |-> Field(p.status, r.status),
   assignee |-> Field(p.assignee, r.assignee),
   ext |-> Field(p.ext, r.ext),
   completed |-> r.completed \/ (p.status = "done" /\ ~stamped)]

(* The fields written over the document as it is by then.                  *)
Merged(r, p, stamped) ==
  [status |-> Field(p.status, r.status),
   assignee |-> Field(p.assignee, r.assignee),
   ext |-> Field(p.ext, r.ext),
   completed |-> CASE p.status = Unset -> r.completed
                   [] p.status = "done" -> r.completed \/ ~stamped
                   [] OTHER -> FALSE]

(* A PATCH that says backlog ends the claim it finds.                      *)
KeptClaims(i, p) ==
  IF p.status = "backlog" THEN {q \in claimed : q[2] # i} ELSE claimed

(* Mutant: the reservation of the external id given up is kept.            *)
RemappedOnly(i, e) == [x \in ExtIds |-> IF x = e THEN i ELSE mapping[x]]

(* The reservations after task i was given the external id e: its own is   *)
(* moved, a stale one of either id is dropped.                             *)
Remapped(i, e) ==
  [x \in ExtIds |-> IF x = e THEN i
                    ELSE IF x = docs[i].ext /\ Owner(x) \in {i, NoId} THEN NoId
                    ELSE mapping[x]]

(* The transaction of a PATCH that names external_id. A document deleted   *)
(* in the meantime is left alone.                                          *)
UpdateTxn(c) ==
  LET i == at[c]
      p == body[c]
  IN /\ pc[c] = "update_txn"
     /\ IF i \in Live /\ Reservable(p.ext, i)
        THEN /\ docs' = [docs EXCEPT ![i] = Merged(docs[i], p, seen[c])]
             /\ mapping' = Remapped(i, p.ext)
             /\ claimed' = KeptClaims(i, p)
        ELSE UNCHANGED <<docs, mapping, claimed>>
     /\ Answer(c)
     /\ UNCHANGED <<counter, gone>>

(* Mutant: set(merge=True), which writes a document that is not there.     *)
UpdatePlainUpsert(c) ==
  LET i == at[c]
      p == body[c]
      old == IF i \in Live THEN docs[i]
             ELSE [status |-> "backlog", assignee |-> "codex", ext |-> NoExt,
                   completed |-> FALSE]
  IN /\ pc[c] = "update_plain"
     /\ docs' = [docs EXCEPT ![i] = Merged(old, p, seen[c])]
     /\ claimed' = KeptClaims(i, p)
     /\ Answer(c)
     /\ UNCHANGED <<mapping, counter, gone>>

(* Without external_id: ref.update, which fails on a document that is gone *)
(* and writes the named fields only.                                       *)
UpdatePlain(c) ==
  LET i == at[c]
      p == body[c]
  IN /\ pc[c] = "update_plain"
     /\ IF i \in Live
        THEN /\ docs' = [docs EXCEPT ![i] = Merged(docs[i], p, seen[c])]
             /\ claimed' = KeptClaims(i, p)
        ELSE UNCHANGED <<docs, claimed>>
     /\ Answer(c)
     /\ UNCHANGED <<mapping, counter, gone>>

-----------------------------------------------------------------------------
(* DELETE /api/tasks/{id}: one transaction, with the reservation that is   *)
(* the task's own or stale.                                                *)
Delete(c, i) ==
  /\ pc[c] = "idle"
  /\ i \in Live
  /\ docs' = [docs EXCEPT ![i] = NoRow]
  /\ mapping' = Remapped(i, NoExt)
  /\ claimed' = {q \in claimed : q[2] # i}
  /\ gone' = gone \cup {i}
  /\ UNCHANGED <<counter, request>>

-----------------------------------------------------------------------------
Claimable(i) == /\ i \in Live
                /\ docs[i].assignee = "codex"
                /\ docs[i].status = "backlog"

(* POST /api/agent/claim lists the candidates (a query) ...                *)
ClaimList(c) ==
  /\ pc[c] = "idle"
  /\ \E i \in Ids : Claimable(i)
  /\ cand' = [cand EXCEPT ![c] = {i \in Ids : Claimable(i)}]
  /\ pc' = [pc EXCEPT ![c] = "claim"]
  /\ UNCHANGED <<docs, mapping, counter, at, body, seen, claimed, gone>>

Started(r) == [status |-> "in_progress", assignee |-> r.assignee, ext |-> r.ext,
               completed |-> r.completed]

(* Mutant: the status is not read again in the transaction.                *)
WinsUnconditionally(i) == i \in Live

Wins(i) == i \in Live /\ docs[i].status = "backlog"

(* ... and tries them in turn: a transaction that reads the status again.  *)
(* The document it returns is the answer, it is not read back.             *)
ClaimTry(c, i) ==
  /\ pc[c] = "claim"
  /\ i \in cand[c]
  /\ IF Wins(i)
     THEN /\ docs' = [docs EXCEPT ![i] = Started(docs[i])]
          /\ claimed' = claimed \cup {<<c, i>>}
          /\ Answer(c)
     ELSE /\ IF cand[c] = {i}
             THEN Answer(c)
             ELSE /\ cand' = [cand EXCEPT ![c] = @ \ {i}]
                  /\ UNCHANGED <<pc, at, body, seen>>
          /\ UNCHANGED <<docs, claimed>>
  /\ UNCHANGED <<mapping, counter, gone>>

(* An instance is shut down in the middle of a request.                    *)
Drop(c) ==
  /\ pc[c] # "idle"
  /\ Answer(c)
  /\ UNCHANGED <<docs, mapping, counter, claimed, gone>>

Next ==
  \E c \in Clients :
    \/ \E p \in Payloads : CreateCheck(c, p)
    \/ CreateId(c)
    \/ CreatePut(c)
    \/ \E i \in Ids : \E p \in Patches : UpdateGet(c, i, p)
    \/ UpdateCheck(c)
    \/ UpdateTxn(c)
    \/ UpdatePlain(c)
    \/ \E i \in Ids : Delete(c, i)
    \/ ClaimList(c)
    \/ \E i \in Ids : ClaimTry(c, i)
    \/ Drop(c)

Spec == Init /\ [][Next]_vars

-----------------------------------------------------------------------------
(* Two live tasks never bear the same external id: the lookup before the   *)
(* transaction finds bearers that nothing reserves, the transaction finds  *)
(* those that came since (store.py 289-325, 340-384). Neither is enough.   *)
ExternalIdUnique ==
  \A e \in ExtIds : \A i, j \in Bearers(e) : i = j

InStep(e) == \/ mapping[e] = NoId /\ Bearers(e) = {}
             \/ mapping[e] \in Live /\ Bearers(e) = {mapping[e]}

(* A reservation that once agrees with the task it is for agrees ever      *)
(* after: no overlap of creations, renames and deletions leaves an         *)
(* external id reserved for nobody, or borne without a reservation.        *)
ReservationStaysInStep ==
  [][\A e \in ExtIds : InStep(e) => InStep(e)']_vars

(* A deleted task stays deleted and its id is not given out again, even by *)
(* a PATCH or a creation that was under way (store.py 207-218, 386).       *)
DeletedStaysDeleted ==
  \A i \in gone : docs[i] = NoRow /\ i <= counter

(* completed_at is set on done tasks only, whatever snapshot it was        *)
(* decided from: unlike the flush of the SQLite store, a PATCH writes the  *)
(* status and completed_at together (store.py 334-339).                    *)
CompletedOnlyWhenDone ==
  \A i \in Live : docs[i].completed => docs[i].status = "done"

-----------------------------------------------------------------------------
(* The board seen as a queue of claims, by id.                             *)
Holders(i) == {c \in Clients : <<c, i>> \in claimed}

Place(i) ==
  IF i \in gone THEN "gone"
  ELSE IF i \notin Live THEN "unborn"
  ELSE IF docs[i].status = "backlog" THEN "queued"
  ELSE IF Holders(i) = {} THEN "aside"
  ELSE CHOOSE c \in Holders(i) : TRUE

Slot == [i \in Ids |-> Place(i)]

Queue == INSTANCE ClaimQueue WITH Agents <- Clients, Tasks <- Ids, slot <- Slot

(* This store implements the queue too, and here the tasks of the queue    *)
(* are the ids agents see: two claims that won the same id have a return   *)
(* to backlog between them.                                                *)
ImplementsClaimQueue == Queue!Spec

=============================================================================
