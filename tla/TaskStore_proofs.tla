-------------------------- MODULE TaskStore_proofs ---------------------------
(***************************************************************************)
(* Theorems about TaskStore, for any number of callers, tasks, external    *)
(* ids, request bodies and PATCH bodies.                                   *)
(***************************************************************************)
EXTENDS TaskStore, TLAPS

(* The types of the helpers the actions are built from. *)
LEMMA PatchedType ==
  ASSUME NEW r \in Row, NEW p \in Patch
  PROVE  Patched(r, p) \in Row
  BY DEF Patched, Field, Row, Patch

LEMMA FlushedType ==
  ASSUME NEW new \in Row, NEW old \in Row, NEW cur \in Row
  PROVE  Flushed(new, old, cur) \in Row
  BY DEF Flushed, Emitted, Row

(* A row written from an up-to-date snapshot is exactly the patched row. *)
LEMMA FlushedFresh ==
  ASSUME NEW r \in Row, NEW p \in Patch
  PROVE  Flushed(Patched(r, p), r, r) = Patched(r, p)
  BY DEF Flushed, Emitted, Patched, Row

LEMMA NoPatchType == NoPatch \in Patch
  BY DEF NoPatch, Patch

LEMMA NoRowIsNoRow == \A r \in Row : r # NoRow
  BY ConstantsAssumption

(* The parts every answered request resets. *)
RequestsOK ==
  /\ pc \in [Clients -> {"idle", "update", "delete", "claim_next", "claim_read"}]
  /\ at \in [Clients -> Ids]
  /\ snap \in [Clients -> Row \cup {NoRow}]
  /\ patch \in [Clients -> Patch]
  /\ cand \in [Clients -> SUBSET Ids]

LEMMA AnswerType ==
  ASSUME NEW c \in Clients, RequestsOK, Answer(c)
  PROVE  RequestsOK'
  <1>1. 1 \in Ids
    BY ConstantsAssumption DEF Ids
  <1>2. QED
    BY <1>1, NoPatchType DEF RequestsOK, Answer

LEMMA NextCandidateType ==
  ASSUME NEW c \in Clients, NEW left \in SUBSET Ids, RequestsOK, NextCandidate(c, left)
  PROVE  RequestsOK'
  <1>1. 1 \in Ids
    BY ConstantsAssumption DEF Ids
  <1>2. CASE left = {}
    BY <1>2, AnswerType DEF NextCandidate
  <1>3. CASE left # {}
    BY <1>1, <1>3 DEF RequestsOK, NextCandidate
  <1>4. QED
    BY <1>2, <1>3

(* Every updating request has loaded a row. *)
SnapOK == \A c \in Clients : pc[c] = "update" => snap[c] \in Row

(* Type correctness, with what the loaded snapshot adds to it. *)
LEMMA TypeInv == TypeOK /\ SnapOK /\ [Next]_vars => TypeOK' /\ SnapOK'
  <1> SUFFICES ASSUME TypeOK, SnapOK, [Next]_vars
               PROVE  TypeOK' /\ SnapOK'
    OBVIOUS
  <1> USE NoRowIsNoRow
  <1>0. RequestsOK
    BY DEF TypeOK, RequestsOK
  <1>1. ASSUME NEW c \in Clients, NEW p \in Payloads, Create(c, p)
        PROVE  TypeOK' /\ SnapOK'
    <2>1. PICK i \in Ids :
            rows' = [rows EXCEPT ![i] =
              [uid |-> births + 1, status |-> p.status, assignee |-> p.assignee,
               ext |-> p.ext, completed |-> FALSE]]
      BY <1>1 DEF Create
    <2>2. births + 1 \in Births /\ births' \in 0..MaxBirths
      BY <1>1, ConstantsAssumption DEF Create, TypeOK, Births
    <2>3. p \in Payload
      BY ConstantsAssumption
    <2>4. [uid |-> births + 1, status |-> p.status, assignee |-> p.assignee,
           ext |-> p.ext, completed |-> FALSE] \in Row
      BY <2>2, <2>3 DEF Row, Payload
    <2>5. rows' \in [Ids -> Row \cup {NoRow}]
      BY <2>1, <2>4 DEF TypeOK
    <2>6. UNCHANGED <<pc, at, snap, patch, cand, claimed, handed, stale>>
      BY <1>1 DEF Create, requests, history
    <2>7. QED
      BY <2>2, <2>5, <2>6 DEF TypeOK, SnapOK
  <1>2. ASSUME NEW c \in Clients, NEW i \in Ids, NEW p \in Patches, UpdateLoad(c, i, p)
        PROVE  TypeOK' /\ SnapOK'
    <2>1. p \in Patch /\ rows[i] \in Row
      BY <1>2, ConstantsAssumption DEF UpdateLoad, Live, TypeOK
    <2>2. QED
      BY <1>2, <2>1 DEF UpdateLoad, TypeOK, SnapOK, history
  <1>3. ASSUME NEW c \in Clients, UpdateCommit(c)
        PROVE  TypeOK' /\ SnapOK'
    <2>1. Answer(c)
      BY <1>3 DEF UpdateCommit
    <2>2. RequestsOK'
      BY <1>0, <2>1, AnswerType
    <2>3. SnapOK'
      BY <2>1 DEF Answer, SnapOK, TypeOK
    <2>4. snap[c] \in Row /\ patch[c] \in Patch /\ at[c] \in Ids
      BY <1>3 DEF UpdateCommit, SnapOK, TypeOK
    <2>5. at[c] \in Live => Flushed(Patched(snap[c], patch[c]), snap[c], rows[at[c]]) \in Row
      BY <2>4, PatchedType, FlushedType DEF Live, TypeOK
    <2>6. rows' \in [Ids -> Row \cup {NoRow}]
      BY <1>3, <2>5 DEF UpdateCommit, TypeOK
    <2>7. stale' \subseteq Births
      BY <1>3, <2>4 DEF UpdateCommit, TypeOK, Row, Live
    <2>8. claimed' \subseteq Clients \X Births /\ handed' \subseteq Clients \X Births
      BY <1>3 DEF UpdateCommit, TypeOK, Without
    <2>9. QED
      BY <1>3, <2>2, <2>3, <2>6, <2>7, <2>8 DEF UpdateCommit, TypeOK, RequestsOK
  <1>4. ASSUME NEW c \in Clients, NEW i \in Ids, DeleteLoad(c, i)
        PROVE  TypeOK' /\ SnapOK'
    BY <1>4 DEF DeleteLoad, TypeOK, SnapOK, history
  <1>5. ASSUME NEW c \in Clients, DeleteCommit(c)
        PROVE  TypeOK' /\ SnapOK'
    <2>1. Answer(c)
      BY <1>5 DEF DeleteCommit
    <2>2. RequestsOK' /\ SnapOK'
      BY <1>0, <2>1, AnswerType DEF Answer, SnapOK, TypeOK
    <2>3. QED
      BY <1>5, <2>2 DEF DeleteCommit, TypeOK, RequestsOK, Without
  <1>6. ASSUME NEW c \in Clients, ClaimList(c)
        PROVE  TypeOK' /\ SnapOK'
    BY <1>6 DEF ClaimList, TypeOK, SnapOK, history
  <1>7. ASSUME NEW c \in Clients, NEW i \in Ids, ClaimTry(c, i)
        PROVE  TypeOK' /\ SnapOK'
    <2>1. CASE Wins(i)
      <3>1. rows[i] \in Row
        BY <2>1 DEF Wins, Live, TypeOK
      <3>2. [rows[i] EXCEPT !.status = "in_progress"] \in Row
        BY <3>1 DEF Row, Statuses
      <3>3. rows' = [rows EXCEPT ![i] = [rows[i] EXCEPT !.status = "in_progress"]]
        BY <1>7, <2>1 DEF ClaimTry, TypeOK
      <3>4. rows' \in [Ids -> Row \cup {NoRow}]
        BY <3>2, <3>3 DEF TypeOK
      <3>5. claimed' \subseteq Clients \X Births
        BY <1>7, <2>1, <3>1 DEF ClaimTry, TypeOK, Row
      <3>6. QED
        BY <1>7, <2>1, <3>4, <3>5 DEF ClaimTry, TypeOK, SnapOK
    <2>2. CASE ~ Wins(i)
      <3>1. NextCandidate(c, cand[c] \ {i}) /\ cand[c] \ {i} \in SUBSET Ids
        BY <1>7, <2>2 DEF ClaimTry, TypeOK
      <3>2. RequestsOK'
        BY <1>0, <3>1, NextCandidateType
      <3>3. SnapOK'
        BY <3>1 DEF NextCandidate, Answer, SnapOK, TypeOK
      <3>4. QED
        BY <1>7, <2>2, <3>2, <3>3 DEF ClaimTry, TypeOK, RequestsOK
    <2>3. QED
      BY <2>1, <2>2
  <1>8. ASSUME NEW c \in Clients, ClaimRead(c)
        PROVE  TypeOK' /\ SnapOK'
    <2>1. Answer(c) \/ NextCandidate(c, cand[c])
      BY <1>8 DEF ClaimRead
    <2>2. RequestsOK'
      BY <1>0, <2>1, AnswerType, NextCandidateType DEF TypeOK
    <2>3. SnapOK'
      BY <2>1 DEF NextCandidate, Answer, SnapOK, TypeOK
    <2>4. handed' \subseteq Clients \X Births
      BY <1>8 DEF ClaimRead, TypeOK, Live, Row
    <2>5. QED
      BY <1>8, <2>2, <2>3, <2>4 DEF ClaimRead, TypeOK, RequestsOK
  <1>9. ASSUME Restart
        PROVE  TypeOK' /\ SnapOK'
    <2>1. 1 \in Ids
      BY ConstantsAssumption DEF Ids
    <2>2. claimed' \subseteq Clients \X Births
      BY <1>9 DEF Restart, TypeOK
    <2>3. QED
      BY <1>9, <2>1, <2>2, NoPatchType DEF Restart, TypeOK, SnapOK
  <1>10. CASE UNCHANGED vars
    BY <1>10 DEF vars, requests, history, TypeOK, SnapOK
  <1>11. QED
    BY <1>1, <1>2, <1>3, <1>4, <1>5, <1>6, <1>7, <1>8, <1>9, <1>10 DEF Next

(* Every reachable state of the store is well typed. *)
THEOREM TypeCorrect == Spec => []TypeOK
  <1>1. Init => TypeOK /\ SnapOK
    <2>1. 1 \in Ids
      BY ConstantsAssumption DEF Ids
    <2>2. QED
      BY <2>1, NoPatchType, ConstantsAssumption DEF Init, TypeOK, SnapOK
  <1>2. QED
    BY <1>1, TypeInv, PTL DEF Spec

-----------------------------------------------------------------------------
(* Identity: uids are numbers already given out, and each names one row. *)
UidsGivenOut == \A i \in Live : rows[i].uid \in 1..births
UidsDiffer == \A i, j \in Live : rows[i].uid = rows[j].uid => i = j

(* The inductive invariant. *)
Typed == TypeOK /\ SnapOK
Identity == UidsGivenOut /\ UidsDiffer
Claims == ClaimExclusive /\ ClaimLeavesQueue /\ ClaimAccounted
IInv == Typed /\ Identity /\ Claims /\ ExternalIdUnique /\ CompletedMeansDone

(* A claimed task's row, as long as it is claimed. *)
LEMMA RowOfClaim ==
  ASSUME IInv, NEW p \in claimed, NEW i \in Live, rows[i].uid = p[2]
  PROVE  rows[i].status # "backlog"
  BY DEF IInv, Identity, UidsDiffer, Claims, ClaimLeavesQueue

(* What one step does to a row that stays: its uid is kept. *)
LEMMA CreateStep ==
  ASSUME IInv, NEW c \in Clients, NEW q \in Payloads, Create(c, q)
  PROVE  \E i \in Ids \ Live : \E r \in Row :
           /\ rows' = [rows EXCEPT ![i] = r]
           /\ Live' = Live \cup {i}
           /\ \A j \in Live : rows'[j] = rows[j]
           /\ rows'[i] = r
           /\ r.uid = births + 1 /\ ~ r.completed /\ ExtFree(r.ext, i)
           /\ births \in Nat /\ births' = births + 1
           /\ UNCHANGED <<pc, at, snap, patch, cand, claimed, handed, stale>>
  <1> DEFINE r == [uid |-> births + 1, status |-> q.status, assignee |-> q.assignee,
                   ext |-> q.ext, completed |-> FALSE]
  <1>1. PICK i \in Ids : IsNextId(i) /\ ExtFree(q.ext, i) /\ rows' = [rows EXCEPT ![i] = r]
    BY DEF Create
  <1>2. i \notin Live
    BY <1>1 DEF IsNextId, Ids
  <1>3. births + 1 \in Births /\ births \in Nat
    BY ConstantsAssumption DEF Create, IInv, Typed, TypeOK, Births
  <1>4. q \in Payload
    BY ConstantsAssumption
  <1>5. r \in Row
    BY <1>3, <1>4 DEF Row, Payload
  <1>6. DOMAIN rows = Ids
    BY DEF IInv, Typed, TypeOK
  <1>7. rows'[i] = r /\ \A j \in Ids \ {i} : rows'[j] = rows[j]
    BY <1>1, <1>6
  <1>8. Live' = Live \cup {i}
    BY <1>5, <1>7, NoRowIsNoRow DEF Live
  <1>9. UNCHANGED <<pc, at, snap, patch, cand, claimed, handed, stale>> /\ births' = births + 1
    BY DEF Create, requests, history
  <1>10. QED
    BY <1>1, <1>2, <1>3, <1>5, <1>7, <1>8, <1>9 DEF Live

(* A PATCH that was loaded before a claim and does not name the status     *)
(* cannot write the old status back. *)
LEMMA FlushedStatus ==
  ASSUME NEW r, NEW p, NEW cur,
         cur.status # "backlog", Flushed(Patched(r, p), r, cur).status = "backlog"
  PROVE  p.status = "backlog"
  BY DEF Flushed, Emitted, Patched, Field

(* A PATCH is either written to a live row, or leaves the table alone. *)
UpdateWrites(c) ==
  LET i == at[c]
      row == Flushed(Patched(snap[c], patch[c]), snap[c], rows[i])
  IN /\ i \in Live
     /\ row \in Row
     /\ rows' = [rows EXCEPT ![i] = row]
     /\ ExtFree(row.ext, i)
     /\ stale' = IF rows[i] # snap[c] THEN stale \cup {rows[i].uid} ELSE stale
     /\ \/ /\ row.status # "backlog" \/ rows[i].status = "backlog"
           /\ UNCHANGED <<claimed, handed>>
        \/ /\ row.status = "backlog"
           /\ claimed' = Without(claimed, {row.uid})
           /\ handed' = Without(handed, {row.uid})

LEMMA UpdateStep ==
  ASSUME IInv, NEW c \in Clients, UpdateCommit(c)
  PROVE  \/ UpdateWrites(c)
         \/ UNCHANGED <<rows, claimed, handed, stale>>
  <1> DEFINE i == at[c]
             new == Patched(snap[c], patch[c])
             row == Flushed(new, snap[c], rows[i])
             writes == new # snap[c] /\ i \in Live /\ ExtFree(row.ext, i)
             requeued == IF writes /\ row.status = "backlog" /\ patch[c].status = "backlog"
                         THEN {row.uid} ELSE {}
  <1>1. /\ rows' = IF writes THEN [rows EXCEPT ![i] = row] ELSE rows
        /\ stale' = IF writes /\ rows[i] # snap[c] THEN stale \cup {rows[i].uid} ELSE stale
        /\ claimed' = Without(claimed, requeued)
        /\ handed' = Without(handed, requeued)
    BY DEF UpdateCommit
  <1>2. Without(claimed, {}) = claimed /\ Without(handed, {}) = handed
    BY DEF Without
  <1>3. CASE ~ writes
    BY <1>1, <1>2, <1>3
  <1>4. CASE writes
    <2>1. row \in Row
      BY <1>4, PatchedType, FlushedType DEF UpdateCommit, IInv, Typed, TypeOK, SnapOK, Live
    <2>2. CASE row.status = "backlog" /\ patch[c].status = "backlog"
      BY <1>1, <1>4, <2>1, <2>2 DEF UpdateWrites
    <2>3. CASE row.status # "backlog"
      BY <1>1, <1>2, <1>4, <2>1, <2>3 DEF UpdateWrites
    <2>4. CASE row.status = "backlog" /\ patch[c].status # "backlog"
      <3>1. rows[i].status = "backlog"
        BY <2>4, FlushedStatus
      <3>2. QED
        BY <1>1, <1>2, <1>4, <2>1, <2>4, <3>1 DEF UpdateWrites
    <2>5. QED
      BY <2>2, <2>3, <2>4
  <1>5. QED
    BY <1>3, <1>4

(* What a written PATCH does to the rows. *)
LEMMA UpdateRows ==
  ASSUME IInv, NEW c \in Clients, UpdateCommit(c), UpdateWrites(c)
  PROVE  /\ Live' = Live
         /\ \A j \in Live : rows'[j].uid = rows[j].uid
         /\ \A j \in Live \ {at[c]} : rows'[j] = rows[j]
         /\ rows'[at[c]] = Flushed(Patched(snap[c], patch[c]), snap[c], rows[at[c]])
  <1> DEFINE row == Flushed(Patched(snap[c], patch[c]), snap[c], rows[at[c]])
  <1>1. at[c] \in Ids /\ at[c] \in Live /\ row \in Row /\ rows' = [rows EXCEPT ![at[c]] = row]
    BY DEF UpdateWrites, IInv, Typed, TypeOK
  <1>2. DOMAIN rows = Ids
    BY DEF IInv, Typed, TypeOK
  <1>3. rows'[at[c]] = row /\ \A j \in Ids \ {at[c]} : rows'[j] = rows[j]
    BY <1>1, <1>2
  <1>4. row.uid = rows[at[c]].uid
    BY DEF Flushed
  <1>5. Live' = Live
    BY <1>1, <1>3, NoRowIsNoRow DEF Live
  <1>6. QED
    BY <1>1, <1>3, <1>4, <1>5 DEF Live

LEMMA DeleteRows ==
  ASSUME IInv, NEW c \in Clients, DeleteCommit(c)
  PROVE  /\ Live' = Live \ {at[c]}
         /\ \A j \in Live' : rows'[j] = rows[j]
  BY DEF DeleteCommit, Live, IInv, Typed, TypeOK

(* A deletion ends the history of the task it deletes, and of no other. *)
Gone(c) == {rows[i].uid : i \in Live \cap {at[c]}}

LEMMA DeleteHistory ==
  ASSUME IInv, NEW c \in Clients, DeleteCommit(c)
  PROVE  /\ claimed' = Without(claimed, Gone(c)) /\ handed' = Without(handed, Gone(c))
         /\ stale' = stale \ Gone(c)
         /\ \A j \in Live' : j \in Live /\ rows[j].uid \notin Gone(c)
         /\ \A j \in Live' : rows[j].uid \notin stale' => rows[j].uid \notin stale
  <1>1. /\ claimed' = Without(claimed, Gone(c)) /\ handed' = Without(handed, Gone(c))
        /\ stale' = stale \ Gone(c)
    BY DEF DeleteCommit, Gone
  <1>2. ASSUME NEW j \in Live'
        PROVE  j \in Live /\ rows[j].uid \notin Gone(c)
    BY DeleteRows DEF Gone, IInv, Identity, UidsDiffer
  <1>3. QED
    BY <1>1, <1>2

LEMMA ClaimRows ==
  ASSUME IInv, NEW c \in Clients, NEW i \in Ids, ClaimTry(c, i), Wins(i)
  PROVE  /\ Live' = Live
         /\ \A j \in Live \ {i} : rows'[j] = rows[j]
         /\ rows'[i] = [rows[i] EXCEPT !.status = "in_progress"]
         /\ rows[i] \in Row /\ rows'[i] \in Row
         /\ rows[i].status = "backlog" /\ i \in Live
         /\ claimed' = claimed \cup {<<c, rows[i].uid>>}
  <1>1. rows[i] \in Row /\ i \in Live /\ rows[i].status = "backlog"
    BY DEF Wins, Live, IInv, Typed, TypeOK
  <1>2. rows' = [rows EXCEPT ![i] = [rows[i] EXCEPT !.status = "in_progress"]]
    BY DEF ClaimTry, IInv, Typed, TypeOK
  <1>3. [rows[i] EXCEPT !.status = "in_progress"] \in Row
    BY <1>1 DEF Row, Statuses
  <1>4. /\ rows'[i] = [rows[i] EXCEPT !.status = "in_progress"]
        /\ \A j \in Ids \ {i} : rows'[j] = rows[j]
    BY <1>2 DEF IInv, Typed, TypeOK
  <1>5. Live' = Live
    BY <1>1, <1>3, <1>4, NoRowIsNoRow DEF Live
  <1>6. QED
    BY <1>1, <1>3, <1>4, <1>5 DEF Live, ClaimTry

(* Identity is preserved: births only grows, a new row takes the next uid. *)
LEMMA IdentityInv == IInv /\ [Next]_vars => Identity'
  <1> SUFFICES ASSUME IInv, [Next]_vars
               PROVE  Identity'
    OBVIOUS
  <1> USE DEF Identity, UidsGivenOut, UidsDiffer
  <1>0. births \in Nat /\ Identity
    BY DEF IInv, Typed, TypeOK
  <1>q. ASSUME UNCHANGED <<rows, births>>
        PROVE  Identity'
    BY <1>q, <1>0 DEF Live
  <1>1. ASSUME NEW c \in Clients, NEW p \in Payloads, Create(c, p)
        PROVE  Identity'
    BY <1>0, <1>1, CreateStep
  <1>2. ASSUME NEW c \in Clients, NEW i \in Ids, NEW p \in Patches, UpdateLoad(c, i, p)
        PROVE  Identity'
    BY <1>2, <1>q DEF UpdateLoad
  <1>3. ASSUME NEW c \in Clients, UpdateCommit(c)
        PROVE  Identity'
    <2>1. births' = births
      BY <1>3 DEF UpdateCommit
    <2>2. CASE UpdateWrites(c)
      BY <1>0, <1>3, <2>1, <2>2, UpdateRows
    <2>3. CASE UNCHANGED rows
      BY <2>1, <2>3, <1>q
    <2>4. QED
      BY <1>3, <2>2, <2>3, UpdateStep
  <1>4. ASSUME NEW c \in Clients, NEW i \in Ids, DeleteLoad(c, i)
        PROVE  Identity'
    BY <1>4, <1>q DEF DeleteLoad
  <1>5. ASSUME NEW c \in Clients, DeleteCommit(c)
        PROVE  Identity'
    BY <1>0, <1>5, DeleteRows DEF DeleteCommit
  <1>6. ASSUME NEW c \in Clients, ClaimList(c)
        PROVE  Identity'
    BY <1>6, <1>q DEF ClaimList
  <1>7. ASSUME NEW c \in Clients, NEW i \in Ids, ClaimTry(c, i)
        PROVE  Identity'
    <2>1. births' = births
      BY <1>7 DEF ClaimTry
    <2>2. CASE Wins(i)
      <3>1. rows'[i].uid = rows[i].uid
        BY <1>7, <2>2, ClaimRows DEF Row
      <3>2. Live' = Live /\ \A j \in Live : rows'[j].uid = rows[j].uid
        BY <1>7, <2>2, <3>1, ClaimRows
      <3>3. QED
        BY <1>0, <2>1, <3>2
    <2>3. CASE ~ Wins(i)
      BY <1>7, <2>1, <2>3, <1>q DEF ClaimTry
    <2>4. QED
      BY <2>2, <2>3
  <1>8. ASSUME NEW c \in Clients, ClaimRead(c)
        PROVE  Identity'
    BY <1>8, <1>q DEF ClaimRead
  <1>9. ASSUME Restart
        PROVE  Identity'
    BY <1>9, <1>q DEF Restart
  <1>10. CASE UNCHANGED vars
    BY <1>10, <1>q DEF vars
  <1>11. QED
    BY <1>1, <1>2, <1>3, <1>4, <1>5, <1>6, <1>7, <1>8, <1>9, <1>10 DEF Next

(* The UNIQUE constraint is preserved by inserts and by PATCHes. *)
LEMMA ExternalIdInv == IInv /\ [Next]_vars => ExternalIdUnique'
  <1> SUFFICES ASSUME IInv, [Next]_vars
               PROVE  ExternalIdUnique'
    OBVIOUS
  <1> USE DEF ExternalIdUnique
  <1>0. ExternalIdUnique
    BY DEF IInv
  <1>q. ASSUME UNCHANGED rows
        PROVE  ExternalIdUnique'
    BY <1>q, <1>0 DEF Live
  <1>1. ASSUME NEW c \in Clients, NEW p \in Payloads, Create(c, p)
        PROVE  ExternalIdUnique'
    BY <1>0, <1>1, CreateStep DEF ExtFree
  <1>2. ASSUME NEW c \in Clients, NEW i \in Ids, NEW p \in Patches, UpdateLoad(c, i, p)
        PROVE  ExternalIdUnique'
    BY <1>2, <1>q DEF UpdateLoad
  <1>3. ASSUME NEW c \in Clients, UpdateCommit(c)
        PROVE  ExternalIdUnique'
    <2>1. CASE UpdateWrites(c)
      <3>1. /\ at[c] \in Live
            /\ ExtFree(rows'[at[c]].ext, at[c])
        BY <1>3, <2>1, UpdateRows DEF UpdateWrites
      <3>2. QED
        BY <1>0, <1>3, <2>1, <3>1, UpdateRows DEF ExtFree
    <2>2. CASE UNCHANGED rows
      BY <2>2, <1>q
    <2>3. QED
      BY <1>3, <2>1, <2>2, UpdateStep
  <1>4. ASSUME NEW c \in Clients, NEW i \in Ids, DeleteLoad(c, i)
        PROVE  ExternalIdUnique'
    BY <1>4, <1>q DEF DeleteLoad
  <1>5. ASSUME NEW c \in Clients, DeleteCommit(c)
        PROVE  ExternalIdUnique'
    BY <1>0, <1>5, DeleteRows
  <1>6. ASSUME NEW c \in Clients, ClaimList(c)
        PROVE  ExternalIdUnique'
    BY <1>6, <1>q DEF ClaimList
  <1>7. ASSUME NEW c \in Clients, NEW i \in Ids, ClaimTry(c, i)
        PROVE  ExternalIdUnique'
    <2>1. CASE Wins(i)
      <3>1. rows'[i].ext = rows[i].ext
        BY <1>7, <2>1, ClaimRows DEF Row
      <3>2. Live' = Live /\ \A j \in Live : rows'[j].ext = rows[j].ext
        BY <1>7, <2>1, <3>1, ClaimRows
      <3>3. QED
        BY <1>0, <3>2
    <2>2. CASE ~ Wins(i)
      BY <1>7, <2>2, <1>q DEF ClaimTry
    <2>3. QED
      BY <2>1, <2>2
  <1>8. ASSUME NEW c \in Clients, ClaimRead(c)
        PROVE  ExternalIdUnique'
    BY <1>8, <1>q DEF ClaimRead
  <1>9. ASSUME Restart
        PROVE  ExternalIdUnique'
    BY <1>9, <1>q DEF Restart
  <1>10. CASE UNCHANGED vars
    BY <1>10, <1>q DEF vars
  <1>11. QED
    BY <1>1, <1>2, <1>3, <1>4, <1>5, <1>6, <1>7, <1>8, <1>9, <1>10 DEF Next

(* completed_at goes with done on every row that was never written over a *)
(* stale snapshot. *)
LEMMA CompletedInv == IInv /\ [Next]_vars => CompletedMeansDone'
  <1> SUFFICES ASSUME IInv, [Next]_vars
               PROVE  CompletedMeansDone'
    OBVIOUS
  <1> USE DEF CompletedMeansDone
  <1>0. CompletedMeansDone
    BY DEF IInv
  <1>q. ASSUME UNCHANGED <<rows, stale>>
        PROVE  CompletedMeansDone'
    BY <1>q, <1>0 DEF Live
  <1>1. ASSUME NEW c \in Clients, NEW p \in Payloads, Create(c, p)
        PROVE  CompletedMeansDone'
    BY <1>0, <1>1, CreateStep
  <1>2. ASSUME NEW c \in Clients, NEW i \in Ids, NEW p \in Patches, UpdateLoad(c, i, p)
        PROVE  CompletedMeansDone'
    BY <1>2, <1>q DEF UpdateLoad, history
  <1>3. ASSUME NEW c \in Clients, UpdateCommit(c)
        PROVE  CompletedMeansDone'
    <2>1. CASE UpdateWrites(c)
      <3> DEFINE i == at[c]
      <3>1. stale \subseteq stale' /\ (rows[i] # snap[c] => rows[i].uid \in stale')
        BY <2>1 DEF UpdateWrites
      <3>2. CASE rows[i] # snap[c]
        BY <1>0, <1>3, <2>1, <3>1, <3>2, UpdateRows
      <3>3. CASE rows[i] = snap[c]
        <4>1. snap[c] \in Row /\ patch[c] \in Patch /\ i \in Live
          BY <1>3, <2>1 DEF UpdateWrites, UpdateCommit, IInv, Typed, TypeOK, SnapOK
        <4>2. rows'[i] = Patched(rows[i], patch[c])
          BY <1>3, <2>1, <3>3, <4>1, UpdateRows, FlushedFresh
        <4>3. rows'[i].uid = rows[i].uid
          BY <4>2 DEF Patched
        <4> DEFINE Paired == rows'[i].uid \notin stale' /\ rows'[i].completed
                               => rows'[i].status = "done"
        <4>4. ASSUME patch[c].status = Unset
              PROVE  Paired
          <5>1. rows'[i].completed = rows[i].completed /\ rows'[i].status = rows[i].status
            BY <4>2, <4>4 DEF Patched, Field
          <5>2. QED
            BY <1>0, <3>1, <4>1, <4>3, <5>1
        <4>5. ASSUME patch[c].status # Unset
              PROVE  Paired
          <5>1. rows'[i].completed = (patch[c].status = "done")
            BY <4>2, <4>5 DEF Patched
          <5>2. rows'[i].status = patch[c].status
            BY <4>2, <4>5 DEF Patched, Field
          <5>3. rows'[i].completed => rows'[i].status = "done"
            BY <5>1, <5>2, Zenon
          <5>4. QED
            BY <5>3
        <4>6. Paired
          BY <4>4, <4>5
        <4>7. QED
          BY <1>0, <1>3, <2>1, <3>1, <4>6, UpdateRows
      <3>4. QED
        BY <3>2, <3>3
    <2>2. CASE UNCHANGED <<rows, claimed, handed, stale>>
      BY <2>2, <1>q
    <2>3. QED
      BY <1>3, <2>1, <2>2, UpdateStep
  <1>4. ASSUME NEW c \in Clients, NEW i \in Ids, DeleteLoad(c, i)
        PROVE  CompletedMeansDone'
    BY <1>4, <1>q DEF DeleteLoad, history
  <1>5. ASSUME NEW c \in Clients, DeleteCommit(c)
        PROVE  CompletedMeansDone'
    <2>1. \A j \in Live' : rows[j].uid \notin stale' => rows[j].uid \notin stale
      BY <1>5, DeleteHistory
    <2>2. QED
      BY <1>0, <1>5, <2>1, DeleteRows
  <1>6. ASSUME NEW c \in Clients, ClaimList(c)
        PROVE  CompletedMeansDone'
    BY <1>6, <1>q DEF ClaimList, history
  <1>7. ASSUME NEW c \in Clients, NEW i \in Ids, ClaimTry(c, i)
        PROVE  CompletedMeansDone'
    <2>1. stale' = stale
      BY <1>7 DEF ClaimTry
    <2>2. CASE Wins(i)
      <3>1. /\ rows'[i].completed = rows[i].completed
            /\ rows'[i].uid = rows[i].uid
            /\ rows[i].status # "done"
        BY <1>7, <2>2, ClaimRows DEF Row
      <3>2. Live' = Live /\ i \in Live /\ \A j \in Live \ {i} : rows'[j] = rows[j]
        BY <1>7, <2>2, ClaimRows
      <3>3. QED
        BY <1>0, <2>1, <3>1, <3>2
    <2>3. CASE ~ Wins(i)
      BY <1>7, <2>1, <2>3, <1>q DEF ClaimTry
    <2>4. QED
      BY <2>2, <2>3
  <1>8. ASSUME NEW c \in Clients, ClaimRead(c)
        PROVE  CompletedMeansDone'
    BY <1>8, <1>q DEF ClaimRead
  <1>9. ASSUME Restart
        PROVE  CompletedMeansDone'
    BY <1>9, <1>q DEF Restart
  <1>10. CASE UNCHANGED vars
    BY <1>10, <1>q DEF vars, history
  <1>11. QED
    BY <1>1, <1>2, <1>3, <1>4, <1>5, <1>6, <1>7, <1>8, <1>9, <1>10 DEF Next

(* A claim whose response is still to be sent. *)
Pending(p) ==
  /\ pc[p[1]] = "claim_read"
  /\ at[p[1]] \in Live
  /\ rows[at[p[1]]].uid = p[2]

(* The claims of a step that neither wins nor ends one. *)
LEMMA ClaimsKept ==
  ASSUME IInv,
         claimed' = claimed, handed \subseteq handed',
         \A i \in Live : /\ i \in Live'
                         /\ rows'[i].uid = rows[i].uid
                         /\ rows[i].status # "backlog" => rows'[i].status # "backlog",
         \A p \in claimed : Pending(p) => Pending(p)' \/ p \in handed'
  PROVE  Claims'
  <1>1. ClaimExclusive'
    BY DEF IInv, Claims, ClaimExclusive
  <1>2. ClaimLeavesQueue'
    BY DEF IInv, Claims, ClaimLeavesQueue
  <1>3. \A p \in claimed : p \in handed \/ Pending(p)
    BY DEF IInv, Claims, ClaimAccounted, Pending
  <1>4. \A p \in claimed' : p \in handed' \/ Pending(p)'
    BY <1>3
  <1>5. ClaimAccounted'
    BY <1>4 DEF ClaimAccounted, Pending
  <1>6. QED
    BY <1>1, <1>2, <1>5 DEF Claims

(* A claim is exclusive, its task has left the queue, and its response is  *)
(* accounted for. *)
LEMMA ClaimsInv == IInv /\ [Next]_vars => Claims'
  <1> SUFFICES ASSUME IInv, [Next]_vars
               PROVE  Claims'
    OBVIOUS
  <1>t. /\ claimed \subseteq Clients \X Births
        /\ pc \in [Clients -> {"idle", "update", "delete", "claim_next", "claim_read"}]
        /\ at \in [Clients -> Ids]
    BY DEF IInv, Typed, TypeOK
  <1>a. \A x \in claimed : x \in handed \/ Pending(x)
    BY DEF IInv, Claims, ClaimAccounted, Pending
  <1>1. ASSUME NEW c \in Clients, NEW q \in Payloads, Create(c, q)
        PROVE  Claims'
    <2>1. /\ UNCHANGED <<pc, at, claimed, handed>>
          /\ \A i \in Live : i \in Live' /\ rows'[i] = rows[i]
      BY <1>1, CreateStep
    <2>2. \A p \in claimed : Pending(p) => Pending(p)'
      BY <2>1 DEF Pending
    <2>3. QED
      BY <2>1, <2>2, ClaimsKept
  <1>2. ASSUME NEW c \in Clients, NEW i \in Ids, NEW p \in Patches, UpdateLoad(c, i, p)
        PROVE  Claims'
    <2>1. UNCHANGED <<rows, claimed, handed>> /\ Live' = Live
      BY <1>2 DEF UpdateLoad, history, Live
    <2>2. \A x \in claimed : Pending(x) => Pending(x)'
      BY <1>2, <1>t, <2>1 DEF UpdateLoad, Pending
    <2>3. QED
      BY <2>1, <2>2, ClaimsKept
  <1>3. ASSUME NEW c \in Clients, UpdateCommit(c)
        PROVE  Claims'
    <2>1. pc[c] = "update" /\ Answer(c)
      BY <1>3 DEF UpdateCommit
    <2>2. CASE UpdateWrites(c)
      <3>0. /\ Live' = Live
            /\ \A j \in Live : rows'[j].uid = rows[j].uid
            /\ \A j \in Live \ {at[c]} : rows'[j] = rows[j]
            /\ at[c] \in Live
        BY <1>3, <2>2, UpdateRows DEF UpdateWrites
      <3>1. \A x \in claimed : Pending(x) => Pending(x)'
        BY <1>t, <2>1, <3>0 DEF Pending, Answer
      <3>2. CASE /\ rows'[at[c]].status # "backlog" \/ rows[at[c]].status = "backlog"
                 /\ UNCHANGED <<claimed, handed>>
        <4>1. UNCHANGED <<claimed, handed>>
          BY <3>2
        <4>2. \A j \in Live : rows[j].status # "backlog" => rows'[j].status # "backlog"
          BY <3>0, <3>2
        <4>3. QED
          BY <2>1, <3>0, <3>1, <4>1, <4>2, ClaimsKept
      <3>3. CASE LET u == rows[at[c]].uid
                 IN claimed' = Without(claimed, {u}) /\ handed' = Without(handed, {u})
        <4> DEFINE u == rows[at[c]].uid
        <4>1. claimed' = Without(claimed, {u}) /\ handed' = Without(handed, {u})
          BY <3>3
        <4>2. \A x : x \in claimed' <=> x \in claimed /\ x[2] # u
          BY <4>1 DEF Without
        <4>3. ClaimExclusive'
          BY <4>2 DEF IInv, Claims, ClaimExclusive
        <4>4. ClaimLeavesQueue'
          BY <3>0, <4>2 DEF IInv, Claims, ClaimLeavesQueue
        <4>5. \A x \in claimed' : x \in handed' \/ Pending(x)'
          BY <1>a, <2>1, <3>1, <4>1, <4>2 DEF Without
        <4>6. ClaimAccounted'
          BY <4>5 DEF ClaimAccounted, Pending
        <4>7. QED
          BY <4>3, <4>4, <4>6 DEF Claims
      <3>4. QED
        BY <1>3, <2>2, <3>0, <3>2, <3>3, UpdateRows DEF UpdateWrites
    <2>3. CASE UNCHANGED <<rows, claimed, handed, stale>>
      <3>1. Live' = Live
        BY <2>3 DEF Live
      <3>2. \A x \in claimed : Pending(x) => Pending(x)'
        BY <1>t, <2>1, <2>3, <3>1 DEF Pending, Answer
      <3>3. QED
        BY <2>1, <2>3, <3>1, <3>2, ClaimsKept
    <2>4. QED
      BY <1>3, <2>2, <2>3, UpdateStep
  <1>4. ASSUME NEW c \in Clients, NEW i \in Ids, DeleteLoad(c, i)
        PROVE  Claims'
    <2>1. UNCHANGED <<rows, claimed, handed>> /\ Live' = Live
      BY <1>4 DEF DeleteLoad, history, Live
    <2>2. \A x \in claimed : Pending(x) => Pending(x)'
      BY <1>4, <1>t, <2>1 DEF DeleteLoad, Pending
    <2>3. QED
      BY <2>1, <2>2, ClaimsKept
  <1>5. ASSUME NEW c \in Clients, DeleteCommit(c)
        PROVE  Claims'
    <2>1. pc[c] = "delete" /\ Answer(c)
      BY <1>5 DEF DeleteCommit
    <2>2. /\ claimed' = Without(claimed, Gone(c)) /\ handed' = Without(handed, Gone(c))
          /\ Live' = Live \ {at[c]} /\ \A j \in Live' : rows'[j] = rows[j]
      BY <1>5, DeleteHistory, DeleteRows
    <2>3. \A x : x \in claimed' <=> x \in claimed /\ x[2] \notin Gone(c)
      BY <2>2 DEF Without
    <2>4. \A i \in Live : rows[i].uid \notin Gone(c) => i \in Live' /\ rows'[i] = rows[i]
      BY <2>2 DEF Gone
    <2>5. ClaimExclusive'
      BY <2>3 DEF IInv, Claims, ClaimExclusive
    <2>6. ClaimLeavesQueue'
      BY <2>3, <2>4 DEF IInv, Claims, ClaimLeavesQueue
    <2>7. \A x \in claimed' : Pending(x) => Pending(x)'
      BY <1>t, <2>1, <2>3, <2>4 DEF Pending, Answer
    <2>8. \A x \in claimed' : x \in handed' \/ Pending(x)'
      BY <1>a, <2>2, <2>3, <2>7 DEF Without
    <2>9. ClaimAccounted'
      BY <2>8 DEF ClaimAccounted, Pending
    <2>10. QED
      BY <2>5, <2>6, <2>9 DEF Claims
  <1>6. ASSUME NEW c \in Clients, ClaimList(c)
        PROVE  Claims'
    <2>1. UNCHANGED <<rows, claimed, handed>> /\ Live' = Live
      BY <1>6 DEF ClaimList, history, Live
    <2>2. \A x \in claimed : Pending(x) => Pending(x)'
      BY <1>6, <1>t, <2>1 DEF ClaimList, Pending
    <2>3. QED
      BY <2>1, <2>2, ClaimsKept
  <1>7. ASSUME NEW c \in Clients, NEW i \in Ids, ClaimTry(c, i)
        PROVE  Claims'
    <2>1. pc[c] = "claim_next" /\ UNCHANGED <<handed>>
      BY <1>7 DEF ClaimTry
    <2>2. CASE Wins(i)
      <3>0. PICK u : u = rows[i].uid
        OBVIOUS
      <3>1. /\ Live' = Live /\ i \in Live
            /\ rows[i].status = "backlog"
            /\ claimed' = claimed \cup {<<c, u>>}
            /\ \A j \in Live \ {i} : rows'[j] = rows[j]
        BY <1>7, <2>2, <3>0, ClaimRows
      <3>2. rows'[i].uid = u /\ rows'[i].status = "in_progress"
        BY <1>7, <2>2, <3>0, ClaimRows DEF Row
      <3>3. \A j \in Live : rows'[j].uid = rows[j].uid
        BY <3>0, <3>1, <3>2
      <3>4. \A x \in claimed : x[2] # u
        BY <3>0, <3>1, RowOfClaim
      <3>5. pc' = [pc EXCEPT ![c] = "claim_read"] /\ at' = [at EXCEPT ![c] = i]
        BY <1>7, <2>2 DEF ClaimTry
      <3>6. ClaimExclusive'
        BY <3>1, <3>4 DEF IInv, Claims, ClaimExclusive
      <3>7. ClaimLeavesQueue'
        BY <3>1, <3>2, <3>3 DEF IInv, Claims, ClaimLeavesQueue
      <3>8. \A x \in claimed : Pending(x) => Pending(x)'
        BY <1>t, <2>1, <3>1, <3>3, <3>5 DEF Pending
      <3>9. Pending(<<c, u>>)'
        BY <1>t, <3>1, <3>2, <3>5 DEF Pending
      <3>10. \A x \in claimed' : x \in handed' \/ Pending(x)'
        BY <1>a, <2>1, <3>1, <3>8, <3>9
      <3>11. ClaimAccounted'
        BY <3>10 DEF ClaimAccounted, Pending
      <3>12. QED
        BY <3>6, <3>7, <3>11 DEF Claims
    <2>3. CASE ~ Wins(i)
      <3>1. UNCHANGED <<rows, claimed>> /\ Live' = Live /\ NextCandidate(c, cand[c] \ {i})
        BY <1>7, <2>3 DEF ClaimTry, Live
      <3>2. \A x \in claimed : Pending(x) => Pending(x)'
        BY <1>t, <2>1, <3>1 DEF Pending, NextCandidate, Answer
      <3>3. QED
        BY <2>1, <3>1, <3>2, ClaimsKept
    <2>4. QED
      BY <2>2, <2>3
  <1>8. ASSUME NEW c \in Clients, ClaimRead(c)
        PROVE  Claims'
    <2>1. /\ pc[c] = "claim_read" /\ UNCHANGED <<rows, claimed>> /\ Live' = Live
          /\ handed \subseteq handed'
      BY <1>8 DEF ClaimRead, Live
    <2>2. ASSUME NEW x \in claimed, Pending(x), x[1] = c
          PROVE  x \in handed'
      <3>1. at[c] \in Live /\ x = <<c, rows[at[c]].uid>>
        BY <1>t, <2>2 DEF Pending
      <3>2. QED
        BY <1>8, <3>1 DEF ClaimRead
    <2>3. ASSUME NEW x \in claimed, Pending(x), x[1] # c
          PROVE  Pending(x)'
      BY <1>8, <1>t, <2>1, <2>3 DEF ClaimRead, Pending, NextCandidate, Answer
    <2>4. QED
      BY <2>1, <2>2, <2>3, ClaimsKept
  <1>9. ASSUME Restart
        PROVE  Claims'
    <2>1. UNCHANGED <<rows, handed>> /\ Live' = Live /\ claimed' = claimed \cap handed
      BY <1>9 DEF Restart, Live
    <2>2. ClaimExclusive' /\ ClaimLeavesQueue'
      BY <2>1 DEF IInv, Claims, ClaimExclusive, ClaimLeavesQueue
    <2>3. ClaimAccounted'
      BY <2>1 DEF ClaimAccounted
    <2>4. QED
      BY <2>2, <2>3 DEF Claims
  <1>10. CASE UNCHANGED vars
    <2>1. UNCHANGED <<rows, pc, at, claimed, handed>> /\ Live' = Live
      BY <1>10 DEF vars, requests, history, Live
    <2>2. \A x \in claimed : Pending(x) => Pending(x)'
      BY <2>1 DEF Pending
    <2>3. QED
      BY <2>1, <2>2, ClaimsKept
  <1>11. QED
    BY <1>1, <1>2, <1>3, <1>4, <1>5, <1>6, <1>7, <1>8, <1>9, <1>10 DEF Next

LEMMA Inductive == IInv /\ [Next]_vars => IInv'
  BY TypeInv, IdentityInv, ClaimsInv, ExternalIdInv, CompletedInv DEF IInv, Typed

LEMMA Initially == Init => IInv
  <1> SUFFICES ASSUME Init
               PROVE  IInv
    OBVIOUS
  <1>1. 1 \in Ids
    BY ConstantsAssumption DEF Ids
  <1>2. Typed
    BY <1>1, NoPatchType, ConstantsAssumption DEF Init, Typed, TypeOK, SnapOK
  <1>3. Live = {} /\ claimed = {}
    BY DEF Init, Live
  <1>4. QED
    BY <1>2, <1>3 DEF IInv, Identity, UidsGivenOut, UidsDiffer, Claims, ClaimExclusive,
       ClaimLeavesQueue, ClaimAccounted, ExternalIdUnique, CompletedMeansDone

LEMMA Invariance == Spec => []IInv
  BY Initially, Inductive, PTL DEF Spec

-----------------------------------------------------------------------------
(* No task is won by two callers without a return to backlog between. *)
THEOREM ClaimsAreExclusive == Spec => []ClaimExclusive
  BY Invariance, PTL DEF IInv, Claims

(* A won task stays out of the queue until a PATCH puts it back. *)
THEOREM ClaimsLeaveQueue == Spec => []ClaimLeavesQueue
  BY Invariance, PTL DEF IInv, Claims

(* A claim that is won is handed out, unless the server dies first. *)
THEOREM ClaimsAreAccounted == Spec => []ClaimAccounted
  BY Invariance, PTL DEF IInv, Claims

(* External ids stay unique through every overlap of inserts and PATCHes. *)
THEOREM ExternalIdsAreUnique == Spec => []ExternalIdUnique
  BY Invariance, PTL DEF IInv

(* Only a write over a stale snapshot can separate completed_at from done. *)
THEOREM CompletedIsDone == Spec => []CompletedMeansDone
  BY Invariance, PTL DEF IInv

-----------------------------------------------------------------------------
LEMMA SurvivesStep ==
  ASSUME IInv, [Next]_vars, NEW i \in Live,
         rows'[i] # NoRow, rows[i].status = "in_progress", rows'[i].status = "backlog"
  PROVE  \E c \in Clients : pc[c] = "update" /\ at[c] = i /\ patch[c].status = "backlog"
  <1>1. CASE rows' = rows
    BY <1>1
  <1>2. ASSUME NEW c \in Clients, NEW q \in Payloads, Create(c, q)
        PROVE  rows'[i] = rows[i]
    BY <1>2, CreateStep
  <1>3. ASSUME NEW c \in Clients, UpdateCommit(c), rows' # rows
        PROVE  pc[c] = "update" /\ at[c] = i /\ patch[c].status = "backlog"
    <2>1. UpdateWrites(c)
      BY <1>3, UpdateStep
    <2>2. at[c] = i
      BY <1>3, <2>1, UpdateRows
    <2>3. rows'[i] = Flushed(Patched(snap[c], patch[c]), snap[c], rows[i])
      BY <1>3, <2>1, <2>2, UpdateRows
    <2>4. patch[c].status = "backlog"
      BY <2>3, FlushedStatus
    <2>5. QED
      BY <1>3, <2>2, <2>4 DEF UpdateCommit
  <1>4. ASSUME NEW c \in Clients, DeleteCommit(c)
        PROVE  rows'[i] = rows[i]
    BY <1>4, DeleteRows DEF Live
  <1>5. ASSUME NEW c \in Clients, NEW j \in Ids, ClaimTry(c, j), rows' # rows
        PROVE  FALSE
    <2>1. Wins(j)
      BY <1>5 DEF ClaimTry
    <2>2. rows'[j].status = "in_progress" /\ \A k \in Live \ {j} : rows'[k] = rows[k]
      BY <1>5, <2>1, ClaimRows DEF Row
    <2>3. QED
      BY <2>2
  <1>6. CASE rows' # rows
    BY <1>2, <1>3, <1>4, <1>5, <1>6
       DEF Next, vars, UpdateLoad, DeleteLoad, ClaimList, ClaimRead, Restart
  <1>7. QED
    BY <1>1, <1>6

(* Patching other fields of a task never undoes a claim of it. *)
THEOREM PatchesKeepClaims == Spec => ClaimSurvivesPatch
  <1>1. IInv /\ [Next]_vars =>
          [\A i \in Live :
             /\ rows'[i] # NoRow
             /\ rows'[i].uid = rows[i].uid
             /\ rows[i].status = "in_progress" /\ rows'[i].status = "backlog"
             => \E c \in Clients : /\ pc[c] = "update" /\ at[c] = i
                                   /\ patch[c].status = "backlog"]_vars
    BY SurvivesStep
  <1>2. QED
    BY <1>1, Invariance, PTL DEF Spec, ClaimSurvivesPatch

(* A step that makes a task done is a PATCH; written from a snapshot that  *)
(* is up to date it stamps the task. *)
LEMMA StampStep ==
  ASSUME IInv, [Next]_vars, NEW i \in Live,
         rows'[i] # NoRow, rows'[i].uid = rows[i].uid,
         rows'[i].status = "done", rows[i].status # "done", rows'[i].uid \notin stale'
  PROVE  rows'[i].completed
  <1>1. rows' # rows /\ rows'[i] # rows[i]
    OBVIOUS
  <1>2. ASSUME NEW c \in Clients, NEW q \in Payloads, Create(c, q)
        PROVE  rows'[i] = rows[i]
    BY <1>2, CreateStep
  <1>3. ASSUME NEW c \in Clients, UpdateCommit(c)
        PROVE  rows'[i].completed
    <2>1. UpdateWrites(c)
      BY <1>1, <1>3, UpdateStep
    <2>2. at[c] = i
      BY <1>1, <1>3, <2>1, UpdateRows
    <2>3. rows[i] = snap[c]
      BY <2>1, <2>2 DEF UpdateWrites
    <2>4. snap[c] \in Row /\ patch[c] \in Patch
      BY <1>3 DEF UpdateCommit, IInv, Typed, TypeOK, SnapOK
    <2>5. rows'[i] = Patched(rows[i], patch[c])
      BY <1>3, <2>1, <2>2, <2>3, <2>4, UpdateRows, FlushedFresh
    <2>6. patch[c].status # Unset /\ patch[c].status = "done"
      BY <2>5 DEF Patched, Field
    <2>7. rows'[i].completed = (patch[c].status = "done")
      BY <2>5, <2>6 DEF Patched
    <2>8. QED
      BY <2>6, <2>7, Zenon
  <1>4. ASSUME NEW c \in Clients, DeleteCommit(c)
        PROVE  rows'[i] = rows[i]
    BY <1>4, DeleteRows DEF Live
  <1>5. ASSUME NEW c \in Clients, NEW j \in Ids, ClaimTry(c, j)
        PROVE  FALSE
    <2>1. Wins(j)
      BY <1>1, <1>5 DEF ClaimTry
    <2>2. rows'[j].status = "in_progress" /\ \A k \in Live \ {j} : rows'[k] = rows[k]
      BY <1>5, <2>1, ClaimRows DEF Row
    <2>3. QED
      BY <1>1, <2>2
  <1>6. QED
    BY <1>1, <1>2, <1>3, <1>4, <1>5
       DEF Next, vars, UpdateLoad, DeleteLoad, ClaimList, ClaimRead, Restart

(* A task that becomes done after its creation is stamped in the same      *)
(* UPDATE, unless the PATCH was written over a row that had changed since  *)
(* it was loaded (store.py 132-137).                                       *)
THEOREM DoneTasksAreStamped == Spec => DoneIsStamped
  <1>1. IInv /\ [Next]_vars =>
          [\A i \in Live :
             /\ rows'[i] # NoRow
             /\ rows'[i].uid = rows[i].uid
             /\ rows'[i].status = "done" /\ rows[i].status # "done"
             /\ rows'[i].uid \notin stale'
             => rows'[i].completed]_vars
    BY StampStep
  <1>2. QED
    BY <1>1, Invariance, PTL DEF Spec, DoneIsStamped

(* What a claim answers with is what it won, or else the caller has no won *)
(* task left that it still waits for.                                      *)
HandsOutItsOwn ==
  [][\A q \in handed' \ handed :
       q \in claimed \/ \A p \in claimed : p[1] = q[1] => p \in handed]_vars

(* A claim reads its task back by id after the commit (store.py 158-159),  *)
(* so it can answer with a task somebody else won. It does so only when    *)
(* the task it won was deleted or put back to backlog in between: no other *)
(* order of statements and restarts hands out a wrong task.                *)
THEOREM WonTasksAreHandedOut == Spec => HandsOutItsOwn
  <1>1. ASSUME IInv, [Next]_vars
        PROVE  \A q \in handed' \ handed :
                 q \in claimed \/ \A p \in claimed : p[1] = q[1] => p \in handed
    <2>1. SUFFICES ASSUME NEW q \in handed' \ handed, NEW p \in claimed,
                          p[1] = q[1], p \notin handed
                   PROVE  q \in claimed
      OBVIOUS
    <2>2. PICK c \in Clients : ClaimRead(c)
      BY <1>1, <2>1 DEF Next, Create, UpdateLoad, UpdateCommit, DeleteLoad, DeleteCommit,
         ClaimList, ClaimTry, Restart, Without, vars, history
    <2>3. q = <<c, rows[at[c]].uid>>
      BY <2>1, <2>2 DEF ClaimRead
    <2>4. rows[at[c]].uid = p[2] /\ p[1] = c
      BY <1>1, <2>1, <2>3 DEF IInv, Claims, ClaimAccounted
    <2>5. p = <<p[1], p[2]>>
      BY <1>1 DEF IInv, Typed, TypeOK
    <2>6. QED
      BY <2>1, <2>3, <2>4, <2>5
  <1>2. Spec => [][\A q \in handed' \ handed :
                      q \in claimed \/ \A p \in claimed : p[1] = q[1] => p \in handed]_vars
    BY <1>1, Invariance, PTL DEF Spec
  <1>3. QED
    BY <1>2 DEF HandsOutItsOwn

-----------------------------------------------------------------------------
(* The place of a live task is read off its row. *)
PlaceOf(i, u) ==
  IF rows[i].status = "backlog" THEN "queued"
  ELSE IF Holders(u) = {} THEN "aside"
  ELSE CHOOSE c \in Holders(u) : TRUE

LivePlaces == \A i \in Live : \A u : rows[i].uid = u => Place(u) = PlaceOf(i, u)

LEMMA PlaceLive == IInv => LivePlaces
  <1> USE DEF LivePlaces
  <1> SUFFICES ASSUME IInv, NEW i \in Live, NEW u, rows[i].uid = u
               PROVE  Place(u) = PlaceOf(i, u)
    OBVIOUS
  <1>1. u \in 1..births /\ births \in Nat
    BY DEF IInv, Identity, UidsGivenOut, Typed, TypeOK
  <1>2. u \in LiveUids /\ ~ (u > births)
    BY <1>1 DEF LiveUids
  <1>3. Queued(u) <=> rows[i].status = "backlog"
    BY DEF Queued, IInv, Identity, UidsDiffer
  <1>4. QED
    BY <1>2, <1>3 DEF Place, PlaceOf

LEMMA PlaceLiveNext ==
  IInv' => LivePlaces'
  BY PlaceLive, PTL

(* A live, queued task is held by nobody; a place is never made up. *)
LEMMA PlaceRange ==
  ASSUME IInv, NEW i \in Live, NEW u, rows[i].uid = u
  PROVE  /\ rows[i].status = "backlog" => Place(u) = "queued" /\ Holders(u) = {}
         /\ Place(u) \in {"queued", "aside"} \cup Clients
  <1>1. Place(u) = PlaceOf(i, u)
    BY PlaceLive DEF LivePlaces
  <1>2. rows[i].status = "backlog" => Holders(u) = {}
    BY RowOfClaim DEF Holders
  <1>3. Holders(u) \subseteq Clients
    BY DEF Holders
  <1>4. QED
    BY <1>1, <1>2, <1>3 DEF PlaceOf

LEMMA SamePlace ==
  ASSUME NEW u,
         u > births' <=> u > births, u \in LiveUids' <=> u \in LiveUids,
         Queued(u)' <=> Queued(u), Holders(u)' = Holders(u)
  PROVE  Place(u)' = Place(u)
  BY DEF Place

(* One task changes its place, the others keep theirs. *)
LEMMA OneMove ==
  ASSUME NEW u \in Births, \A t \in Births \ {u} : Place(t)' = Place(t)
  PROVE  Slot[u] = Place(u) /\ Slot' = [Slot EXCEPT ![u] = Place(u)']
  BY DEF Slot

LEMMA NoMove ==
  ASSUME \A t \in Births : Place(t)' = Place(t)
  PROVE  Slot' = Slot
  BY DEF Slot

QueueMoves == Queue!Next \/ UNCHANGED Slot

(* Steps that leave births, rows and claims alone move no task. *)
LEMMA QuietMoves ==
  ASSUME UNCHANGED <<rows, births, claimed>>
  PROVE  QueueMoves
  BY DEF QueueMoves, Slot, Place, Live, LiveUids, Queued, Holders

LEMMA CreateMoves ==
  ASSUME IInv, IInv', NEW c \in Clients, NEW q \in Payloads, Create(c, q)
  PROVE  QueueMoves
  <1>1. PICK i \in Ids \ Live : \E r \in Row :
           /\ Live' = Live \cup {i}
           /\ \A j \in Live : rows'[j] = rows[j]
           /\ rows'[i] = r
           /\ r.uid = births + 1
           /\ births \in Nat /\ births' = births + 1
           /\ claimed' = claimed
    BY CreateStep
  <1>2. PICK u : u = births + 1
    OBVIOUS
  <1>3. u \in Births
    BY <1>2 DEF Create, IInv, Typed, TypeOK, Births
  <1>4. \A j \in Live : rows[j].uid \in Nat /\ rows[j].uid # u
    BY <1>1, <1>2 DEF IInv, Identity, UidsGivenOut
  <1>5. Holders(u)' = {}
    BY <1>1, <1>4 DEF Holders, IInv, Claims, ClaimLeavesQueue
  <1>6. Place(u) = "unborn"
    BY <1>1, <1>2 DEF Place
  <1>7. Place(u)' \in {"queued", "aside"}
    <2>1. Place(u)' = PlaceOf(i, u)'
      BY <1>1, <1>2, PlaceLiveNext DEF LivePlaces
    <2>2. QED
      BY <1>5, <2>1 DEF PlaceOf
  <1>8. ASSUME NEW t \in Births \ {u}
        PROVE  Place(t)' = Place(t)
    <2>1. t > births' <=> t > births
      BY <1>1, <1>2 DEF Births
    <2>2. t \in LiveUids' <=> t \in LiveUids
      BY <1>1, <1>2 DEF LiveUids
    <2>3. Queued(t)' <=> Queued(t)
      BY <1>1, <1>2 DEF Queued
    <2>4. Holders(t)' = Holders(t)
      BY <1>1 DEF Holders
    <2>5. QED
      BY <2>1, <2>2, <2>3, <2>4, SamePlace
  <1>9. Queue!Arrive(u)
    BY <1>3, <1>6, <1>7, <1>8, OneMove DEF Queue!Arrive, Queue!Move
  <1>10. QED
    BY <1>3, <1>9 DEF QueueMoves, Queue!Next

LEMMA UpdateMoves ==
  ASSUME IInv, IInv', NEW c \in Clients, UpdateCommit(c)
  PROVE  QueueMoves
  <1>1. births' = births
    BY DEF UpdateCommit
  <1>2. CASE UNCHANGED <<rows, claimed, handed, stale>>
    BY <1>1, <1>2, QuietMoves
  <1>3. CASE UpdateWrites(c)
    <2>1. PICK i : i = at[c]
      OBVIOUS
    <2>2. /\ i \in Live /\ Live' = Live
          /\ \A j \in Live : rows'[j].uid = rows[j].uid
          /\ \A j \in Live \ {i} : rows'[j] = rows[j]
      BY <1>3, <2>1, UpdateRows DEF UpdateWrites
    <2>3. PICK u : u = rows[i].uid
      OBVIOUS
    <2>4. /\ \A t : t # u => Holders(t)' = Holders(t)
          /\ rows'[i].status # "backlog" => claimed' = claimed
      BY <1>3, <2>1, <2>2, <2>3, UpdateRows DEF UpdateWrites, Without, Holders
    <2>5. u \in Births /\ Place(u) = PlaceOf(i, u) /\ Place(u)' = PlaceOf(i, u)'
      BY <2>2, <2>3, PlaceLive, PlaceLiveNext DEF LivePlaces, Live, IInv, Typed, TypeOK, Row
    <2>6. ASSUME NEW t \in Births \ {u}
          PROVE  Place(t)' = Place(t)
      <3>1. t \in LiveUids' <=> t \in LiveUids
        BY <2>2 DEF LiveUids
      <3>2. Queued(t)' <=> Queued(t)
        BY <2>2, <2>3 DEF Queued
      <3>3. QED
        BY <1>1, <2>4, <3>1, <3>2, SamePlace
    <2>7. Slot[u] = Place(u) /\ Slot' = [Slot EXCEPT ![u] = Place(u)']
      BY <2>5, <2>6, OneMove
    <2>8. CASE Place(u)' = Place(u)
      BY <2>5, <2>6, <2>8, NoMove DEF QueueMoves
    <2>9. CASE rows'[i].status = "backlog" /\ Place(u)' # Place(u)
      <3>1. Place(u)' = "queued" /\ Place(u) \in {"aside"} \cup Clients
        BY <2>2, <2>3, <2>5, <2>9, PlaceRange DEF PlaceOf
      <3>2. Queue!Requeue(u)
        BY <2>7, <3>1 DEF Queue!Requeue, Queue!Move
      <3>3. QED
        BY <2>5, <3>2 DEF QueueMoves, Queue!Next
    <2>10. CASE rows'[i].status # "backlog" /\ Place(u)' # Place(u)
      <3>1. Holders(u)' = Holders(u)
        BY <2>4, <2>10 DEF Holders
      <3>2. rows[i].status = "backlog"
        BY <2>5, <2>10, <3>1 DEF PlaceOf
      <3>3. Place(u) = "queued" /\ Holders(u) = {}
        BY <2>2, <2>3, <3>2, PlaceRange
      <3>4. Place(u)' = "aside"
        BY <2>5, <2>10, <3>1, <3>3 DEF PlaceOf
      <3>5. Queue!SetAside(u)
        BY <2>7, <3>3, <3>4 DEF Queue!SetAside, Queue!Move
      <3>6. QED
        BY <2>5, <3>5 DEF QueueMoves, Queue!Next
    <2>11. QED
      BY <2>8, <2>9, <2>10
  <1>4. QED
    BY <1>2, <1>3, UpdateStep

LEMMA DeleteMoves ==
  ASSUME IInv, IInv', NEW c \in Clients, DeleteCommit(c)
  PROVE  QueueMoves
  <1>1. PICK i : i = at[c]
    OBVIOUS
  <1>2. /\ births' = births /\ Live' = Live \ {i} /\ \A j \in Live' : rows'[j] = rows[j]
        /\ claimed' = Without(claimed, Gone(c))
    BY <1>1, DeleteRows, DeleteHistory DEF DeleteCommit
  <1>3. CASE i \notin Live
    <2>1. Live' = Live /\ claimed' = claimed
      BY <1>1, <1>2, <1>3 DEF Gone, Without
    <2>2. ASSUME NEW t \in Births
          PROVE  Place(t)' = Place(t)
      BY <1>2, <2>1 DEF Place, LiveUids, Queued, Holders
    <2>3. QED
      BY <2>2, NoMove DEF QueueMoves
  <1>4. CASE i \in Live
    <2>1. PICK u : u = rows[i].uid
      OBVIOUS
    <2>2. /\ u \in Births /\ u \in 1..births /\ births \in Nat
          /\ \A j \in Live \ {i} : rows[j].uid # u
      BY <1>4, <2>1 DEF Live, IInv, Typed, TypeOK, Row, Identity, UidsGivenOut, UidsDiffer
    <2>3. Place(u)' = "gone"
      <3>1. u \notin LiveUids'
        BY <1>2, <2>2 DEF LiveUids
      <3>2. ~ (u > births')
        BY <1>2, <2>2
      <3>3. QED
        BY <3>1, <3>2 DEF Place
    <2>4. Place(u) \in {"queued", "aside"} \cup Clients
      BY <1>4, <2>1, PlaceRange
    <2>5. ASSUME NEW t \in Births \ {u}
          PROVE  Place(t)' = Place(t)
      <3>1. t \in LiveUids' <=> t \in LiveUids
        BY <1>2, <2>1 DEF LiveUids
      <3>2. Queued(t)' <=> Queued(t)
        BY <1>2, <2>1 DEF Queued
      <3>3. t \notin Gone(c)
        BY <1>1, <2>1 DEF Gone
      <3>4. Holders(t)' = Holders(t)
        BY <1>2, <3>3 DEF Holders, Without
      <3>5. QED
        BY <1>2, <3>1, <3>2, <3>4, SamePlace
    <2>6. Queue!Retire(u)
      BY <2>2, <2>3, <2>4, <2>5, OneMove DEF Queue!Retire, Queue!Move
    <2>7. QED
      BY <2>2, <2>6 DEF QueueMoves, Queue!Next
  <1>5. QED
    BY <1>3, <1>4

LEMMA ClaimMoves ==
  ASSUME IInv, IInv', NEW c \in Clients, NEW i \in Ids, ClaimTry(c, i)
  PROVE  QueueMoves
  <1>1. births' = births
    BY DEF ClaimTry
  <1>2. CASE ~ Wins(i)
    BY <1>1, <1>2, QuietMoves DEF ClaimTry
  <1>3. CASE Wins(i)
    <2>1. PICK u : u = rows[i].uid
      OBVIOUS
    <2>2. /\ i \in Live /\ Live' = Live /\ rows[i].status = "backlog"
          /\ \A j \in Live \ {i} : rows'[j] = rows[j]
          /\ rows'[i].uid = u /\ rows'[i].status = "in_progress"
          /\ claimed' = claimed \cup {<<c, u>>}
      BY <1>3, <2>1, ClaimRows DEF Row
    <2>3. u \in Births
      BY <2>1, <2>2 DEF Live, IInv, Typed, TypeOK, Row
    <2>4. Place(u) = "queued" /\ Holders(u) = {}
      BY <2>1, <2>2, PlaceRange
    <2>5. Holders(u)' = {c}
      BY <2>2, <2>4 DEF Holders
    <2>6. Place(u)' = c
      <3>1. Place(u)' = PlaceOf(i, u)'
        BY <2>2, PlaceLiveNext DEF LivePlaces
      <3>2. QED
        BY <2>2, <2>5, <3>1 DEF PlaceOf
    <2>7. ASSUME NEW t \in Births \ {u}
          PROVE  Place(t)' = Place(t)
      <3>1. t \in LiveUids' <=> t \in LiveUids
        BY <2>1, <2>2 DEF LiveUids
      <3>2. Queued(t)' <=> Queued(t)
        BY <2>1, <2>2 DEF Queued
      <3>3. Holders(t)' = Holders(t)
        BY <2>2 DEF Holders
      <3>4. QED
        BY <1>1, <3>1, <3>2, <3>3, SamePlace
    <2>8. Queue!Take(c, u)
      BY <2>3, <2>4, <2>6, <2>7, OneMove DEF Queue!Take, Queue!Move
    <2>9. QED
      BY <2>3, <2>8 DEF QueueMoves, Queue!Next
  <1>4. QED
    BY <1>2, <1>3

(* A restart puts the tasks whose claims it forgets aside, all at once. *)
LEMMA RestartMoves ==
  ASSUME IInv, IInv', Restart
  PROVE  QueueMoves
  <1>1. /\ UNCHANGED <<rows, births>> /\ Live' = Live /\ LiveUids' = LiveUids
        /\ \A t : Queued(t)' <=> Queued(t)
        /\ claimed' = claimed \cap handed
    BY DEF Restart, Live, LiveUids, Queued
  <1>2. \A t : Holders(t)' \subseteq Holders(t)
    BY <1>1 DEF Holders
  <1>3. \A t : \A a, b \in Holders(t) : a = b
    BY DEF Holders, IInv, Claims, ClaimExclusive
  <1>4. ASSUME NEW t \in Births, Place(t)' # Place(t)
        PROVE  Place(t) \in Clients /\ Place(t)' = "aside"
    <2>1. Holders(t)' # Holders(t)
      BY <1>1, <1>4, SamePlace
    <2>2. Holders(t) # {} /\ Holders(t)' = {}
      BY <1>2, <1>3, <2>1
    <2>3. ~ (t > births) /\ t \in LiveUids /\ ~ Queued(t)
      BY <1>1, <1>4 DEF Place
    <2>4. Place(t) \in Holders(t)
      BY <2>2, <2>3 DEF Place
    <2>5. Place(t)' = "aside"
      BY <1>1, <2>2, <2>3 DEF Place
    <2>6. QED
      BY <2>4, <2>5 DEF Holders
  <1> DEFINE forgotten == {t \in Births : Place(t)' # Place(t)}
  <1>5. forgotten \in SUBSET {t \in Births : Slot[t] \in Clients}
    BY <1>4 DEF Slot
  <1>6. Slot' = [t \in Births |-> IF t \in forgotten THEN "aside" ELSE Slot[t]]
    BY <1>4 DEF Slot
  <1>7. Queue!Abandon
    BY <1>5, <1>6 DEF Queue!Abandon
  <1>8. QED
    BY <1>7 DEF QueueMoves, Queue!Next

(* The store implements the queue of claims. *)
THEOREM StoreImplementsQueue == Spec => ImplementsClaimQueue
  <1>1. Init => Queue!Init
    BY ConstantsAssumption DEF Init, Queue!Init, Slot, Place, Births
  <1>2. IInv /\ IInv' /\ [Next]_vars => [Queue!Next]_Slot
    <2> SUFFICES ASSUME IInv, IInv', [Next]_vars
                 PROVE  QueueMoves
      BY DEF QueueMoves
    <2>1. CASE UNCHANGED <<rows, births, claimed>>
      BY <2>1, QuietMoves
    <2>2. ASSUME ~ UNCHANGED <<rows, births, claimed>>
          PROVE  \/ \E c \in Clients : \/ \E q \in Payloads : Create(c, q)
                                       \/ UpdateCommit(c)
                                       \/ DeleteCommit(c)
                                       \/ \E i \in Ids : ClaimTry(c, i)
                 \/ Restart
      BY <2>2 DEF Next, vars, history, UpdateLoad, DeleteLoad, ClaimList, ClaimRead
    <2>3. QED
      BY <2>1, <2>2, CreateMoves, UpdateMoves, DeleteMoves, ClaimMoves, RestartMoves
  <1>3. QED
    BY <1>1, <1>2, Invariance, PTL DEF Spec, ImplementsClaimQueue, Queue!Spec

=============================================================================
