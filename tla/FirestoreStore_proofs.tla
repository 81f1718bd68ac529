------------------------ MODULE FirestoreStore_proofs ------------------------
(***************************************************************************)
(* Theorems about FirestoreStore, for any number of callers, ids, external *)
(* ids, request bodies, and any old database.                              *)
(***************************************************************************)
EXTENDS FirestoreStore, TLAPS

LEMMA NoRowIsNoRow == \A r \in Row : r # NoRow
  BY ConstantsAssumption

LEMMA NoExtIsFree == NoExt \notin ExtIds /\ Unset \notin ExtIds /\ Unset # NoExt
  BY ConstantsAssumption

LEMMA NoBodyType == NoBody \in Patch
  BY DEF NoBody, Patch

LEMMA IdsAreNumbers == NoId \notin Ids /\ \A i \in Ids : i \in Nat
  BY ConstantsAssumption DEF Ids, NoId

(* The rows the actions write are rows. *)
LEMMA NewRowType ==
  ASSUME NEW p \in Payload
  PROVE  NewRow(p) \in Row /\ NewRow(p).ext = p.ext /\ ~ NewRow(p).completed
  BY DEF NewRow, Payload, Row

LEMMA MergedType ==
  ASSUME NEW r \in Row, NEW p \in Patch, NEW b \in BOOLEAN
  PROVE  /\ Merged(r, p, b) \in Row
         /\ Merged(r, p, b).ext = Field(p.ext, r.ext)
         /\ Merged(r, p, b).status = Field(p.status, r.status)
  <1>1. Field(p.status, r.status) \in Statuses /\ Field(p.assignee, r.assignee) \in Assignees
    BY DEF Field, Row, Patch
  <1>2. Field(p.ext, r.ext) \in ExtIds \cup {NoExt}
    BY DEF Field, Row, Patch
  <1>3. r.completed \in BOOLEAN
    BY DEF Row
  <1>4. (CASE p.status = Unset -> r.completed
           [] p.status = "done" -> r.completed \/ ~b
           [] OTHER -> FALSE) \in BOOLEAN
    BY <1>3
  <1>5. QED
    BY <1>1, <1>2, <1>4 DEF Merged, Row

(* completed_at goes with done, whatever the PATCH and its snapshot were. *)
LEMMA MergedCompleted ==
  ASSUME NEW r \in Row, NEW p \in Patch, NEW b \in BOOLEAN,
         r.completed => r.status = "done"
  PROVE  Merged(r, p, b).completed => Merged(r, p, b).status = "done"
  <1> DEFINE m == Merged(r, p, b)
  <1>0. Unset # "done"
    BY ConstantsAssumption DEF Statuses
  <1>1. CASE p.status = Unset
    <2>1. m.completed = r.completed /\ m.status = r.status
      BY <1>0, <1>1 DEF Merged, Field
    <2>2. QED
      BY <2>1
  <1>2. CASE p.status = "done"
    BY <1>0, <1>2 DEF Merged, Field
  <1>3. CASE p.status \notin {"done", Unset}
    BY <1>3 DEF Merged
  <1>4. QED
    BY <1>1, <1>2, <1>3

LEMMA StartedType ==
  ASSUME NEW r \in Row
  PROVE  /\ Started(r) \in Row /\ Started(r).ext = r.ext
         /\ Started(r).completed = r.completed /\ Started(r).status = "in_progress"
  BY DEF Started, Row, Statuses

-----------------------------------------------------------------------------
(* What every request of a caller has read and where it stands. *)
RequestsOK ==
  /\ pc \in [Clients -> {"idle", "create_id", "create_put", "update_check",
                         "update_txn", "update_plain", "claim"}]
  /\ at \in [Clients -> Ids \cup {NoId}]
  /\ body \in [Clients -> Payload \cup Patch]
  /\ seen \in [Clients -> BOOLEAN]
  /\ cand \in [Clients -> SUBSET Ids]
  /\ \A c \in Clients :
       /\ pc[c] \in {"create_id", "create_put"} => body[c] \in Payload
       /\ pc[c] \in {"update_check", "update_txn", "update_plain"} =>
            body[c] \in Patch /\ at[c] \in Ids
       /\ pc[c] \in {"update_check", "update_txn"} => body[c].ext # Unset
       /\ pc[c] = "update_plain" => body[c].ext = Unset
       /\ pc[c] = "create_put" => at[c] \in Ids

LEMMA AnswerType ==
  ASSUME NEW c \in Clients, RequestsOK, Answer(c)
  PROVE  RequestsOK'
  BY NoBodyType DEF RequestsOK, Answer

(* What one step does to the documents, the reservations and the history.  *)
(* In Moved, task i comes to bear e, and gives up what it bore before.     *)
Moved(i, e) ==
  /\ mapping' \in [ExtIds -> Ids \cup {NoId}]
  /\ e \in ExtIds => Bearers(e) \subseteq {i} /\ mapping'[e] = i
  /\ \A x \in ExtIds \ {e} : mapping'[x] = IF i \in Bearers(x) THEN NoId ELSE mapping[x]

Quiet == UNCHANGED <<docs, mapping, claimed, gone>>

Put(c) ==
  LET r == NewRow(body[c])
  IN /\ pc[c] = "create_put" /\ pc'[c] = "idle"
     /\ docs' = [docs EXCEPT ![at[c]] = r]
     /\ Moved(at[c], r.ext)
     /\ UNCHANGED <<claimed, gone>>

Rewritten(i, p, b) ==
  LET r == Merged(docs[i], p, b)
  IN /\ i \in Live
     /\ docs' = [docs EXCEPT ![i] = r]
     /\ (r.ext = docs[i].ext /\ mapping' = mapping) \/ Moved(i, r.ext)
     /\ claimed' = KeptClaims(i, p)
     /\ gone' = gone

Removed(i) ==
  /\ i \in Live
  /\ docs' = [docs EXCEPT ![i] = NoRow]
  /\ Moved(i, NoExt)
  /\ claimed' = {q \in claimed : q[2] # i}
  /\ gone' = gone \cup {i}

Taken(c, i) ==
  /\ Wins(i)
  /\ docs' = [docs EXCEPT ![i] = Started(docs[i])]
  /\ mapping' = mapping
  /\ claimed' = claimed \cup {<<c, i>>}
  /\ gone' = gone

-----------------------------------------------------------------------------
(* The inductive invariant. Ids: those of live and deleted tasks, and      *)
(* those of creations under way, have been counted and are all different.  *)
IdsOK ==
  /\ Live \cup gone \subseteq 1..counter
  /\ gone \cap Live = {}
  /\ \A c \in Clients : pc[c] = "create_put" =>
       /\ at[c] \in 1..counter
       /\ at[c] \notin Live \cup gone
       /\ \A d \in Clients : pc[d] = "create_put" /\ at[d] = at[c] => d = c

(* The bearers of x, but for task a, are reserved. *)
Reserved(x, a) == \A j \in Bearers(x) : mapping[x] = j \/ j = a

(* A request past its lookup of an external id has only reserved bearers   *)
(* to fear: a bearer that nothing reserves bears its id from the start.    *)
LookedUp ==
  \A c \in Clients : \A x \in ExtIds : body[c].ext = x =>
    /\ pc[c] \in {"create_id", "create_put"} => Reserved(x, NoId)
    /\ pc[c] = "update_txn" => Reserved(x, at[c])

ClaimsOK ==
  /\ \A q \in claimed : q[2] \in Live /\ docs[q[2]].status # "backlog"
  /\ \A p, q \in claimed : p[2] = q[2] => p = q

TablesOK ==
  /\ docs \in [Ids -> Row \cup {NoRow}]
  /\ mapping \in [ExtIds -> Ids \cup {NoId}]
  /\ counter \in 0..MaxIds
  /\ claimed \subseteq Clients \X Ids
  /\ gone \subseteq Ids

Typed == TablesOK /\ RequestsOK

IInv == Typed /\ IdsOK /\ ExternalIdUnique /\ LookedUp /\ CompletedOnlyWhenDone /\ ClaimsOK

LEMMA LiveRows ==
  ASSUME TablesOK, NEW i \in Live
  PROVE  i \in Ids /\ docs[i] \in Row
  BY DEF Live, TablesOK

(* The transactions of creations, PATCHes and deletions move reservations. *)
LEMMA ReservableMeans ==
  ASSUME TablesOK, NEW e \in ExtIds, NEW i \in Ids, NEW a \in {i, NoId},
         Reserved(e, a), Reservable(e, a)
  PROVE  Bearers(e) \subseteq {i}
  <1> SUFFICES ASSUME NEW j \in Bearers(e), j # i
               PROVE  FALSE
    OBVIOUS
  <1>1. j \in Live /\ j \in Ids /\ docs[j].ext = e /\ j # NoId
    BY IdsAreNumbers DEF Bearers, Live
  <1>2. mapping[e] = j
    BY <1>1 DEF Reserved
  <1>3. Owner(e) = j
    BY <1>1, <1>2 DEF Owner
  <1>4. QED
    BY <1>1, <1>3, NoExtIsFree DEF Reservable

LEMMA RemappedMoves ==
  ASSUME TablesOK, ExternalIdUnique, NEW i \in Live, NEW e \in ExtIds \cup {NoExt},
         e \in ExtIds => Bearers(e) \subseteq {i},
         mapping' = Remapped(i, e)
  PROVE  Moved(i, e)
  <1>1. i \in Ids /\ NoId \in Ids \cup {NoId}
    BY LiveRows
  <1>2. mapping' \in [ExtIds -> Ids \cup {NoId}]
    BY <1>1 DEF Remapped, TablesOK
  <1>3. ASSUME NEW x \in ExtIds \ {e}
        PROVE  mapping'[x] = IF i \in Bearers(x) THEN NoId ELSE mapping[x]
    <2>1. i \in Bearers(x) <=> docs[i].ext = x
      BY DEF Bearers
    <2>2. CASE i \in Bearers(x)
      <3>1. Owner(x) \in {i, NoId}
        BY <2>2 DEF Owner, ExternalIdUnique, Bearers
      <3>2. QED
        BY <2>1, <2>2, <3>1 DEF Remapped
    <2>3. CASE i \notin Bearers(x)
      BY <2>1, <2>3 DEF Remapped
    <2>4. QED
      BY <2>2, <2>3
  <1>4. e \in ExtIds => mapping'[e] = i
    BY DEF Remapped
  <1>5. QED
    BY <1>2, <1>3, <1>4 DEF Moved
LEMMA PutEffect ==
  ASSUME Typed, IdsOK, LookedUp, NEW c \in Clients, CreatePut(c)
  PROVE  Put(c) \/ Quiet
  <1> DEFINE p == body[c]
             i == at[c]
  <1>1. /\ p \in Payload /\ p.ext \in ExtIds \cup {NoExt} /\ i \in Ids /\ i \notin Live
        /\ NewRow(p).ext = p.ext
    BY NewRowType DEF CreatePut, Typed, RequestsOK, IdsOK, Payload
  <1>2. CASE ~ Reservable(p.ext, NoId)
    BY <1>2 DEF CreatePut, Quiet
  <1>3. CASE Reservable(p.ext, NoId)
    <2>1. /\ docs' = [docs EXCEPT ![i] = NewRow(p)]
          /\ mapping' = [e \in ExtIds |-> IF e = p.ext THEN i ELSE mapping[e]]
          /\ pc[c] = "create_put" /\ pc'[c] = "idle"
          /\ UNCHANGED <<claimed, gone>>
      BY <1>3 DEF CreatePut, Answer, Typed, RequestsOK
    <2>2. mapping' \in [ExtIds -> Ids \cup {NoId}]
      BY <1>1, <2>1 DEF Typed, TablesOK
    <2>3. p.ext \in ExtIds => Bearers(p.ext) \subseteq {i} /\ mapping'[p.ext] = i
      <3>1. p.ext \in ExtIds => Reserved(p.ext, NoId)
        BY <2>1 DEF LookedUp
      <3>2. QED
        BY <1>1, <1>3, <2>1, <3>1, ReservableMeans DEF Typed
    <2>4. \A x \in ExtIds \ {p.ext} : mapping'[x] = IF i \in Bearers(x) THEN NoId ELSE mapping[x]
      BY <1>1, <2>1 DEF Bearers
    <2>5. QED
      BY <1>1, <2>1, <2>2, <2>3, <2>4 DEF Put, Moved
  <1>4. QED
    BY <1>2, <1>3

LEMMA TxnEffect ==
  ASSUME Typed, ExternalIdUnique, LookedUp, NEW c \in Clients, UpdateTxn(c)
  PROVE  Rewritten(at[c], body[c], seen[c]) \/ Quiet
  <1> DEFINE p == body[c]
             i == at[c]
  <1>1. p \in Patch /\ p.ext # Unset /\ p.ext \in ExtIds \cup {NoExt} /\ i \in Ids
    BY DEF UpdateTxn, Typed, RequestsOK, Patch
  <1>2. CASE ~ (i \in Live /\ Reservable(p.ext, i))
    BY <1>2 DEF UpdateTxn, Quiet
  <1>3. CASE i \in Live /\ Reservable(p.ext, i)
    <2>1. /\ docs' = [docs EXCEPT ![i] = Merged(docs[i], p, seen[c])]
          /\ mapping' = Remapped(i, p.ext)
          /\ claimed' = KeptClaims(i, p)
          /\ gone' = gone
          /\ pc[c] = "update_txn"
      BY <1>3 DEF UpdateTxn
    <2>2. p.ext \in ExtIds => Bearers(p.ext) \subseteq {i}
      <3>1. p.ext \in ExtIds => Reserved(p.ext, i)
        BY <2>1 DEF LookedUp
      <3>2. QED
        BY <1>1, <1>3, <3>1, ReservableMeans DEF Typed
    <2>3. Moved(i, p.ext)
      BY <1>1, <1>3, <2>1, <2>2, RemappedMoves DEF Typed
    <2>4. Merged(docs[i], p, seen[c]).ext = p.ext
      BY <1>1 DEF Merged, Field
    <2>5. QED
      BY <1>3, <2>1, <2>3, <2>4 DEF Rewritten
  <1>4. QED
    BY <1>2, <1>3

LEMMA PlainEffect ==
  ASSUME Typed, NEW c \in Clients, UpdatePlain(c)
  PROVE  Rewritten(at[c], body[c], seen[c]) \/ Quiet
  <1> DEFINE p == body[c]
             i == at[c]
  <1>1. p.ext = Unset
    BY DEF UpdatePlain, Typed, RequestsOK
  <1>2. CASE i \notin Live
    BY <1>2 DEF UpdatePlain, Quiet
  <1>3. CASE i \in Live
    <2>1. Merged(docs[i], p, seen[c]).ext = docs[i].ext
      BY <1>1 DEF Merged, Field
    <2>2. QED
      BY <1>3, <2>1 DEF UpdatePlain, Rewritten
  <1>4. QED
    BY <1>2, <1>3

LEMMA DeleteEffect ==
  ASSUME Typed, ExternalIdUnique, NEW c \in Clients, NEW i \in Ids, Delete(c, i)
  PROVE  Removed(i)
  BY RemappedMoves, NoExtIsFree DEF Delete, Removed, Typed

LEMMA TryEffect ==
  ASSUME NEW c \in Clients, NEW i \in Ids, ClaimTry(c, i)
  PROVE  Taken(c, i) \/ Quiet
  BY DEF ClaimTry, Taken, Quiet

(* Every step has one of these effects.                                    *)
Effect ==
  \/ Quiet
  \/ \E c \in Clients : \/ Put(c)
                        \/ body[c] \in Patch /\ Rewritten(at[c], body[c], seen[c])
                        \/ \E i \in Ids : Taken(c, i)
  \/ \E i \in Ids : Removed(i)

LEMMA Effects ==
  ASSUME Typed, IdsOK, ExternalIdUnique, LookedUp, [Next]_vars
  PROVE  Effect
  <1>1. ASSUME NEW c \in Clients,
               \/ \E p \in Payloads : CreateCheck(c, p)
               \/ CreateId(c)
               \/ \E i \in Ids : \E p \in Patches : UpdateGet(c, i, p)
               \/ UpdateCheck(c)
               \/ ClaimList(c)
               \/ Drop(c)
        PROVE  Effect
    BY <1>1 DEF CreateCheck, CreateId, UpdateGet, UpdateCheck, ClaimList, Drop, Effect, Quiet
  <1>2. ASSUME NEW c \in Clients, UpdateTxn(c) \/ UpdatePlain(c)
        PROVE  Effect
    <2>1. body[c] \in Patch
      BY <1>2 DEF UpdateTxn, UpdatePlain, Typed, RequestsOK
    <2>2. QED
      BY <1>2, <2>1, TxnEffect, PlainEffect DEF Effect
  <1>3. ASSUME NEW c \in Clients,
               CreatePut(c) \/ (\E i \in Ids : Delete(c, i) \/ ClaimTry(c, i))
        PROVE  Effect
    BY <1>3, PutEffect, DeleteEffect, TryEffect DEF Effect
  <1>4. CASE UNCHANGED vars
    BY <1>4 DEF vars, Effect, Quiet
  <1>5. QED
    BY <1>1, <1>2, <1>3, <1>4 DEF Next

-----------------------------------------------------------------------------
(* The documents after an effect that wrote row r (or NoRow) at i.         *)
Written(i, r) ==
  /\ i \in Ids /\ r \in Row \cup {NoRow}
  /\ docs' = [docs EXCEPT ![i] = r]
  /\ \/ i \in Live /\ r \in Row /\ r.ext = docs[i].ext /\ mapping' = mapping
     \/ r \in Row /\ Moved(i, r.ext)
     \/ r = NoRow /\ Moved(i, NoExt)

LEMMA PutWritten ==
  ASSUME Typed, NEW c \in Clients, Put(c)
  PROVE  at[c] \in Ids /\ Written(at[c], NewRow(body[c]))
  BY NewRowType DEF Put, Written, Typed, RequestsOK

LEMMA RewrittenWritten ==
  ASSUME Typed, NEW i, NEW p \in Patch, NEW b \in BOOLEAN, Rewritten(i, p, b)
  PROVE  Written(i, Merged(docs[i], p, b))
  BY MergedType, LiveRows DEF Rewritten, Written, Typed

LEMMA RemovedWritten ==
  ASSUME NEW i \in Ids, Removed(i)
  PROVE  Written(i, NoRow)
  BY DEF Removed, Written

LEMMA TakenWritten ==
  ASSUME Typed, NEW c, NEW i \in Ids, Taken(c, i)
  PROVE  Written(i, Started(docs[i]))
  BY StartedType, LiveRows DEF Taken, Written, Wins, Typed

LEMMA WrittenDocs ==
  ASSUME TablesOK, NEW i, NEW r, Written(i, r)
  PROVE  /\ docs' \in [Ids -> Row \cup {NoRow}]
         /\ mapping' \in [ExtIds -> Ids \cup {NoId}]
         /\ docs'[i] = r
         /\ \A j \in Ids \ {i} : docs'[j] = docs[j]
         /\ Live' = IF r = NoRow THEN Live \ {i} ELSE Live \cup {i}
  BY DEF Written, TablesOK, Moved, Live

(* Who bears x after the write.                                            *)
LEMMA WrittenBearers ==
  ASSUME TablesOK, NEW i, NEW r, Written(i, r), NEW x \in ExtIds
  PROVE  /\ Bearers(x)' \ {i} = Bearers(x) \ {i}
         /\ i \in Bearers(x)' <=> r \in Row /\ r.ext = x
  BY WrittenDocs, NoRowIsNoRow DEF Bearers, Live, Written

LEMMA UniqueWritten ==
  ASSUME TablesOK, ExternalIdUnique, NEW i, NEW r, Written(i, r)
  PROVE  ExternalIdUnique'
  <1> SUFFICES ASSUME NEW x \in ExtIds, NEW j \in Bearers(x)', NEW k \in Bearers(x)'
               PROVE  j = k
    BY DEF ExternalIdUnique
  <1>1. CASE j # i /\ k # i
    BY <1>1, WrittenBearers DEF ExternalIdUnique
  <1>2. CASE i \in Bearers(x)'
    <2>1. r \in Row /\ r.ext = x
      BY <1>2, WrittenBearers
    <2>2. Bearers(x) \subseteq {i}
      BY <2>1, NoRowIsNoRow DEF Written, Moved, Bearers, ExternalIdUnique
    <2>3. QED
      BY <2>2, WrittenBearers
  <1>3. QED
    BY <1>1, <1>2

LEMMA ReservedWritten ==
  ASSUME TablesOK, ExternalIdUnique, NEW i, NEW r, Written(i, r), NEW x \in ExtIds, NEW a,
         Reserved(x, a)
  PROVE  \A j \in Bearers(x)' : mapping'[x] = j \/ j = a
  <1> SUFFICES ASSUME NEW j \in Bearers(x)', j # a
               PROVE  mapping'[x] = j
    OBVIOUS
  <1>1. CASE j # i
    <2>1. j \in Bearers(x) /\ mapping[x] = j
      BY <1>1, WrittenBearers DEF Reserved
    <2>2. i \notin Bearers(x)
      BY <1>1, <2>1 DEF ExternalIdUnique
    <2>3. QED
      BY <1>1, <2>1, <2>2, NoExtIsFree DEF Written, Moved
  <1>2. CASE j = i
    <2>1. r \in Row /\ r.ext = x
      BY <1>2, WrittenBearers
    <2>2. CASE Moved(i, x)
      BY <1>2, <2>2 DEF Moved
    <2>3. CASE i \in Live /\ r.ext = docs[i].ext /\ mapping' = mapping
      BY <1>2, <2>1, <2>3 DEF Bearers, Reserved
    <2>4. QED
      BY <2>1, <2>2, <2>3, NoRowIsNoRow DEF Written
  <1>3. QED
    BY <1>1, <1>2

LEMMA InStepWritten ==
  ASSUME TablesOK, ExternalIdUnique, NEW i, NEW r, Written(i, r), NEW x \in ExtIds, InStep(x)
  PROVE  InStep(x)'
  <1>1. Bearers(x)' \subseteq Live' /\ Bearers(x) \subseteq Live /\ i \in Ids
    BY DEF Bearers, Written
  <1>2. InStep(x)' <=> \/ mapping'[x] = NoId /\ Bearers(x)' = {}
                       \/ mapping'[x] \in Live' /\ Bearers(x)' = {mapping'[x]}
    BY DEF InStep
  <1>3. CASE i \in Bearers(x)'
    <2>1. r \in Row /\ r.ext = x
      BY <1>3, WrittenBearers
    <2>2. Bearers(x) \subseteq {i}
      BY <2>1, NoRowIsNoRow DEF Written, Moved, Bearers, ExternalIdUnique
    <2>3. Bearers(x)' = {i}
      BY <1>3, <2>2, WrittenBearers
    <2>4. mapping'[x] = i
      BY <2>1, <2>2, NoRowIsNoRow DEF Written, Moved, InStep, Bearers
    <2>5. QED
      BY <1>1, <1>2, <2>3, <2>4
  <1>4. CASE i \notin Bearers(x)' /\ i \in Bearers(x)
    <2>1. Bearers(x) = {i}
      BY <1>4 DEF ExternalIdUnique
    <2>2. Bearers(x)' = {}
      BY <1>4, <2>1, WrittenBearers
    <2>3. ~ (r \in Row /\ r.ext = x)
      BY <1>4, WrittenBearers
    <2>4. mapping'[x] = NoId
      BY <1>4, <2>3, NoExtIsFree DEF Written, Moved, Bearers
    <2>5. QED
      BY <1>2, <2>2, <2>4
  <1>5. CASE i \notin Bearers(x)' /\ i \notin Bearers(x)
    <2>1. Bearers(x)' = Bearers(x)
      BY <1>5, WrittenBearers
    <2>2. ~ (r \in Row /\ r.ext = x)
      BY <1>5, WrittenBearers
    <2>3. mapping'[x] = mapping[x]
      BY <1>5, <2>2, NoExtIsFree DEF Written, Moved
    <2>4. QED
      BY <1>1, <1>2, <2>1, <2>3 DEF InStep
  <1>6. QED
    BY <1>3, <1>4, <1>5

-----------------------------------------------------------------------------
(* An effect that writes writes some row.                                  *)
LEMMA EffectWrites ==
  ASSUME Typed, Effect
  PROVE  Quiet \/ \E i \in Ids : \E r \in Row \cup {NoRow} : Written(i, r)
  <1>1. ASSUME NEW c \in Clients, Put(c)
        PROVE  \E i \in Ids : \E r \in Row \cup {NoRow} : Written(i, r)
    BY <1>1, PutWritten DEF Written
  <1>2. ASSUME NEW c \in Clients, body[c] \in Patch, Rewritten(at[c], body[c], seen[c])
        PROVE  \E i \in Ids : \E r \in Row \cup {NoRow} : Written(i, r)
    BY <1>2, RewrittenWritten DEF Written, Typed, RequestsOK
  <1>3. ASSUME NEW c \in Clients, NEW i \in Ids, Taken(c, i)
        PROVE  \E k \in Ids : \E r \in Row \cup {NoRow} : Written(k, r)
    BY <1>3, TakenWritten DEF Written
  <1>4. ASSUME NEW i \in Ids, Removed(i)
        PROVE  \E k \in Ids : \E r \in Row \cup {NoRow} : Written(k, r)
    BY <1>4, RemovedWritten DEF Written
  <1>5. QED
    BY <1>1, <1>2, <1>3, <1>4 DEF Effect

LEMMA UniqueInv ==
  ASSUME Typed, ExternalIdUnique, Effect
  PROVE  ExternalIdUnique'
  <1>1. CASE Quiet
    BY <1>1 DEF Quiet, ExternalIdUnique, Bearers, Live
  <1>2. ASSUME NEW i \in Ids, NEW r \in Row \cup {NoRow}, Written(i, r)
        PROVE  ExternalIdUnique'
    BY <1>2, UniqueWritten DEF Typed
  <1>3. QED
    BY <1>1, <1>2, EffectWrites

LEMMA ReservedInv ==
  ASSUME Typed, ExternalIdUnique, Effect, NEW x \in ExtIds, NEW a, Reserved(x, a)
  PROVE  \A j \in Bearers(x)' : mapping'[x] = j \/ j = a
  <1>1. CASE Quiet
    BY <1>1 DEF Quiet, Reserved, Bearers, Live
  <1>2. ASSUME NEW i \in Ids, NEW r \in Row \cup {NoRow}, Written(i, r)
        PROVE  \A j \in Bearers(x)' : mapping'[x] = j \/ j = a
    BY <1>2, ReservedWritten DEF Typed
  <1>3. QED
    BY <1>1, <1>2, EffectWrites

LEMMA InStepInv ==
  ASSUME Typed, ExternalIdUnique, Effect, NEW x \in ExtIds, InStep(x)
  PROVE  InStep(x)'
  <1>1. CASE Quiet
    BY <1>1 DEF Quiet, InStep, Bearers, Live
  <1>2. ASSUME NEW i \in Ids, NEW r \in Row \cup {NoRow}, Written(i, r)
        PROVE  InStep(x)'
    BY <1>2, InStepWritten DEF Typed
  <1>3. QED
    BY <1>1, <1>2, EffectWrites
(* The steps that only move a request along.                               *)
Moves ==
  \E c \in Clients :
    \/ \E p \in Payloads : CreateCheck(c, p)
    \/ CreateId(c)
    \/ \E i \in Ids : \E p \in Patches : UpdateGet(c, i, p)
    \/ UpdateCheck(c)
    \/ ClaimList(c)

(* Every other step answers one request, or leaves them all where they are *)
(* but for the candidates of a claim.                                      *)
LEMMA OtherSteps ==
  ASSUME [Next]_vars, ~ Moves
  PROVE  /\ counter' = counter
         /\ \/ \E c \in Clients : Answer(c)
            \/ /\ UNCHANGED <<pc, at, body, seen>>
               /\ cand' = cand \/ \E c \in Clients : \E i \in Ids :
                                     cand' = [cand EXCEPT ![c] = @ \ {i}]
  <1>1. ASSUME NEW c \in Clients,
               CreatePut(c) \/ UpdateTxn(c) \/ UpdatePlain(c) \/ Drop(c)
        PROVE  counter' = counter /\ Answer(c)
    BY <1>1 DEF CreatePut, UpdateTxn, UpdatePlain, Drop
  <1>2. ASSUME NEW c \in Clients, NEW i \in Ids, Delete(c, i)
        PROVE  UNCHANGED <<counter, pc, at, body, seen, cand>>
    BY <1>2 DEF Delete, request
  <1>3. ASSUME NEW c \in Clients, NEW i \in Ids, ClaimTry(c, i)
        PROVE  /\ counter' = counter
               /\ \/ Answer(c)
                  \/ UNCHANGED <<pc, at, body, seen>> /\ cand' = [cand EXCEPT ![c] = @ \ {i}]
    BY <1>3 DEF ClaimTry
  <1>4. CASE UNCHANGED vars
    BY <1>4 DEF vars, request
  <1>5. QED
    BY <1>1, <1>2, <1>3, <1>4 DEF Next, Moves

LEMMA MovesRequests ==
  ASSUME Typed, Moves
  PROVE  RequestsOK' /\ counter' \in 0..MaxIds
  <1>1. ASSUME NEW c \in Clients, NEW p \in Payloads, CreateCheck(c, p)
        PROVE  RequestsOK' /\ counter' \in 0..MaxIds
    <2>1. p \in Payload
      BY ConstantsAssumption
    <2>2. QED
      BY <1>1, <2>1 DEF CreateCheck, Typed, RequestsOK, TablesOK
  <1>2. ASSUME NEW c \in Clients, CreateId(c)
        PROVE  RequestsOK' /\ counter' \in 0..MaxIds
    <2>1. counter + 1 \in Ids /\ counter + 1 \in 0..MaxIds
      BY <1>2, ConstantsAssumption DEF CreateId, Typed, TablesOK, Ids
    <2>2. QED
      BY <1>2, <2>1 DEF CreateId, Typed, RequestsOK
  <1>3. ASSUME NEW c \in Clients, NEW i \in Ids, NEW p \in Patches, UpdateGet(c, i, p)
        PROVE  RequestsOK' /\ counter' \in 0..MaxIds
    <2>1. p \in Patch
      BY ConstantsAssumption
    <2>2. docs[i].completed \in BOOLEAN
      BY <1>3, LiveRows DEF UpdateGet, Typed, Row
    <2>3. pc'[c] \in {"update_plain", "update_txn", "update_check"}
          /\ (pc'[c] = "update_plain" <=> p.ext = Unset)
      BY <1>3, NoExtIsFree DEF UpdateGet, Typed, RequestsOK
    <2>4. QED
      BY <1>3, <2>1, <2>2, <2>3 DEF UpdateGet, Typed, RequestsOK, TablesOK
  <1>4. ASSUME NEW c \in Clients, UpdateCheck(c)
        PROVE  RequestsOK' /\ counter' \in 0..MaxIds
    <2>1. CASE Answer(c)
      BY <1>4, <2>1, AnswerType DEF UpdateCheck, Typed, TablesOK
    <2>2. CASE ~ Answer(c)
      BY <1>4, <2>2 DEF UpdateCheck, Typed, RequestsOK, TablesOK
    <2>3. QED
      BY <2>1, <2>2
  <1>5. ASSUME NEW c \in Clients, ClaimList(c)
        PROVE  RequestsOK' /\ counter' \in 0..MaxIds
    BY <1>5 DEF ClaimList, Typed, RequestsOK, TablesOK
  <1>6. QED
    BY <1>1, <1>2, <1>3, <1>4, <1>5 DEF Moves

LEMMA SameRequestsType ==
  ASSUME RequestsOK, pc' = pc, at' = at, body' = body, seen' = seen,
         cand' \in [Clients -> SUBSET Ids]
  PROVE  RequestsOK'
  BY DEF RequestsOK

LEMMA RequestsInv ==
  ASSUME Typed, [Next]_vars
  PROVE  RequestsOK' /\ counter' \in 0..MaxIds
  <1>1. CASE ~ Moves
    <2>1. counter' \in 0..MaxIds
      BY <1>1, OtherSteps DEF Typed, TablesOK
    <2>2. ASSUME NEW c \in Clients, Answer(c)
          PROVE  RequestsOK'
      BY <2>2, AnswerType DEF Typed
    <2>3. CASE /\ UNCHANGED <<pc, at, body, seen>>
               /\ cand' = cand \/ \E c \in Clients : \E i \in Ids :
                                     cand' = [cand EXCEPT ![c] = @ \ {i}]
      <3>1. cand' \in [Clients -> SUBSET Ids]
        BY <2>3 DEF Typed, RequestsOK
      <3>2. UNCHANGED <<pc, at, body, seen>>
        BY <2>3
      <3>3. RequestsOK /\ pc' = pc /\ at' = at /\ body' = body /\ seen' = seen
        BY <3>2 DEF Typed
      <3>4. QED
        BY <2>1, <3>1, <3>3, SameRequestsType
    <2>4. QED
      BY <1>1, <2>1, <2>2, <2>3, OtherSteps
  <1>2. QED
    BY <1>1, MovesRequests

LEMMA MovesQuiet ==
  ASSUME Moves
  PROVE  UNCHANGED <<docs, mapping, claimed, gone>>
  BY DEF Moves, CreateCheck, CreateId, UpdateGet, UpdateCheck, ClaimList

(* How a request comes to have looked its external id up.                  *)
LEMMA LookedUpInv ==
  ASSUME Typed, ExternalIdUnique, LookedUp, Effect, [Next]_vars
  PROVE  LookedUp'
  <1> DEFINE After(x, a) == \A j \in Bearers(x)' : mapping'[x] = j \/ j = a
  <1> SUFFICES ASSUME NEW c \in Clients, NEW x \in ExtIds, body'[c].ext = x
               PROVE  /\ pc'[c] \in {"create_id", "create_put"} => After(x, NoId)
                      /\ pc'[c] = "update_txn" => After(x, at'[c])
    BY DEF LookedUp, Reserved
  <1>1. CASE pc'[c] = pc[c] /\ at'[c] = at[c] /\ body'[c] = body[c]
    BY <1>1, ReservedInv DEF LookedUp
  <1>2. CASE pc'[c] = "idle"
    BY <1>2
  <1>3. CASE ~ Moves
    <2>1. ASSUME NEW d \in Clients, Answer(d)
          PROVE  \/ pc'[c] = pc[c] /\ at'[c] = at[c] /\ body'[c] = body[c]
                 \/ pc'[c] = "idle"
      BY <2>1 DEF Answer, Typed, RequestsOK
    <2>2. QED
      BY <1>1, <1>2, <1>3, <2>1, OtherSteps
  <1>4. CASE Moves
    <2>0. /\ \A e : Bearers(e)' = Bearers(e)
          /\ mapping' = mapping
      BY <1>4, MovesQuiet DEF Bearers, Live
    <2>1. ASSUME NEW d \in Clients, d # c,
                 \/ \E p \in Payloads : CreateCheck(d, p)
                 \/ CreateId(d)
                 \/ \E i \in Ids : \E p \in Patches : UpdateGet(d, i, p)
                 \/ UpdateCheck(d)
                 \/ ClaimList(d)
          PROVE  pc'[c] = pc[c] /\ at'[c] = at[c] /\ body'[c] = body[c]
      BY <2>1 DEF CreateCheck, CreateId, UpdateGet, UpdateCheck, ClaimList, Answer, Typed,
                  RequestsOK
    <2>2. ASSUME NEW p \in Payloads, CreateCheck(c, p)
          PROVE  Bearers(x) = {} /\ pc'[c] = "create_id"
      BY <2>2, NoExtIsFree DEF CreateCheck, Typed, RequestsOK
    <2>3. CASE CreateId(c)
      <3>1. pc[c] = "create_id" /\ body'[c] = body[c] /\ pc'[c] = "create_put"
        BY <2>3 DEF CreateId, Typed, RequestsOK
      <3>2. Reserved(x, NoId)
        BY <3>1 DEF LookedUp
      <3>3. QED
        BY <2>0, <3>1, <3>2 DEF Reserved
    <2>4. ASSUME NEW i \in Ids, NEW p \in Patches, UpdateGet(c, i, p)
          PROVE  pc'[c] \in {"update_plain", "update_check"}
      BY <2>4, NoExtIsFree DEF UpdateGet, Typed, RequestsOK
    <2>5. CASE UpdateCheck(c)
      <3>1. \/ pc'[c] = "idle"
            \/ /\ pc'[c] = "update_txn" /\ at'[c] = at[c] /\ body'[c] = body[c]
               /\ Bearers(body[c].ext) \subseteq {at[c]}
        BY <2>5 DEF UpdateCheck, Answer, Typed, RequestsOK
      <3>2. QED
        BY <2>0, <3>1
    <2>6. CASE ClaimList(c)
      BY <2>6 DEF ClaimList, Typed, RequestsOK
    <2>7. QED
      BY <1>1, <1>4, <2>0, <2>1, <2>2, <2>3, <2>4, <2>5, <2>6 DEF Moves
  <1>5. QED
    BY <1>3, <1>4

-----------------------------------------------------------------------------
(* Small facts about the counter.                                          *)
LEMMA CountedKept ==
  ASSUME NEW n \in Nat
  PROVE  /\ 1..n \subseteq 1..(n + 1)
         /\ n + 1 \in 1..(n + 1) /\ n + 1 \notin 1..n
  OBVIOUS

LEMMA TablesInv ==
  ASSUME Typed, Effect, counter' \in 0..MaxIds
  PROVE  TablesOK'
  <1>1. /\ docs' \in [Ids -> Row \cup {NoRow}]
        /\ mapping' \in [ExtIds -> Ids \cup {NoId}]
    <2>1. CASE Quiet
      BY <2>1 DEF Quiet, Typed, TablesOK
    <2>2. ASSUME NEW i \in Ids, NEW r \in Row \cup {NoRow}, Written(i, r)
          PROVE  /\ docs' \in [Ids -> Row \cup {NoRow}]
                 /\ mapping' \in [ExtIds -> Ids \cup {NoId}]
      BY <2>2, WrittenDocs DEF Typed
    <2>3. QED
      BY <2>1, <2>2, EffectWrites
  <1>2. claimed' \subseteq Clients \X Ids /\ gone' \subseteq Ids
    BY DEF Effect, Quiet, Put, Rewritten, KeptClaims, Taken, Removed, Typed, TablesOK
  <1>3. QED
    BY <1>1, <1>2 DEF TablesOK

(* Which tasks are live and gone after an effect.                          *)
LEMMA LiveAfter ==
  ASSUME Typed, Effect
  PROVE  \/ Live' = Live /\ gone' = gone
         \/ \E c \in Clients : /\ Put(c)
                               /\ Live' = Live \cup {at[c]} /\ gone' = gone
         \/ \E i \in Live : Live' = Live \ {i} /\ gone' = gone \cup {i}
  <1>1. CASE Quiet
    BY <1>1 DEF Quiet, Live
  <1>2. ASSUME NEW c \in Clients, Put(c)
        PROVE  /\ Put(c)
               /\ Live' = Live \cup {at[c]} /\ gone' = gone
    <2>1. NewRow(body[c]) # NoRow
      BY <1>2, NewRowType, NoRowIsNoRow DEF Put, Typed, RequestsOK
    <2>2. QED
      BY <1>2, <2>1, PutWritten, WrittenDocs DEF Put, Typed
  <1>3. ASSUME NEW c \in Clients, body[c] \in Patch, Rewritten(at[c], body[c], seen[c])
        PROVE  Live' = Live /\ gone' = gone
    <2>1. Merged(docs[at[c]], body[c], seen[c]) # NoRow /\ seen[c] \in BOOLEAN
      BY <1>3, LiveRows, MergedType, NoRowIsNoRow DEF Rewritten, Typed, RequestsOK
    <2>2. Written(at[c], Merged(docs[at[c]], body[c], seen[c]))
      BY <1>3, <2>1, RewrittenWritten
    <2>3. Live' = Live \cup {at[c]} /\ gone' = gone /\ at[c] \in Live
      BY <1>3, <2>1, <2>2, WrittenDocs DEF Rewritten, Typed
    <2>4. QED
      BY <2>3
  <1>4. ASSUME NEW c \in Clients, NEW i \in Ids, Taken(c, i)
        PROVE  Live' = Live /\ gone' = gone
    <2>1. Started(docs[i]) # NoRow
      BY <1>4, LiveRows, StartedType, NoRowIsNoRow DEF Taken, Wins, Typed
    <2>2. Written(i, Started(docs[i]))
      BY <1>4, TakenWritten
    <2>3. Live' = Live \cup {i} /\ gone' = gone /\ i \in Live
      BY <1>4, <2>1, <2>2, WrittenDocs DEF Taken, Wins, Typed
    <2>4. QED
      BY <2>3
  <1>5. ASSUME NEW i \in Ids, Removed(i)
        PROVE  i \in Live /\ Live' = Live \ {i} /\ gone' = gone \cup {i}
    BY <1>5, RemovedWritten, WrittenDocs DEF Removed, Typed
  <1>6. QED
    BY <1>1, <1>2, <1>3, <1>4, <1>5 DEF Effect

(* No creation under way is for an id that was already used.               *)
LEMMA IdsInv ==
  ASSUME Typed, IdsOK, Effect, [Next]_vars
  PROVE  IdsOK'
  <1>0. counter \in Nat
    BY DEF Typed, TablesOK
  <1>1. CASE Moves
    <2>1. Live' = Live /\ gone' = gone
      BY <1>1, MovesQuiet DEF Live
    <2>2. ASSUME NEW c \in Clients, CreateId(c)
          PROVE  IdsOK'
      <3>1. /\ counter' = counter + 1 /\ at'[c] = counter + 1
            /\ \A d \in Clients \ {c} : pc'[d] = pc[d] /\ at'[d] = at[d]
        BY <2>2 DEF CreateId, Typed, RequestsOK
      <3>2. 1..counter \subseteq 1..counter' /\ at'[c] \in 1..counter' /\ at'[c] \notin 1..counter
        BY <1>0, <3>1, CountedKept
      <3>3. QED
        BY <2>1, <3>1, <3>2 DEF IdsOK
    <2>3. ASSUME NEW c \in Clients,
                 \/ \E p \in Payloads : CreateCheck(c, p)
                 \/ \E i \in Ids : \E p \in Patches : UpdateGet(c, i, p)
                 \/ UpdateCheck(c)
                 \/ ClaimList(c)
          PROVE  IdsOK'
      <3>1. /\ counter' = counter /\ pc'[c] # "create_put"
            /\ \A d \in Clients \ {c} : pc'[d] = pc[d] /\ at'[d] = at[d]
        BY <2>3 DEF CreateCheck, UpdateGet, UpdateCheck, ClaimList, Answer, Typed, RequestsOK
      <3>2. QED
        BY <2>1, <3>1 DEF IdsOK
    <2>4. QED
      BY <1>1, <2>2, <2>3 DEF Moves
  <1>2. CASE ~ Moves
    <2>1. counter' = counter
      BY <1>2, OtherSteps
    <2>2. \A d \in Clients : pc'[d] = "create_put" => pc[d] = "create_put" /\ at'[d] = at[d]
      <3>1. ASSUME NEW c \in Clients, Answer(c), NEW d \in Clients, pc'[d] = "create_put"
            PROVE  pc[d] = "create_put" /\ at'[d] = at[d]
        BY <3>1 DEF Answer, Typed, RequestsOK
      <3>2. QED
        BY <1>2, <3>1, OtherSteps
    <2>3. CASE Live' = Live /\ gone' = gone
      BY <2>1, <2>2, <2>3 DEF IdsOK
    <2>4. ASSUME NEW i \in Live, Live' = Live \ {i}, gone' = gone \cup {i}
          PROVE  IdsOK'
      BY <2>1, <2>2, <2>4 DEF IdsOK
    <2>5. ASSUME NEW c \in Clients, Put(c), Live' = Live \cup {at[c]}, gone' = gone
          PROVE  IdsOK'
      BY <2>1, <2>2, <2>5 DEF IdsOK, Put
    <2>6. QED
      BY <2>3, <2>4, <2>5, LiveAfter
  <1>3. QED
    BY <1>1, <1>2

(* What an effect does to a row that stays: a status other than backlog    *)
(* goes back to backlog only with the claims on the task dropped.          *)
LEMMA CompletedInv ==
  ASSUME Typed, IdsOK, CompletedOnlyWhenDone, ClaimsOK, Effect
  PROVE  CompletedOnlyWhenDone' /\ ClaimsOK'
  <1> DEFINE Goal == CompletedOnlyWhenDone' /\ ClaimsOK'
  <1>0. \A q \in claimed : q \in Clients \X Ids /\ q[2] \in Live
    BY DEF Typed, TablesOK, ClaimsOK
  <1>1. CASE Quiet
    BY <1>1 DEF Quiet, CompletedOnlyWhenDone, ClaimsOK, Live
  <1>2. ASSUME NEW c \in Clients, Put(c)
        PROVE  Goal
    <2> DEFINE r == NewRow(body[c])
    <2>1. r \in Row /\ r # NoRow /\ ~ r.completed /\ at[c] \in Ids /\ at[c] \notin Live
      BY <1>2, NewRowType, NoRowIsNoRow DEF Put, Typed, RequestsOK, IdsOK
    <2>2. /\ docs'[at[c]] = r /\ Live' = Live \cup {at[c]}
          /\ \A j \in Ids \ {at[c]} : docs'[j] = docs[j]
      BY <1>2, <2>1, PutWritten, WrittenDocs DEF Typed
    <2>3. claimed' = claimed
      BY <1>2 DEF Put
    <2>4. \A j \in Live : j \in Ids \ {at[c]}
      BY <2>1 DEF Live
    <2>5. CompletedOnlyWhenDone'
      BY <2>1, <2>2, <2>4 DEF CompletedOnlyWhenDone
    <2>6. ClaimsOK'
      BY <1>0, <2>2, <2>3, <2>4 DEF ClaimsOK
    <2>7. QED
      BY <2>5, <2>6
  <1>3. ASSUME NEW c \in Clients, body[c] \in Patch, Rewritten(at[c], body[c], seen[c])
        PROVE  Goal
    <2> DEFINE i == at[c]
               p == body[c]
               r == Merged(docs[i], p, seen[c])
    <2>1. i \in Live /\ i \in Ids /\ docs[i] \in Row /\ seen[c] \in BOOLEAN
      BY <1>3, LiveRows DEF Rewritten, Typed, RequestsOK
    <2>2. r \in Row /\ r # NoRow /\ r.status = Field(p.status, docs[i].status)
      BY <1>3, <2>1, MergedType, NoRowIsNoRow
    <2>3. r.completed => r.status = "done"
      BY <1>3, <2>1, MergedCompleted DEF CompletedOnlyWhenDone
    <2>4. Written(i, r)
      BY <1>3, <2>1, RewrittenWritten
    <2>5. /\ docs'[i] = r /\ Live' = Live
          /\ \A j \in Ids \ {i} : docs'[j] = docs[j]
      BY <2>1, <2>2, <2>4, WrittenDocs DEF Typed
    <2>6. CompletedOnlyWhenDone'
      BY <2>3, <2>5 DEF CompletedOnlyWhenDone, Live
    <2>7. claimed' = KeptClaims(i, p)
      BY <1>3 DEF Rewritten
    <2>8. \A q \in claimed' : q \in claimed /\ (p.status = "backlog" => q[2] # i)
      BY <2>7 DEF KeptClaims
    <2>9. \A q \in claimed' : docs'[q[2]].status # "backlog"
      <3>1. SUFFICES ASSUME NEW q \in claimed'
                     PROVE  docs'[q[2]].status # "backlog"
        OBVIOUS
      <3>2. q \in claimed /\ q[2] \in Ids /\ docs[q[2]].status # "backlog"
        BY <1>0, <2>8 DEF ClaimsOK, Live
      <3>3. CASE q[2] # i
        BY <2>5, <3>2, <3>3
      <3>4. CASE q[2] = i
        BY <2>2, <2>5, <2>8, <3>2, <3>4 DEF Field
      <3>5. QED
        BY <3>3, <3>4
    <2>10. ClaimsOK'
      BY <1>0, <2>5, <2>8, <2>9 DEF ClaimsOK
    <2>11. QED
      BY <2>6, <2>10
  <1>4. ASSUME NEW c \in Clients, NEW i \in Ids, Taken(c, i)
        PROVE  Goal
    <2> DEFINE r == Started(docs[i])
    <2>1. i \in Live /\ docs[i].status = "backlog" /\ docs[i] \in Row
      BY <1>4, LiveRows DEF Taken, Wins, Typed
    <2>2. /\ r \in Row /\ r # NoRow /\ r.completed = docs[i].completed
          /\ r.status = "in_progress"
      BY <2>1, StartedType, NoRowIsNoRow
    <2>3. Written(i, r)
      BY <1>4, TakenWritten
    <2>4. /\ docs'[i] = r /\ Live' = Live
          /\ \A j \in Ids \ {i} : docs'[j] = docs[j]
      BY <2>1, <2>2, <2>3, WrittenDocs DEF Typed
    <2>5. CompletedOnlyWhenDone'
      BY <2>1, <2>2, <2>4 DEF CompletedOnlyWhenDone, Live
    <2>6. claimed' = claimed \cup {<<c, i>>} /\ \A q \in claimed : q[2] # i
      BY <1>4, <2>1 DEF Taken, ClaimsOK
    <2>7. ClaimsOK'
      BY <1>0, <2>1, <2>2, <2>4, <2>6 DEF ClaimsOK, Live
    <2>8. QED
      BY <2>5, <2>7
  <1>5. ASSUME NEW i \in Ids, Removed(i)
        PROVE  Goal
    <2>1. /\ Live' = Live \ {i} /\ \A j \in Ids \ {i} : docs'[j] = docs[j]
      BY <1>5, RemovedWritten, WrittenDocs DEF Typed
    <2>2. claimed' = {q \in claimed : q[2] # i}
      BY <1>5 DEF Removed
    <2>3. CompletedOnlyWhenDone'
      BY <2>1 DEF CompletedOnlyWhenDone, Live
    <2>4. ClaimsOK'
      BY <1>0, <2>1, <2>2 DEF ClaimsOK, Live
    <2>5. QED
      BY <2>3, <2>4
  <1>6. QED
    BY <1>1, <1>2, <1>3, <1>4, <1>5 DEF Effect

-----------------------------------------------------------------------------
LEMMA Inductive == IInv /\ [Next]_vars => IInv'
  <1> SUFFICES ASSUME IInv, [Next]_vars
               PROVE  IInv'
    OBVIOUS
  <1>1. Typed /\ IdsOK /\ ExternalIdUnique /\ LookedUp /\ CompletedOnlyWhenDone /\ ClaimsOK
    BY DEF IInv
  <1>2. Effect
    BY <1>1, Effects
  <1>3. RequestsOK' /\ counter' \in 0..MaxIds
    BY <1>1, RequestsInv
  <1>4. Typed'
    BY <1>1, <1>2, <1>3, TablesInv DEF Typed
  <1>5. IdsOK' /\ ExternalIdUnique' /\ LookedUp'
    BY <1>1, <1>2, IdsInv, UniqueInv, LookedUpInv
  <1>6. CompletedOnlyWhenDone' /\ ClaimsOK'
    BY <1>1, <1>2, CompletedInv
  <1>7. QED
    BY <1>4, <1>5, <1>6 DEF IInv

LEMMA Initially == Init => IInv
  <1> SUFFICES ASSUME Init
               PROVE  IInv
    OBVIOUS
  <1>1. 0..MaxLegacy \subseteq 0..MaxIds /\ 0..counter \subseteq Ids \cup {NoId}
        /\ 1..counter \subseteq Ids
    BY ConstantsAssumption DEF Init, Ids, NoId
  <1>2. LegacyRows \subseteq Row /\ \A r \in LegacyRows : r.completed => r.status = "done"
    BY ConstantsAssumption
  <1>3. TablesOK
    BY <1>1, <1>2 DEF Init, TablesOK
  <1>4. RequestsOK
    BY NoBodyType DEF Init, RequestsOK
  <1>5. IdsOK /\ LookedUp /\ ClaimsOK
    BY DEF Init, IdsOK, LookedUp, ClaimsOK
  <1>6. ExternalIdUnique
    BY DEF Init, ExternalIdUnique
  <1>7. CompletedOnlyWhenDone
    BY <1>2 DEF Init, CompletedOnlyWhenDone, Live
  <1>8. QED
    BY <1>3, <1>4, <1>5, <1>6, <1>7 DEF IInv, Typed

LEMMA Invariance == Spec => []IInv
  BY Initially, Inductive, PTL DEF Spec

(* Every reachable state of the database and of the requests is well typed. *)
THEOREM TypeCorrect == Spec => []TypeOK
  <1>1. IInv => TypeOK
    BY DEF IInv, Typed, TablesOK, RequestsOK, TypeOK
  <1>2. QED
    BY <1>1, Invariance, PTL

(* External ids are unique, from any old database in which they were.      *)
THEOREM ExternalIdsAreUnique == Spec => []ExternalIdUnique
  <1>1. IInv => ExternalIdUnique
    BY DEF IInv
  <1>2. QED
    BY <1>1, Invariance, PTL

(* No request under way brings a deleted task back, and no id is reused.   *)
THEOREM DeletedTasksStayDeleted == Spec => []DeletedStaysDeleted
  <1>1. IInv => DeletedStaysDeleted
    <2> SUFFICES ASSUME IInv, NEW i \in gone
                 PROVE  docs[i] = NoRow /\ i <= counter
      BY DEF DeletedStaysDeleted
    <2>1. i \in Ids /\ i \notin Live /\ i \in 1..counter /\ counter \in Nat
      BY DEF IInv, Typed, TablesOK, IdsOK
    <2>2. QED
      BY <2>1 DEF Live
  <1>2. QED
    BY <1>1, Invariance, PTL

(* Only done tasks have a completed_at, whatever PATCHes overlap.          *)
THEOREM CompletedIsDone == Spec => []CompletedOnlyWhenDone
  <1>1. IInv => CompletedOnlyWhenDone
    BY DEF IInv
  <1>2. QED
    BY <1>1, Invariance, PTL

(* A reservation that agrees with its task goes on to agree with it.       *)
THEOREM ReservationsStayInStep == Spec => ReservationStaysInStep
  <1>1. IInv /\ [Next]_vars => [\A e \in ExtIds : InStep(e) => InStep(e)']_vars
    <2> SUFFICES ASSUME IInv, [Next]_vars, NEW e \in ExtIds, InStep(e)
                 PROVE  InStep(e)'
      OBVIOUS
    <2>1. Effect
      BY Effects DEF IInv
    <2>2. QED
      BY <2>1, InStepInv DEF IInv
  <1>2. QED
    BY <1>1, Invariance, PTL DEF Spec, ReservationStaysInStep

-----------------------------------------------------------------------------
(* Refinement: each effect is a step of the queue, or none.                *)
LEMMA SamePlace ==
  ASSUME NEW t \in Ids, docs'[t] = docs[t], t \in gone' <=> t \in gone, Holders(t)' = Holders(t)
  PROVE  Place(t)' = Place(t)
  BY DEF Place, Live

LEMMA OneMove ==
  ASSUME NEW u \in Ids, \A t \in Ids \ {u} : Place(t)' = Place(t)
  PROVE  Slot[u] = Place(u) /\ Slot' = [Slot EXCEPT ![u] = Place(u)']
  BY DEF Slot

LEMMA NoMove ==
  ASSUME \A t \in Ids : Place(t)' = Place(t)
  PROVE  Slot' = Slot
  BY DEF Slot

QueueMoves == Queue!Next \/ UNCHANGED Slot

(* The place of a live task.                                               *)
LivePlace(i) == IF docs[i].status = "backlog" THEN "queued"
                ELSE IF Holders(i) = {} THEN "aside"
                ELSE CHOOSE c \in Holders(i) : TRUE

LEMMA PlaceOfLive ==
  ASSUME IInv, NEW i \in Live
  PROVE  /\ Place(i) = LivePlace(i)
         /\ docs[i].status = "backlog" => Holders(i) = {}
         /\ Place(i) \in {"queued", "aside"} \cup Clients
         /\ docs[i].status # "backlog" => Place(i) \in {"aside"} \cup Clients
  <1>1. i \notin gone
    BY DEF IInv, IdsOK
  <1>2. Place(i) = LivePlace(i)
    BY <1>1 DEF Place, LivePlace
  <1>3. docs[i].status = "backlog" => Holders(i) = {}
    BY DEF Holders, IInv, ClaimsOK
  <1>4. Holders(i) # {} => (CHOOSE c \in Holders(i) : TRUE) \in Clients
    BY DEF Holders
  <1>5. QED
    BY <1>2, <1>3, <1>4 DEF LivePlace

LEMMA PutMoves ==
  ASSUME IInv, IInv', NEW c \in Clients, Put(c)
  PROVE  QueueMoves
  <1>0. PICK i \in Ids : i = at[c]
    BY DEF Put, IInv, Typed, RequestsOK
  <1> DEFINE r == NewRow(body[c])
  <1>1. r \in Row /\ r # NoRow /\ i \in Ids /\ i \notin Live \cup gone
    BY <1>0, NewRowType, NoRowIsNoRow DEF Put, IInv, Typed, RequestsOK, IdsOK
  <1>2. /\ docs'[i] = r /\ Live' = Live \cup {i}
        /\ \A j \in Ids \ {i} : docs'[j] = docs[j]
    BY <1>0, <1>1, PutWritten, WrittenDocs DEF IInv, Typed
  <1>3. claimed' = claimed /\ gone' = gone
    BY DEF Put
  <1>4. Holders(i)' = {}
    BY <1>1, <1>3 DEF Holders, IInv, ClaimsOK
  <1>5. Place(i) = "unborn"
    BY <1>1 DEF Place
  <1>6. Place(i)' \in {"queued", "aside"}
    BY <1>1, <1>2, <1>3, <1>4 DEF Place
  <1>7. \A t \in Ids \ {i} : Place(t)' = Place(t)
    BY <1>2, <1>3, SamePlace DEF Holders
  <1>8. Queue!Arrive(i)
    BY <1>1, <1>5, <1>6, <1>7, OneMove DEF Queue!Arrive, Queue!Move
  <1>9. QED
    BY <1>1, <1>8 DEF QueueMoves, Queue!Next

LEMMA RewrittenMoves ==
  ASSUME IInv, IInv', NEW c \in Clients, body[c] \in Patch, Rewritten(at[c], body[c], seen[c])
  PROVE  QueueMoves
  <1>0. PICK i : i = at[c]
    OBVIOUS
  <1> DEFINE p == body[c]
             r == Merged(docs[i], p, seen[c])
  <1>1. i \in Live /\ i \in Ids /\ docs[i] \in Row /\ seen[c] \in BOOLEAN
    BY <1>0, LiveRows DEF Rewritten, IInv, Typed, RequestsOK
  <1>2. r \in Row /\ r # NoRow /\ r.status = Field(p.status, docs[i].status)
    BY <1>1, MergedType, NoRowIsNoRow
  <1>3. Written(i, r)
    BY <1>0, <1>1, RewrittenWritten DEF IInv
  <1>4. /\ docs'[i] = r /\ i \in Live'
        /\ \A j \in Ids \ {i} : docs'[j] = docs[j]
    BY <1>1, <1>2, <1>3, WrittenDocs DEF IInv, Typed
  <1>5. claimed' = KeptClaims(i, p) /\ gone' = gone
    BY <1>0 DEF Rewritten
  <1>6. \A t \in Ids \ {i} : Holders(t)' = Holders(t)
    BY <1>5 DEF KeptClaims, Holders
  <1>7. \A t \in Ids \ {i} : Place(t)' = Place(t)
    BY <1>4, <1>5, <1>6, SamePlace
  <1>8. Slot[i] = Place(i) /\ Slot' = [Slot EXCEPT ![i] = Place(i)']
    BY <1>1, <1>7, OneMove
  <1>9. Place(i) = LivePlace(i) /\ Place(i)' = LivePlace(i)'
    BY <1>1, <1>4, <1>5, PlaceOfLive DEF Place, LivePlace, IInv, IdsOK
  <1>10. CASE Place(i)' = Place(i)
    BY <1>7, <1>10, NoMove DEF QueueMoves
  <1>11. CASE Place(i)' # Place(i) /\ docs'[i].status = "backlog"
    <2>1. Place(i)' = "queued" /\ Place(i) \in {"aside"} \cup Clients
      BY <1>1, <1>9, <1>11, PlaceOfLive DEF LivePlace
    <2>2. Queue!Requeue(i)
      BY <1>8, <2>1 DEF Queue!Requeue, Queue!Move
    <2>3. QED
      BY <1>1, <2>2 DEF QueueMoves, Queue!Next
  <1>12. CASE Place(i)' # Place(i) /\ docs'[i].status # "backlog"
    <2>1. p.status # "backlog"
      BY <1>2, <1>4, <1>12, NoExtIsFree, ConstantsAssumption DEF Field, Statuses
    <2>2. claimed' = claimed /\ Holders(i)' = Holders(i)
      BY <1>5, <2>1 DEF KeptClaims, Holders
    <2>3. docs[i].status = "backlog"
      BY <1>9, <1>12, <2>2 DEF LivePlace
    <2>4. Place(i) = "queued" /\ Holders(i) = {}
      BY <1>1, <2>3, PlaceOfLive DEF LivePlace
    <2>5. Place(i)' = "aside"
      BY <1>9, <1>12, <2>2, <2>4 DEF LivePlace
    <2>6. Queue!SetAside(i)
      BY <1>8, <2>4, <2>5 DEF Queue!SetAside, Queue!Move
    <2>7. QED
      BY <1>1, <2>6 DEF QueueMoves, Queue!Next
  <1>13. QED
    BY <1>10, <1>11, <1>12

LEMMA TakenMoves ==
  ASSUME IInv, IInv', NEW c \in Clients, NEW i \in Ids, Taken(c, i)
  PROVE  QueueMoves
  <1> DEFINE r == Started(docs[i])
  <1>1. i \in Live /\ docs[i].status = "backlog" /\ docs[i] \in Row
    BY LiveRows DEF Taken, Wins, IInv, Typed
  <1>2. r \in Row /\ r # NoRow /\ r.status = "in_progress"
    BY <1>1, StartedType, NoRowIsNoRow
  <1>3. Written(i, r)
    BY TakenWritten DEF IInv
  <1>4. /\ docs'[i] = r /\ i \in Live'
        /\ \A j \in Ids \ {i} : docs'[j] = docs[j]
    BY <1>1, <1>2, <1>3, WrittenDocs DEF IInv, Typed
  <1>5. claimed' = claimed \cup {<<c, i>>} /\ gone' = gone
    BY DEF Taken
  <1>6. Place(i) = "queued" /\ Holders(i) = {}
    BY <1>1, PlaceOfLive DEF LivePlace
  <1>7. Holders(i)' = {c}
    BY <1>5, <1>6 DEF Holders
  <1>8. Place(i)' = c
    BY <1>2, <1>4, <1>5, <1>7, <1>1 DEF Place, IInv, IdsOK
  <1>9. \A t \in Ids \ {i} : Holders(t)' = Holders(t)
    BY <1>5 DEF Holders
  <1>10. \A t \in Ids \ {i} : Place(t)' = Place(t)
    BY <1>4, <1>5, <1>9, SamePlace
  <1>11. Queue!Take(c, i)
    BY <1>6, <1>8, <1>10, OneMove DEF Queue!Take, Queue!Move
  <1>12. QED
    BY <1>11 DEF QueueMoves, Queue!Next

LEMMA RemovedMoves ==
  ASSUME IInv, IInv', NEW i \in Ids, Removed(i)
  PROVE  QueueMoves
  <1>1. i \in Live /\ \A j \in Ids \ {i} : docs'[j] = docs[j]
    BY RemovedWritten, WrittenDocs DEF Removed, IInv, Typed
  <1>2. claimed' = {q \in claimed : q[2] # i} /\ gone' = gone \cup {i}
    BY DEF Removed
  <1>3. Place(i) \in {"queued", "aside"} \cup Clients
    BY <1>1, PlaceOfLive
  <1>4. Place(i)' = "gone"
    BY <1>2 DEF Place
  <1>5. \A t \in Ids \ {i} : Holders(t)' = Holders(t)
    BY <1>2 DEF Holders
  <1>6. \A t \in Ids \ {i} : Place(t)' = Place(t)
    BY <1>1, <1>2, <1>5, SamePlace
  <1>7. Queue!Retire(i)
    BY <1>3, <1>4, <1>6, OneMove DEF Queue!Retire, Queue!Move
  <1>8. QED
    BY <1>7 DEF QueueMoves, Queue!Next

(* The Firestore store implements the queue of claims, for task ids.       *)
THEOREM StoreImplementsQueue == Spec => ImplementsClaimQueue
  <1>1. Init => Queue!Init
    <2> SUFFICES ASSUME Init
                 PROVE  Queue!Init
      OBVIOUS
    <2>1. \A i \in Ids : Place(i) \in {"unborn", "queued", "aside", "gone"}
      BY DEF Place, Holders, Init
    <2>2. QED
      BY <2>1 DEF Queue!Init, Slot
  <1>2. IInv /\ IInv' /\ [Next]_vars => [Queue!Next]_Slot
    <2> SUFFICES ASSUME IInv, IInv', [Next]_vars
                 PROVE  QueueMoves
      BY DEF QueueMoves
    <2>1. Effect
      BY Effects DEF IInv
    <2>2. CASE Quiet
      BY <2>2, SamePlace, NoMove DEF Quiet, Holders, QueueMoves
    <2>3. QED
      BY <2>1, <2>2, PutMoves, RewrittenMoves, TakenMoves, RemovedMoves DEF Effect
  <1>3. QED
    BY <1>1, <1>2, Invariance, PTL DEF Spec, ImplementsClaimQueue, Queue!Spec


=============================================================================
