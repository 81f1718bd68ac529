---------------------------- MODULE Worker_proofs ----------------------------
(***************************************************************************)
(* Theorems about Worker, for any number of tasks, of calls under way and  *)
(* of updates, and any budget.                                             *)
(***************************************************************************)
EXTENDS Worker, FiniteSetTheorems, TLAPS

-----------------------------------------------------------------------------
(* Sequences.                                                              *)
LEMMA RangeAppend ==
  ASSUME NEW S, NEW q \in Seq(S), NEW e \in S
  PROVE  Append(q, e) \in Seq(S) /\ Range(Append(q, e)) = Range(q) \cup {e}
<1>1. /\ DOMAIN Append(q, e) = DOMAIN q \cup {Len(q) + 1}
      /\ \A i \in DOMAIN q : Append(q, e)[i] = q[i]
      /\ Append(q, e)[Len(q) + 1] = e
  OBVIOUS
<1>2. Range(Append(q, e)) \subseteq Range(q) \cup {e}  BY <1>1 DEF Range
<1>3. Range(q) \cup {e} \subseteq Range(Append(q, e))  BY <1>1 DEF Range
<1> QED  BY <1>2, <1>3

LEMMA RangeType == ASSUME NEW S, NEW q \in Seq(S) PROVE Range(q) \subseteq S
BY DEF Range

LEMMA Singles ==
  ASSUME NEW S, NEW e \in S
  PROVE  <<e>> \in Seq(S) /\ Range(<<e>>) = {e}
BY DEF Range

LEMMA HeadStays ==
  ASSUME NEW S, NEW q \in Seq(S), q # <<>>, NEW e \in S
  PROVE  Head(q) \in S /\ Append(q, e) # <<>> /\ Head(Append(q, e)) = Head(q)
OBVIOUS

-----------------------------------------------------------------------------
(* Types.                                                                  *)
Called == {"session", "other"}

(* While the adapter is with an update, that is the first of the inbox.    *)
InboxOK == tg # "idle" => inbox # <<>>

Typed == TypeOK /\ InboxOK

LEMMA WhoType == ASSUME NEW c \in Slots PROVE Who(c) \in Called /\ MaxOf(Who(c)) \in Nat
BY BoundsAssumption DEF Who, Called, MaxOf

LEMMA CallType ==
  ASSUME TypeOK, NEW c \in Slots, MayCall(c)
  PROVE  /\ NewNote(c) \in Note
         /\ Counted(c) => /\ calls' \in [Called -> Nat]
                          /\ \A w \in Called : calls'[w] <= MaxOf(w)
<1>1. Who(c) \in Called /\ calls[Who(c)] \in Nat /\ calls[Who(c)] < MaxOf(Who(c))
  BY WhoType DEF MayCall, TypeOK, Called
<1>2. NewNote(c) \in Note
  <2>1. CASE Who(c) = "session"  BY <1>1, <2>1, BoundsAssumption DEF NewNote, Note, MaxOf
  <2>2. CASE Who(c) = "other"  BY <1>1, <2>2, BoundsAssumption DEF NewNote, Note, MaxOf
  <2> QED  BY <1>1, <2>1, <2>2 DEF Called
<1>3. ASSUME Counted(c)
      PROVE  calls' \in [Called -> Nat] /\ \A w \in Called : calls'[w] <= MaxOf(w)
  BY <1>1, <1>3, WhoType DEF Counted, TypeOK, Called
<1> QED  BY <1>2, <1>3

LEMMA ReturnType ==
  ASSUME TypeOK, NEW c \in Slots, Return(c)
  PROVE  /\ pc' \in [Slots -> {"idle", "claim", "finish"}] /\ at' \in [Slots -> SUBSET Tasks]
         /\ body' \in [Slots -> Seq(Note)]
         /\ \A d \in Slots : /\ pc'[d] = IF d = c THEN "idle" ELSE pc[d]
                             /\ d # c => at'[d] = at[d] /\ body'[d] = body[d]
BY DEF Return, TypeOK

LEMMA WriteType ==
  ASSUME TypeOK, NEW t \in Tasks, NEW q \in Seq(Note), NEW others \in BOOLEAN,
         WriteNotes(t, q, others)
  PROVE  /\ notes' \in [Tasks -> Seq(Note)] /\ posted' \in [Tasks -> SUBSET Note]
         /\ overlapped' \subseteq Tasks
         /\ \A u \in Tasks : /\ notes'[u] = IF u = t THEN q ELSE notes[u]
                             /\ posted'[u] = IF u = t THEN posted[u] \cup Range(q) ELSE posted[u]
         /\ overlapped' = IF others THEN overlapped \cup {t} ELSE overlapped
<1>1. Range(q) \subseteq Note  BY RangeType
<1> QED  BY <1>1 DEF WriteNotes, TypeOK

LEMMA MovedType ==
  ASSUME TypeOK, NEW c \in Slots, NEW ts \in SUBSET Tasks, NEW s, MovedBy(c, ts, s)
  PROVE  moved' \subseteq Tasks /\ movedElse' \subseteq Tasks
BY DEF MovedBy, TypeOK

LEMMA SettableType == Settable \subseteq Statuses
BY InputsAssumption DEF Statuses, Open, Closed

LEMMA TypeTool == ASSUME Typed, NEW c \in Slots, Tool(c) PROVE Typed'
<1> USE DEF board, session, call, telegram, history, InboxOK, Called
<1>t. TypeOK  BY DEF Typed
<1>1. CASE ClaimSend(c)
  <2>1. pc' \in [Slots -> {"idle", "claim", "finish"}]  BY <1>1, <1>t DEF ClaimSend, TypeOK
  <2> QED  BY <1>1, <1>t, <2>1, CallType DEF ClaimSend, Typed, TypeOK
<1>2. CASE ClaimFails(c)
  BY <1>2, <1>t, ReturnType DEF ClaimFails, Typed, TypeOK
<1>3. CASE FinishFails(c)
  <2>1. calls' \in [Called -> Nat] /\ \A w \in Called : calls'[w] <= MaxOf(w)
    BY <1>3, <1>t, CallType DEF FinishFails, TypeOK
  <2>2. worked' \subseteq Tasks /\ lastClaim' \subseteq Tasks
    BY <1>3, <1>t DEF FinishFails, Credit, TypeOK
  <2>3. unsure' \in BOOLEAN  BY <1>3, <1>t DEF FinishFails, TypeOK
  <2> QED  BY <1>3, <1>t, <2>1, <2>2, <2>3, ReturnType DEF FinishFails, Typed, TypeOK
<1>4. ASSUME NEW t \in Tasks, FinishGet(c, t) PROVE Typed'
  <2>1. WithNote(notes[t], NewNote(c)) \in Seq(Note)
    BY <1>4, <1>t, CallType, RangeAppend DEF FinishGet, WithNote, TypeOK
  <2>2. /\ pc' \in [Slots -> {"idle", "claim", "finish"}] /\ at' \in [Slots -> SUBSET Tasks]
        /\ body' \in [Slots -> Seq(Note)]
    BY <1>4, <1>t, <2>1 DEF FinishGet, TypeOK
  <2> QED  BY <1>4, <1>t, <2>2, CallType DEF FinishGet, Typed, TypeOK
<1>5. ASSUME NEW t \in Tasks, NEW answered \in BOOLEAN, ClaimLand(c, t, answered) PROVE Typed'
  <2>1. status' \in [Tasks -> Statuses \cup {"unborn"}]
    BY <1>5, <1>t DEF ClaimLand, TypeOK, Statuses, Open
  <2>2. handed' \in Nat /\ lastClaim' \subseteq Tasks  BY <1>5, <1>t DEF ClaimLand, TypeOK
  <2> QED  BY <1>5, <1>t, <2>1, <2>2, ReturnType DEF ClaimLand, Typed, TypeOK
<1>6. ASSUME NEW t \in Tasks, NEW answered \in BOOLEAN, FinishLand(c, t, answered) PROVE Typed'
  <2>1. status' \in [Tasks -> Statuses \cup {"unborn"}]
    BY <1>6, <1>t DEF FinishLand, TypeOK, Statuses, Open
  <2>2. body[c] \in Seq(Note) /\ HeldBesides(c, t) \in BOOLEAN
    BY <1>t DEF TypeOK, HeldBesides, AdapterHolds
  <2>3. worked' \subseteq Tasks /\ lastClaim' \subseteq Tasks
    BY <1>6, <1>t DEF FinishLand, Credit, TypeOK
  <2>4. unsure' \in BOOLEAN  BY <1>6, <1>t DEF FinishLand, TypeOK
  <2>5. /\ notes' \in [Tasks -> Seq(Note)] /\ posted' \in [Tasks -> SUBSET Note]
        /\ overlapped' \subseteq Tasks
    BY <1>6, <1>t, <2>2, WriteType DEF FinishLand
  <2>6. moved' \subseteq Tasks /\ movedElse' \subseteq Tasks
    BY <1>6, <1>t, MovedType DEF FinishLand
  <2> QED  BY <1>6, <1>t, <2>1, <2>3, <2>4, <2>5, <2>6, ReturnType DEF FinishLand, Typed, TypeOK
<1>7. ASSUME NEW ts \in SUBSET Tasks, NEW s \in Settable, CreateTasks(c, ts, s) PROVE Typed'
  <2>1. status' \in [Tasks -> Statuses \cup {"unborn"}]
    BY <1>7, <1>t, SettableType DEF CreateTasks, TypeOK
  <2>2. moved' \subseteq Tasks /\ movedElse' \subseteq Tasks
    BY <1>7, <1>t, MovedType DEF CreateTasks
  <2> QED  BY <1>7, <1>t, <2>1, <2>2, CallType DEF CreateTasks, Typed, TypeOK
<1>8. ASSUME NEW t \in Tasks, NEW s \in Settable, NEW rewrite \in BOOLEAN,
             UpdateTask(c, t, s, rewrite)
      PROVE  Typed'
  <2>1. status' \in [Tasks -> Statuses \cup {"unborn"}]
    BY <1>8, <1>t, SettableType DEF UpdateTask, TypeOK
  <2>2. <<NewNote(c)>> \in Seq(Note) /\ HeldBesides(c, t) \in BOOLEAN
    BY <1>8, <1>t, CallType, Singles DEF UpdateTask, HeldBesides, AdapterHolds
  <2>3. /\ notes' \in [Tasks -> Seq(Note)] /\ posted' \in [Tasks -> SUBSET Note]
        /\ overlapped' \subseteq Tasks /\ rewritten' \subseteq Tasks
    <3>1. CASE rewrite
      <4>1. /\ WriteNotes(t, <<NewNote(c)>>, HeldBesides(c, t))
            /\ rewritten' = rewritten \cup {t}
        BY <1>8, <3>1 DEF UpdateTask
      <4>2. /\ notes' \in [Tasks -> Seq(Note)] /\ posted' \in [Tasks -> SUBSET Note]
            /\ overlapped' \subseteq Tasks
        BY <1>t, <2>2, <4>1, WriteType
      <4> QED  BY <1>t, <4>1, <4>2 DEF TypeOK
    <3>2. CASE ~rewrite  BY <1>8, <1>t, <3>2 DEF UpdateTask, TypeOK
    <3> QED  BY <3>1, <3>2
  <2>4. moved' \subseteq Tasks /\ movedElse' \subseteq Tasks
    BY <1>8, <1>t, MovedType DEF UpdateTask
  <2> QED  BY <1>8, <1>t, <2>1, <2>3, <2>4, CallType DEF UpdateTask, Typed, TypeOK
<1> QED
  BY <1>1, <1>2, <1>3, <1>4, <1>5, <1>6, <1>7, <1>8 DEF Tool, CreateTask, IngestContext

LEMMA TypeRun == ASSUME Typed, Run PROVE Typed'
<1> USE DEF board, session, call, telegram, history, InboxOK
<1>1. InReview \subseteq Tasks /\ WorkedBetween \subseteq Tasks  BY DEF InReview, WorkedBetween
<1> QED
  BY <1>1 DEF Run, Start, Skip, ApiEnd, ApiRaise, ClaudeEnd, ClaudeReport, Typed, TypeOK

(* The update the adapter is with.                                         *)
LEMMA Current ==
  ASSUME Typed, inbox # <<>>
  PROVE  /\ Head(inbox) \in Update /\ Head(inbox).task \in Tasks
         /\ Head(inbox).action \in {"done", "rework", "block", "comment"}
         /\ Head(inbox).n \in 1..MaxUpdates /\ <<"human", Head(inbox).n>> \in Note
<1>1. Head(inbox) \in Update  BY DEF Typed, TypeOK
<1> QED  BY <1>1 DEF Update, Note

LEMMA StatusOfType ==
  ASSUME NEW a \in {"done", "rework", "block", "comment"}, NEW old
  PROVE  /\ StatusOf(a, old) \in Statuses \/ StatusOf(a, old) = old
         /\ StatusOf(a, old) = "waiting_review" => old = "waiting_review"
BY DEF StatusOf, CallbackActions, Statuses, Open, Closed

(* What a press or a reply leaves of the statuses.                         *)
Answered ==
  LET u == Head(inbox)
  IN status' = status \/ status' = [status EXCEPT ![u.task] = StatusOf(u.action, @)]

LEMMA AnsweredType ==
  ASSUME Typed, inbox # <<>>, Answered
  PROVE  /\ status' \in [Tasks -> Statuses \cup {"unborn"}]
         /\ \A t \in Tasks : status'[t] = "waiting_review" => status[t] = "waiting_review"
<1> DEFINE u == Head(inbox)
           s == StatusOf(u.action, status[u.task])
<1>1. u.task \in Tasks /\ u.action \in {"done", "rework", "block", "comment"}  BY Current
<1>2. status \in [Tasks -> Statuses \cup {"unborn"}]  BY DEF Typed, TypeOK
<1>3. /\ s \in Statuses \cup {"unborn"}
      /\ s = "waiting_review" => status[u.task] = "waiting_review"
  <2> HIDE DEF u
  <2>1. status[u.task] \in Statuses \cup {"unborn"}  BY <1>1, <1>2
  <2> QED  BY <1>1, <2>1, StatusOfType
<1>4. status' = status \/ status' = [status EXCEPT ![u.task] = s]  BY DEF Answered
<1> HIDE DEF u, s
<1> QED  BY <1>1, <1>2, <1>3, <1>4

LEMMA TypeAdapter == ASSUME Typed, Adapter PROVE Typed'
<1> USE DEF board, session, call, telegram, history, InboxOK
<1>t. TypeOK  BY DEF Typed
<1>1. ASSUME NEW reached \in BOOLEAN, Press(reached) PROVE Typed'
  <2>1. inbox # <<>>  BY <1>1 DEF Press, Handling
  <2>2. status' \in [Tasks -> Statuses \cup {"unborn"}]
    <3>1. Answered  BY <1>1 DEF Press, Answered
    <3> QED  BY <2>1, <3>1, AnsweredType
  <2> QED  BY <1>1, <1>t, <2>1, <2>2 DEF Press, Typed, TypeOK
<1>2. ASSUME NEW reached \in BOOLEAN, ReplyGet(reached) PROVE Typed'
  <2>1. inbox # <<>>  BY <1>2 DEF ReplyGet, Handling
  <2>2. tgBody' \in Seq(Note)
    <3> DEFINE u == Head(inbox)
    <3>1. u.task \in Tasks /\ <<"human", u.n>> \in Note  BY <2>1, Current
    <3>2. reached => tgBody' = Append(notes[u.task], <<"human", u.n>>)
      BY <1>2 DEF ReplyGet, WithNote
    <3>3. ~reached => tgBody' = tgBody  BY <1>2 DEF ReplyGet
    <3> HIDE DEF u
    <3>4. notes[u.task] \in Seq(Note)  BY <1>t, <3>1 DEF TypeOK
    <3>5. Append(notes[u.task], <<"human", u.n>>) \in Seq(Note)  BY <3>1, <3>4, RangeAppend
    <3> QED  BY <1>t, <3>2, <3>3, <3>5 DEF TypeOK
  <2> QED  BY <1>2, <1>t, <2>1, <2>2 DEF ReplyGet, Typed, TypeOK
<1>3. ASSUME NEW reached \in BOOLEAN, ReplyPatch(reached) PROVE Typed'
  <2>1. inbox # <<>>  BY <1>3 DEF ReplyPatch, Typed
  <2>2. status' \in [Tasks -> Statuses \cup {"unborn"}]
    <3>1. Answered  BY <1>3 DEF ReplyPatch, Answered
    <3> QED  BY <2>1, <3>1, AnsweredType
  <2>3. /\ notes' \in [Tasks -> Seq(Note)] /\ posted' \in [Tasks -> SUBSET Note]
        /\ overlapped' \subseteq Tasks
    BY <1>3, <1>t, <2>1, Current, WriteType DEF ReplyPatch, TypeOK
  <2>4. tgBody' \in Seq(Note)  BY <1>3 DEF ReplyPatch
  <2> QED  BY <1>3, <1>t, <2>1, <2>2, <2>3, <2>4 DEF ReplyPatch, Typed, TypeOK
<1>4. CASE WriteOffset
  <2>1. inbox' \in Seq(Update)  BY <1>4, <1>t DEF WriteOffset, Typed, TypeOK
  <2> QED  BY <1>4, <1>t, <2>1 DEF WriteOffset, Typed, TypeOK
<1>5. CASE AdapterDies
  <2>1. tgBody' \in Seq(Note) /\ deaths' \in 0..MaxDeaths
    BY <1>5, <1>t, BoundsAssumption DEF AdapterDies, TypeOK
  <2> QED  BY <1>5, <1>t, <2>1 DEF AdapterDies, Typed, TypeOK
<1> QED  BY <1>1, <1>2, <1>3, <1>4, <1>5 DEF Adapter, Reaches

LEMMA TypeHuman ==
  ASSUME Typed, NEW act \in Acts, NEW t \in Tasks, HumanSends(act[1], t, act[2])
  PROVE  /\ Typed'
         /\ \E u \in Update : inbox' = Append(inbox, u)
<1> USE DEF board, session, call, telegram, history, InboxOK
<1> DEFINE u == [kind |-> act[1], task |-> t, n |-> sent + 1, action |-> act[2]]
<1>1. /\ act[1] \in {"press", "reply"} /\ act[2] \in {"done", "rework", "block", "comment"}
      /\ sent + 1 \in 1..MaxUpdates
  BY InputsAssumption, BoundsAssumption DEF HumanSends, Typed, TypeOK
<1>2. u \in Update  BY <1>1 DEF Update
<1>3. inbox' = Append(inbox, u) /\ sent' = sent + 1  BY DEF HumanSends
<1>4. inbox' \in Seq(Update) /\ inbox' # <<>>
  <2> HIDE DEF u
  <2>1. inbox \in Seq(Update)  BY DEF Typed, TypeOK
  <2> QED  BY <1>2, <1>3, <2>1
<1> QED  BY <1>1, <1>2, <1>3, <1>4 DEF HumanSends, Typed, TypeOK

LEMMA TypeInit == ASSUME Init PROVE Typed
<1>1. /\ status \in [Tasks -> Statuses \cup {"unborn"}] /\ notes \in [Tasks -> Seq(Note)]
      /\ body \in [Slots -> Seq(Note)] /\ inbox \in Seq(Update) /\ tgBody \in Seq(Note)
  BY DEF Init, Statuses, Open
<1>2. /\ calls \in [Called -> Nat] /\ \A w \in Called : calls[w] <= MaxOf(w)
      /\ sent \in 0..MaxUpdates /\ deaths \in 0..MaxDeaths
  BY BoundsAssumption DEF Init, Called, MaxOf
<1> QED  BY <1>1, <1>2 DEF Init, Typed, TypeOK, InboxOK, Called

LEMMA TypeStep == ASSUME Typed, [Next]_vars PROVE Typed'
<1>1. CASE UNCHANGED vars
  BY <1>1 DEF vars, board, session, call, telegram, history, Typed, TypeOK, InboxOK
<1> QED  BY <1>1, TypeTool, TypeRun, TypeAdapter, TypeHuman DEF Next, Human

LEMMA TypedHolds == Spec => []Typed
BY TypeInit, TypeStep, PTL DEF Spec

(* Every reachable state is well typed.                                    *)
THEOREM TypeCorrect == Spec => []TypeOK
<1>1. Typed => TypeOK  BY DEF Typed
<1> QED  BY <1>1, TypedHolds, PTL

-----------------------------------------------------------------------------
(* The report of a run: while the claude worker runs, what is in review    *)
(* was so in the first snapshot or has been moved since.                   *)
ReportOK ==
  /\ Credited
  /\ phase = "after" => backend = "claude"
  /\ backend = "claude" /\ phase # "ended" => worked = {}
  /\ backend = "claude" /\ phase \in {"run", "after"}
       => InReview \subseteq before \cup moved \cup movedElse

(* A step that moves nothing to review, or says who did, keeps it.         *)
LEMMA ReportKept ==
  ASSUME ReportOK, backend' = backend, phase' = phase, before' = before,
         moved \subseteq moved', movedElse \subseteq movedElse', unsure => unsure',
         \A t \in worked' : t \in worked \/ (backend = "api" /\ (t \in moved' \/ unsure')),
         \A t \in Tasks : status'[t] = "waiting_review" =>
            \/ status[t] = "waiting_review"
            \/ phase \in {"run", "after"} => t \in moved' \cup movedElse'
  PROVE  ReportOK'
<1>1. Credited'  BY DEF ReportOK, Credited
<1>2. ASSUME backend = "claude", phase # "ended" PROVE worked' = {}  BY <1>2 DEF ReportOK
<1>3. ASSUME backend = "claude", phase \in {"run", "after"}
      PROVE  InReview' \subseteq before' \cup moved' \cup movedElse'
  BY <1>3 DEF ReportOK, InReview
<1>4. phase' = "after" => backend' = "claude"  BY DEF ReportOK
<1> QED  BY <1>1, <1>2, <1>3, <1>4 DEF ReportOK

LEMMA MovedEffect ==
  ASSUME Typed, NEW c \in Slots, NEW ts \in SUBSET Tasks, NEW s, MovedBy(c, ts, s)
  PROVE  /\ moved \subseteq moved' /\ movedElse \subseteq movedElse'
         /\ s = "waiting_review" /\ c \in Session => ts \subseteq moved'
         /\ s = "waiting_review" /\ phase \in {"run", "after"}
              => ts \subseteq moved' \cup movedElse'
BY DEF MovedBy, Slots

LEMMA ReportTool == ASSUME Typed, ReportOK, NEW c \in Slots, Tool(c) PROVE ReportOK'
<1> USE DEF board, session, call, telegram, history
<1>t. TypeOK  BY DEF Typed
<1>1. ASSUME NEW t \in Tasks, NEW s \in Settable, NEW rewrite \in BOOLEAN,
             UpdateTask(c, t, s, rewrite)
      PROVE  ReportOK'
  <2>1. /\ UNCHANGED <<backend, phase, before, worked, unsure>>
        /\ MovedBy(c, {t}, s) /\ status' = [status EXCEPT ![t] = s]
    BY <1>1 DEF UpdateTask
  <2>2. \A u \in Tasks : status'[u] = "waiting_review" =>
          status[u] = "waiting_review" \/ (u = t /\ s = "waiting_review")
    BY <1>t, <2>1 DEF TypeOK
  <2> QED  BY <2>1, <2>2, MovedEffect, ReportKept
<1>2. CASE ClaimSend(c) \/ ClaimFails(c)  BY <1>2, ReportKept DEF ClaimSend, ClaimFails
<1>3. CASE FinishFails(c)
  <2>1. /\ UNCHANGED <<status, backend, phase, before, moved, movedElse>>
        /\ Credit(c, lastClaim)
        /\ unsure => unsure'
    BY <1>3 DEF FinishFails
  <2>2. c \in Session /\ backend = "api" => unsure'  BY <1>3 DEF FinishFails
  <2>3. worked' = worked \/ (backend = "api" /\ c \in Session)  BY <2>1 DEF Credit
  <2> QED  BY <2>1, <2>2, <2>3, ReportKept
<1>4. ASSUME NEW t \in Tasks, FinishGet(c, t) PROVE ReportOK'
  BY <1>4, ReportKept DEF FinishGet
<1>5. ASSUME NEW t \in Tasks, NEW answered \in BOOLEAN, ClaimLand(c, t, answered)
      PROVE  ReportOK'
  <2>1. \A u \in Tasks : status'[u] = "waiting_review" => status[u] = "waiting_review"
    BY <1>5, <1>t DEF ClaimLand, TypeOK
  <2> QED  BY <1>5, <2>1, ReportKept DEF ClaimLand
<1>6. ASSUME NEW t \in Tasks, NEW answered \in BOOLEAN, FinishLand(c, t, answered)
      PROVE  ReportOK'
  <2>1. /\ UNCHANGED <<backend, phase, before>> /\ MovedBy(c, {t}, "waiting_review")
        /\ status' = [status EXCEPT ![t] = "waiting_review"]
        /\ Credit(c, IF answered THEN {t} ELSE lastClaim)
    BY <1>6 DEF FinishLand
  <2>2. unsure => unsure'  BY <1>6 DEF FinishLand
  <2>3. c \in Session /\ backend = "api" /\ ~answered => unsure'  BY <1>6 DEF FinishLand
  <2>4. \A u \in Tasks : status'[u] = "waiting_review" => status[u] = "waiting_review" \/ u = t
    BY <1>t, <2>1 DEF TypeOK
  <2>5. \/ worked' = worked
        \/ /\ backend = "api" /\ c \in Session
           /\ worked' = worked \cup (IF answered THEN {t} ELSE lastClaim)
    BY <2>1 DEF Credit
  <2>6. \A u \in worked' : u \in worked \/ (backend = "api" /\ (u \in moved' \/ unsure'))
    <3>1. c \in Session => t \in moved'  BY <2>1, MovedEffect
    <3>2. CASE answered  BY <2>5, <3>1, <3>2
    <3>3. CASE ~answered  BY <2>3, <2>5, <3>3
    <3> QED  BY <3>2, <3>3
  <2> QED  BY <2>1, <2>2, <2>4, <2>6, MovedEffect, ReportKept
<1>7. ASSUME NEW ts \in SUBSET Tasks, NEW s \in Settable, CreateTasks(c, ts, s)
      PROVE  ReportOK'
  <2>1. /\ UNCHANGED <<backend, phase, before, worked, unsure>>
        /\ MovedBy(c, ts, s) /\ status' = [u \in Tasks |-> IF u \in ts THEN s ELSE status[u]]
    BY <1>7 DEF CreateTasks
  <2>2. \A u \in Tasks : status'[u] = "waiting_review" =>
          status[u] = "waiting_review" \/ (u \in ts /\ s = "waiting_review")
    BY <2>1
  <2> QED  BY <2>1, <2>2, MovedEffect, ReportKept
<1> QED
  BY <1>1, <1>2, <1>3, <1>4, <1>5, <1>6, <1>7 DEF Tool, CreateTask, IngestContext

LEMMA ReportRun == ASSUME Typed, ReportOK, Run PROVE ReportOK'
<1> USE DEF board, session, call, telegram, history
<1>1. CASE Start
  BY <1>1 DEF Start, ReportOK, Credited, InReview
<1>2. CASE Skip \/ ApiEnd \/ ApiRaise \/ ClaudeEnd
  BY <1>2 DEF Skip, ApiEnd, ApiRaise, ClaudeEnd, ReportOK, Credited, InReview
<1>3. ASSUME NEW reached \in Reaches, ClaudeReport(reached) PROVE ReportOK'
  <2>1. /\ UNCHANGED <<status, before, backend, moved, movedElse, unsure>>
        /\ phase = "after" /\ phase' = "ended" /\ worked' \subseteq WorkedBetween
    BY <1>3 DEF ClaudeReport
  <2>2. CASE backend = "claude"
    BY <2>1, <2>2 DEF ReportOK, Credited, WorkedBetween
  <2> QED  BY <2>1, <2>2 DEF ReportOK
<1> QED  BY <1>1, <1>2, <1>3 DEF Run

LEMMA ReportAdapter == ASSUME Typed, ReportOK, Adapter PROVE ReportOK'
<1> USE DEF board, session, call, telegram, history
<1>1. UNCHANGED <<backend, phase, before, worked, moved, movedElse, unsure>>
  BY DEF Adapter, Press, ReplyGet, ReplyPatch, WriteOffset, AdapterDies
<1>2. \/ status' = status
      \/ inbox # <<>> /\ Answered
  BY DEF Adapter, Press, ReplyGet, ReplyPatch, WriteOffset, AdapterDies, Handling, Answered,
         Typed, InboxOK
<1>3. \A t \in Tasks : status'[t] = "waiting_review" => status[t] = "waiting_review"
  BY <1>2, AnsweredType
<1> QED  BY <1>1, <1>3, ReportKept

LEMMA ReportStep == ASSUME Typed, ReportOK, [Next]_vars PROVE ReportOK'
<1> USE DEF board, session, call, telegram, history
<1>1. CASE UNCHANGED vars  BY <1>1, ReportKept DEF vars
<1>2. CASE Human  BY <1>2, ReportKept DEF Human, HumanSends
<1> QED  BY <1>1, <1>2, ReportTool, ReportRun, ReportAdapter DEF Next

(* What run_work returns is work that was moved to review during the run:  *)
(* by the session or, for the claude worker, by anyone; or an api finish   *)
(* went unanswered.                                                        *)
THEOREM ReportedIsCredited == Spec => []Credited
<1>1. Init => ReportOK  BY DEF Init, ReportOK, Credited
<1>2. Typed /\ ReportOK /\ [Next]_vars => ReportOK'  BY ReportStep
<1>3. ReportOK => Credited  BY DEF ReportOK
<1> QED  BY <1>1, <1>2, <1>3, TypedHolds, PTL DEF Spec

-----------------------------------------------------------------------------
(* The api worker's claims: each stands for one task of the report at      *)
(* most, the last one for a task still to come.                            *)
ClaimsOK ==
  backend = "api" => /\ IsFiniteSet(worked)
                     /\ IsFiniteSet(lastClaim)
                     /\ Cardinality(worked) + Cardinality(lastClaim) <= handed

LEMMA SumBound ==
  ASSUME NEW S, NEW T, IsFiniteSet(S), IsFiniteSet(T)
  PROVE  /\ IsFiniteSet(S \cup T)
         /\ Cardinality(S) \in Nat /\ Cardinality(T) \in Nat /\ Cardinality(S \cup T) \in Nat
         /\ Cardinality(S \cup T) <= Cardinality(S) + Cardinality(T)
<1>1. IsFiniteSet(S \cup T) /\ IsFiniteSet(S \cap T)  BY FS_Union, FS_Intersection
<1>2. /\ Cardinality(S) \in Nat /\ Cardinality(T) \in Nat
      /\ Cardinality(S \cup T) \in Nat /\ Cardinality(S \cap T) \in Nat
  BY <1>1, FS_CardinalityType
<1>3. Cardinality(S \cup T) = Cardinality(S) + Cardinality(T) - Cardinality(S \cap T)
  BY FS_Union
<1> QED  BY <1>1, <1>2, <1>3

LEMMA OneOf ==
  ASSUME NEW t PROVE IsFiniteSet({t}) /\ Cardinality({t}) = 1
BY FS_Singleton

(* A finish reports its task, or the claimed one, in the place of the last *)
(* claim.                                                                  *)
LEMMA CreditCount ==
  ASSUME Typed, ClaimsOK, NEW c \in Slots, NEW ts, Credit(c, ts),
         ts = lastClaim \/ \E t \in Tasks : ts = {t},
         backend' = backend, handed' = handed
  PROVE  ClaimsOK'
<1>1. CASE UNCHANGED <<worked, lastClaim>>  BY <1>1 DEF ClaimsOK
<1>2. CASE /\ backend = "api" /\ lastClaim # {}
           /\ worked' = worked \cup ts /\ lastClaim' = {}
  <2>1. /\ IsFiniteSet(worked) /\ IsFiniteSet(lastClaim) /\ handed \in Nat
        /\ Cardinality(worked) + Cardinality(lastClaim) <= handed
    BY <1>2 DEF ClaimsOK, Typed, TypeOK
  <2>2. Cardinality(lastClaim) \in Nat /\ Cardinality(lastClaim) >= 1
    <3>1. Cardinality(lastClaim) \in Nat  BY <2>1, FS_CardinalityType
    <3>2. Cardinality(lastClaim) # 0  BY <1>2, <2>1, FS_EmptySet
    <3> QED  BY <3>1, <3>2
  <2>3. IsFiniteSet(ts) /\ Cardinality(ts) <= Cardinality(lastClaim)
    <3>1. CASE ts = lastClaim  BY <2>1, <2>2, <3>1
    <3>2. CASE \E t \in Tasks : ts = {t}
      <4>1. IsFiniteSet(ts) /\ Cardinality(ts) = 1  BY <3>2, OneOf
      <4> QED  BY <2>2, <4>1
    <3> QED  BY <3>1, <3>2
  <2>4. /\ IsFiniteSet(worked \cup ts) /\ Cardinality(worked \cup ts) <= handed
        /\ Cardinality(worked \cup ts) \in Nat
    <3>1. /\ IsFiniteSet(worked \cup ts)
          /\ Cardinality(worked) \in Nat /\ Cardinality(ts) \in Nat
          /\ Cardinality(worked \cup ts) \in Nat
          /\ Cardinality(worked \cup ts) <= Cardinality(worked) + Cardinality(ts)
      BY <2>1, <2>3, SumBound
    <3> QED  BY <2>1, <2>2, <2>3, <3>1
  <2>5. IsFiniteSet({}) /\ Cardinality({}) = 0  BY FS_EmptySet
  <2> QED  BY <1>2, <2>4, <2>5 DEF ClaimsOK
<1> QED  BY <1>1, <1>2 DEF Credit

LEMMA ClaimsTool == ASSUME Typed, ClaimsOK, NEW c \in Slots, Tool(c) PROVE ClaimsOK'
<1> USE DEF board, session, call, telegram, history
<1>1. CASE \/ ClaimSend(c) \/ ClaimFails(c) \/ \E t \in Tasks : FinishGet(c, t)
           \/ \E ts \in SUBSET Tasks, s \in Settable : CreateTasks(c, ts, s)
           \/ \E t \in Tasks, s \in Settable, rewrite \in BOOLEAN : UpdateTask(c, t, s, rewrite)
  <2>1. UNCHANGED <<backend, worked, lastClaim, handed>>
    BY <1>1 DEF ClaimSend, ClaimFails, FinishGet, CreateTasks, UpdateTask
  <2> QED  BY <2>1 DEF ClaimsOK
<1>2. CASE FinishFails(c)
  <2>1. Credit(c, lastClaim) /\ backend' = backend /\ handed' = handed
    BY <1>2 DEF FinishFails
  <2> QED  BY <2>1, CreditCount
<1>3. ASSUME NEW t \in Tasks, NEW answered \in BOOLEAN, FinishLand(c, t, answered)
      PROVE  ClaimsOK'
  <2>1. /\ Credit(c, IF answered THEN {t} ELSE lastClaim)
        /\ backend' = backend /\ handed' = handed
    BY <1>3 DEF FinishLand
  <2> QED  BY <2>1, CreditCount
<1>4. ASSUME NEW t \in Tasks, NEW answered \in BOOLEAN, ClaimLand(c, t, answered)
      PROVE  ClaimsOK'
  <2>1. backend' = backend /\ worked' = worked  BY <1>4 DEF ClaimLand
  <2>2. CASE UNCHANGED <<handed, lastClaim>>  BY <2>1, <2>2 DEF ClaimsOK
  <2>3. CASE /\ handed' = handed + 1
             /\ lastClaim' = IF backend = "api" THEN {t} ELSE lastClaim
    <3> SUFFICES ASSUME backend = "api" PROVE ClaimsOK'
      BY <2>1 DEF ClaimsOK
    <3>1. IsFiniteSet({t}) /\ Cardinality({t}) = 1  BY OneOf
    <3>2. /\ IsFiniteSet(worked) /\ handed \in Nat
          /\ Cardinality(worked) \in Nat /\ Cardinality(lastClaim) \in Nat
          /\ Cardinality(worked) + Cardinality(lastClaim) <= handed
      BY FS_CardinalityType DEF ClaimsOK, Typed, TypeOK
    <3> QED  BY <2>1, <2>3, <3>1, <3>2 DEF ClaimsOK
  <2> QED  BY <1>4, <2>2, <2>3 DEF ClaimLand
<1> QED  BY <1>1, <1>2, <1>3, <1>4 DEF Tool, CreateTask, IngestContext

LEMMA ClaimsRun == ASSUME Typed, ReportOK, ClaimsOK, Run PROVE ClaimsOK'
<1> USE DEF board, session, call, telegram, history
<1>1. CASE Start \/ Skip \/ ApiEnd \/ ClaudeEnd
  BY <1>1 DEF Start, Skip, ApiEnd, ClaudeEnd, ClaimsOK
<1>2. CASE ApiRaise
  <2>1. worked' = {} /\ UNCHANGED <<backend, lastClaim, handed>>  BY <1>2 DEF ApiRaise
  <2>2. IsFiniteSet({}) /\ Cardinality({}) = 0  BY FS_EmptySet
  <2> SUFFICES ASSUME backend = "api" PROVE ClaimsOK'
    BY <2>1 DEF ClaimsOK
  <2>3. /\ IsFiniteSet(lastClaim) /\ handed \in Nat
        /\ Cardinality(worked) \in Nat /\ Cardinality(lastClaim) \in Nat
        /\ Cardinality(worked) + Cardinality(lastClaim) <= handed
    BY FS_CardinalityType DEF ClaimsOK, Typed, TypeOK
  <2> QED  BY <2>1, <2>2, <2>3 DEF ClaimsOK
<1>3. ASSUME NEW reached \in Reaches, ClaudeReport(reached) PROVE ClaimsOK'
  <2>1. backend # "api" /\ backend' = backend  BY <1>3 DEF ClaudeReport, ReportOK
  <2> QED  BY <2>1 DEF ClaimsOK
<1> QED  BY <1>1, <1>2, <1>3 DEF Run

LEMMA ClaimsStep == ASSUME Typed, ReportOK, ClaimsOK, [Next]_vars PROVE ClaimsOK'
<1> USE DEF board, session, call, telegram, history
<1>1. CASE UNCHANGED vars \/ Human \/ Adapter
  <2>1. UNCHANGED <<backend, worked, lastClaim, handed>>
    <3>1. CASE UNCHANGED vars  BY <3>1 DEF vars
    <3>2. CASE Human  BY <3>2 DEF Human, HumanSends
    <3>3. CASE Adapter
      BY <3>3 DEF Adapter, Press, ReplyGet, ReplyPatch, WriteOffset, AdapterDies
    <3> QED  BY <1>1, <3>1, <3>2, <3>3
  <2> QED  BY <2>1 DEF ClaimsOK
<1> QED  BY <1>1, ClaimsTool, ClaimsRun DEF Next

(* The api worker reports no more tasks than claims it was told of:        *)
(* however many finish calls its model makes, of whatever tasks, each      *)
(* takes the place of one claim (work_loop.py:139-153).                    *)
THEOREM ReportsStayWithinClaims == Spec => []ReportsWithinClaims
<1>1. Init => ReportOK  BY DEF Init, ReportOK, Credited
<1>2. Init => ClaimsOK
  <2>1. IsFiniteSet({}) /\ Cardinality({}) = 0  BY FS_EmptySet
  <2> QED  BY <2>1 DEF Init, ClaimsOK
<1>3. Typed /\ ReportOK /\ [Next]_vars => ReportOK'  BY ReportStep
<1>4. Typed /\ ReportOK /\ ClaimsOK /\ [Next]_vars => ClaimsOK'  BY ClaimsStep
<1>5. Typed /\ ClaimsOK => ReportsWithinClaims
  <2> SUFFICES ASSUME Typed, ClaimsOK, backend = "api" PROVE Cardinality(worked) <= handed
    BY DEF ReportsWithinClaims
  <2>1. /\ handed \in Nat
        /\ Cardinality(worked) \in Nat /\ Cardinality(lastClaim) \in Nat
        /\ Cardinality(worked) + Cardinality(lastClaim) <= handed
    BY FS_CardinalityType DEF ClaimsOK, Typed, TypeOK
  <2> QED  BY <2>1
<1> QED  BY <1>1, <1>2, <1>3, <1>4, <1>5, TypedHolds, PTL DEF Spec

-----------------------------------------------------------------------------
(* Notes are append-only: r is q with notes added to its end.              *)
Grows(q, r) == Len(q) <= Len(r) /\ \A i \in 1..Len(q) : r[i] = q[i]

LEMMA GrowsRange ==
  ASSUME NEW S, NEW q \in Seq(S), NEW r \in Seq(S), Grows(q, r)
  PROVE  Range(q) \subseteq Range(r)
BY DEF Grows, Range

LEMMA AppendGrows ==
  ASSUME NEW S, NEW q \in Seq(S), NEW e \in S
  PROVE  Grows(q, Append(q, e))
BY DEF Grows

(* What anybody is about to write a description back with only adds to its *)
(* end, or the task counts as overlapped.                                  *)
Sound(t) ==
  /\ posted[t] \subseteq Range(notes[t])
  /\ \A c \in Slots : SlotHolds(c, t) => Grows(notes[t], body[c])
  /\ AdapterHolds(t) => Grows(notes[t], tgBody)

NotesOK == \A t \in Tasks : t \in overlapped \cup rewritten \/ Sound(t)

(* No description is written; a new read is of the description as it is.   *)
LEMMA NotesRead ==
  ASSUME NotesOK, UNCHANGED <<notes, posted, overlapped>>, rewritten \subseteq rewritten',
         \A t \in Tasks, c \in Slots : SlotHolds(c, t)' =>
            \/ SlotHolds(c, t) /\ body'[c] = body[c]
            \/ Grows(notes[t], body'[c]),
         \A t \in Tasks : AdapterHolds(t)' =>
            \/ AdapterHolds(t) /\ tgBody' = tgBody
            \/ Grows(notes[t], tgBody')
  PROVE  NotesOK'
<1> SUFFICES ASSUME NEW t \in Tasks, t \notin overlapped' \cup rewritten' PROVE Sound(t)'
  BY DEF NotesOK
<1>1. Sound(t)  BY DEF NotesOK
<1> QED  BY <1>1 DEF Sound

(* A description is written by one who held a read of it, or nobody did.   *)
LEMMA NotesWritten ==
  ASSUME Typed, NotesOK, NEW t \in Tasks, NEW q \in Seq(Note), NEW others \in BOOLEAN,
         WriteNotes(t, q, others), rewritten \subseteq rewritten',
         \/ t \in rewritten'
         \/ t \in overlapped \cup rewritten
         \/ others
         \/ /\ Grows(notes[t], q)
            /\ ~AdapterHolds(t)' /\ \A c \in Slots : ~SlotHolds(c, t)',
         \A u \in Tasks, c \in Slots : SlotHolds(c, u)' => SlotHolds(c, u) /\ body'[c] = body[c],
         \A u \in Tasks : AdapterHolds(u)' => AdapterHolds(u) /\ tgBody' = tgBody
  PROVE  NotesOK'
<1>1. /\ \A u \in Tasks : /\ notes'[u] = IF u = t THEN q ELSE notes[u]
                          /\ posted'[u] = IF u = t THEN posted[u] \cup Range(q) ELSE posted[u]
      /\ overlapped' = IF others THEN overlapped \cup {t} ELSE overlapped
  <2>1. TypeOK  BY DEF Typed
  <2>2. overlapped' = IF others THEN overlapped \cup {t} ELSE overlapped  BY DEF WriteNotes
  <2>3. \A u \in Tasks :
          /\ notes'[u] = IF u = t THEN q ELSE notes[u]
          /\ posted'[u] = IF u = t THEN posted[u] \cup Range(q) ELSE posted[u]
    BY <2>1 DEF WriteNotes, TypeOK
  <2> QED  BY <2>2, <2>3
<1> SUFFICES ASSUME NEW u \in Tasks, u \notin overlapped' \cup rewritten' PROVE Sound(u)'
  BY DEF NotesOK
<1>2. u \notin overlapped \cup rewritten /\ Sound(u)  BY <1>1 DEF NotesOK
<1>3. CASE u # t  BY <1>1, <1>2, <1>3 DEF Sound
<1>4. CASE u = t
  <2>1. ~others  BY <1>1, <1>4
  <2>2. /\ Grows(notes[t], q)
        /\ ~AdapterHolds(t)' /\ \A c \in Slots : ~SlotHolds(c, t)'
    BY <1>2, <1>4, <2>1
  <2>3. notes'[t] = q /\ posted'[t] = posted[t] \cup Range(q)  BY <1>1
  <2>4. Range(notes[t]) \subseteq Range(q)
    <3>1. notes[t] \in Seq(Note)  BY DEF Typed, TypeOK
    <3> QED  BY <2>2, <3>1, GrowsRange
  <2> QED  BY <1>2, <1>4, <2>2, <2>3, <2>4 DEF Sound
<1> QED  BY <1>3, <1>4

(* A slot that returns holds nothing; the others hold what they held.      *)
LEMMA ReturnHolds ==
  ASSUME Typed, NEW c \in Slots, Return(c)
  PROVE  \A d \in Slots, u \in Tasks :
           SlotHolds(d, u)' => d # c /\ SlotHolds(d, u) /\ body'[d] = body[d]
BY ReturnType DEF SlotHolds, Typed

LEMMA NotesTool == ASSUME Typed, NotesOK, NEW c \in Slots, Tool(c) PROVE NotesOK'
<1> USE DEF board, session, call, telegram, history
<1>t. TypeOK  BY DEF Typed
<1>1. ASSUME UNCHANGED telegram PROVE \A u \in Tasks : AdapterHolds(u)' <=> AdapterHolds(u)
  BY <1>1 DEF AdapterHolds
<1>2. CASE ClaimSend(c)
  <2>1. /\ UNCHANGED <<notes, posted, overlapped, rewritten, at, body>> /\ UNCHANGED telegram
        /\ pc' = [pc EXCEPT ![c] = "claim"]
    BY <1>2 DEF ClaimSend
  <2>2. \A d \in Slots, u \in Tasks : SlotHolds(d, u)' => SlotHolds(d, u) /\ body'[d] = body[d]
    BY <1>t, <2>1 DEF SlotHolds, TypeOK
  <2> QED  BY <1>1, <2>1, <2>2, NotesRead
<1>3. CASE ClaimFails(c) \/ FinishFails(c) \/ \E t \in Tasks, a \in BOOLEAN : ClaimLand(c, t, a)
  <2>1. /\ UNCHANGED <<notes, posted, overlapped, rewritten>> /\ UNCHANGED telegram
        /\ Return(c)
    BY <1>3 DEF ClaimFails, FinishFails, ClaimLand
  <2> QED  BY <1>1, <2>1, ReturnHolds, NotesRead
<1>4. ASSUME NEW t \in Tasks, FinishGet(c, t) PROVE NotesOK'
  <2>1. /\ UNCHANGED <<notes, posted, overlapped, rewritten>> /\ UNCHANGED telegram
        /\ pc' = [pc EXCEPT ![c] = "finish"] /\ at' = [at EXCEPT ![c] = {t}]
        /\ body' = [body EXCEPT ![c] = Append(notes[t], NewNote(c))] /\ MayCall(c)
    BY <1>4 DEF FinishGet, WithNote
  <2>2. Grows(notes[t], Append(notes[t], NewNote(c)))
    BY <1>t, <2>1, CallType, AppendGrows DEF TypeOK
  <2>3. body'[c] = Append(notes[t], NewNote(c)) /\ at'[c] = {t}  BY <1>t, <2>1 DEF TypeOK
  <2>4. ASSUME NEW d \in Slots, NEW u \in Tasks, SlotHolds(d, u)'
        PROVE  \/ SlotHolds(d, u) /\ body'[d] = body[d]
               \/ Grows(notes[u], body'[d])
    <3>1. CASE d = c  BY <2>2, <2>3, <2>4, <3>1 DEF SlotHolds
    <3>2. CASE d # c  BY <1>t, <2>1, <2>4, <3>2 DEF SlotHolds, TypeOK
    <3> QED  BY <3>1, <3>2
  <2> QED  BY <1>1, <2>1, <2>4, NotesRead
<1>5. ASSUME NEW t \in Tasks, NEW answered \in BOOLEAN, FinishLand(c, t, answered)
      PROVE  NotesOK'
  <2>1. /\ SlotHolds(c, t) /\ WriteNotes(t, body[c], HeldBesides(c, t)) /\ Return(c)
        /\ UNCHANGED rewritten /\ UNCHANGED telegram
    BY <1>5 DEF FinishLand
  <2>2. body[c] \in Seq(Note) /\ HeldBesides(c, t) \in BOOLEAN
    BY <1>t DEF TypeOK, HeldBesides, AdapterHolds
  <2>3. t \in overlapped \cup rewritten \/ Grows(notes[t], body[c])
    BY <2>1 DEF NotesOK, Sound
  <2>4. HeldBesides(c, t) \/ (~AdapterHolds(t)' /\ \A d \in Slots : ~SlotHolds(d, t)')
    BY <1>1, <2>1, ReturnHolds DEF HeldBesides
  <2> HIDE DEF telegram
  <2>5. \A u \in Tasks : AdapterHolds(u)' => AdapterHolds(u) /\ tgBody' = tgBody
    BY <1>1, <2>1 DEF telegram
  <2> QED  BY <2>1, <2>2, <2>3, <2>4, <2>5, ReturnHolds, NotesWritten
<1>6. ASSUME NEW t \in Tasks, NEW s \in Settable, NEW rewrite \in BOOLEAN,
             UpdateTask(c, t, s, rewrite)
      PROVE  NotesOK'
  <2>1. UNCHANGED call /\ UNCHANGED telegram /\ MayCall(c)  BY <1>6 DEF UpdateTask
  <2>2. /\ \A d \in Slots, u \in Tasks : SlotHolds(d, u)' => SlotHolds(d, u) /\ body'[d] = body[d]
        /\ \A u \in Tasks : AdapterHolds(u)' => AdapterHolds(u) /\ tgBody' = tgBody
    BY <1>1, <2>1 DEF SlotHolds
  <2>3. CASE rewrite
    <3>1. /\ WriteNotes(t, <<NewNote(c)>>, HeldBesides(c, t))
          /\ rewritten' = rewritten \cup {t}
      BY <1>6, <2>3 DEF UpdateTask
    <3>2. <<NewNote(c)>> \in Seq(Note) /\ HeldBesides(c, t) \in BOOLEAN
      BY <1>t, <2>1, CallType, Singles DEF HeldBesides, AdapterHolds
    <3> QED  BY <2>2, <3>1, <3>2, NotesWritten
  <2>4. CASE ~rewrite
    <3>1. UNCHANGED <<notes, posted, overlapped, rewritten>>  BY <1>6, <2>4 DEF UpdateTask
    <3> QED  BY <2>2, <3>1, NotesRead
  <2> QED  BY <2>3, <2>4
<1>7. ASSUME NEW ts \in SUBSET Tasks, NEW s \in Settable, CreateTasks(c, ts, s)
      PROVE  NotesOK'
  <2>1. UNCHANGED call /\ UNCHANGED telegram /\ UNCHANGED <<notes, posted, overlapped, rewritten>>
    BY <1>7 DEF CreateTasks
  <2>2. \A d \in Slots, u \in Tasks : SlotHolds(d, u)' => SlotHolds(d, u) /\ body'[d] = body[d]
    BY <2>1 DEF SlotHolds
  <2> QED  BY <1>1, <2>1, <2>2, NotesRead
<1> QED  BY <1>2, <1>3, <1>4, <1>5, <1>6, <1>7 DEF Tool, CreateTask, IngestContext

LEMMA NotesAdapter == ASSUME Typed, NotesOK, Adapter PROVE NotesOK'
<1> USE DEF board, session, call, telegram, history
<1>t. TypeOK  BY DEF Typed
<1>1. ASSUME UNCHANGED call
      PROVE  \A d \in Slots, u \in Tasks :
               (SlotHolds(d, u)' <=> SlotHolds(d, u)) /\ body'[d] = body[d]
  BY <1>1 DEF SlotHolds
<1>2. CASE WriteOffset \/ AdapterDies \/ \E reached \in BOOLEAN : Press(reached)
  <2>1. /\ UNCHANGED call /\ UNCHANGED <<notes, posted, overlapped, rewritten>>
        /\ tg' # "patch"
    BY <1>2 DEF WriteOffset, AdapterDies, Press
  <2> QED  BY <1>1, <2>1, NotesRead DEF AdapterHolds
<1>3. ASSUME NEW reached \in BOOLEAN, ReplyGet(reached) PROVE NotesOK'
  <2> DEFINE u == Head(inbox)
  <2>1. /\ UNCHANGED call /\ UNCHANGED <<notes, posted, overlapped, rewritten, inbox>>
        /\ inbox # <<>>
        /\ reached => tgBody' = Append(notes[u.task], <<"human", u.n>>)
        /\ ~reached => tg' = "ack"
    BY <1>3 DEF ReplyGet, Handling, WithNote
  <2>2. u.task \in Tasks /\ <<"human", u.n>> \in Note  BY <2>1, Current
  <2>3. ASSUME NEW t \in Tasks, AdapterHolds(t)' PROVE Grows(notes[t], tgBody')
    <3>1. t = u.task /\ reached  BY <2>1, <2>3 DEF AdapterHolds
    <3> HIDE DEF u
    <3>2. tgBody' = Append(notes[t], <<"human", u.n>>) /\ notes[t] \in Seq(Note)
      BY <1>t, <2>1, <3>1 DEF TypeOK
    <3> QED  BY <2>2, <3>2, AppendGrows
  <2> QED  BY <1>1, <2>1, <2>3, NotesRead
<1>4. ASSUME NEW reached \in BOOLEAN, ReplyPatch(reached) PROVE NotesOK'
  <2>0. inbox # <<>>  BY <1>4 DEF ReplyPatch, Typed, InboxOK
  <2>t. PICK t \in Tasks : t = Head(inbox).task  BY <2>0, Current
  <2> DEFINE others == \E c \in Slots : SlotHolds(c, t)
  <2>1. /\ UNCHANGED call /\ UNCHANGED rewritten /\ tg = "patch" /\ tg' = "ack"
        /\ reached => WriteNotes(t, tgBody, others)
        /\ ~reached => UNCHANGED <<notes, posted, overlapped>>
    BY <1>4, <2>t DEF ReplyPatch
  <2>2. AdapterHolds(t)  BY <2>1, <2>t DEF AdapterHolds
  <2>3. \A v \in Tasks : ~AdapterHolds(v)'  BY <2>1 DEF AdapterHolds
  <2>4. CASE ~reached  BY <1>1, <2>1, <2>3, <2>4, NotesRead
  <2>5. CASE reached
    <3>1. tgBody \in Seq(Note) /\ others \in BOOLEAN  BY <1>t DEF TypeOK
    <3>2. t \in overlapped \cup rewritten \/ Grows(notes[t], tgBody)
      BY <2>2 DEF NotesOK, Sound
    <3>3. others \/ \A c \in Slots : ~SlotHolds(c, t)'  BY <1>1, <2>1
    <3>4. WriteNotes(t, tgBody, others)  BY <2>1, <2>5
    <3> HIDE DEF others
    <3> QED  BY <1>1, <2>1, <2>2, <2>3, <3>1, <3>2, <3>3, <3>4, NotesWritten
  <2> QED  BY <2>4, <2>5
<1> QED  BY <1>2, <1>3, <1>4 DEF Adapter, Reaches

LEMMA NotesStep == ASSUME Typed, NotesOK, [Next]_vars PROVE NotesOK'
<1> USE DEF board, session, call, telegram, history
<1>1. CASE UNCHANGED vars
  <2>1. UNCHANGED <<notes, posted, overlapped, rewritten, pc, at, body, tg, inbox, tgBody>>
    BY <1>1 DEF vars
  <2> QED  BY <2>1, NotesRead DEF SlotHolds, AdapterHolds
<1>2. CASE Run
  <2>1. UNCHANGED <<notes, posted, overlapped, rewritten, pc, at, body, tg, inbox, tgBody>>
    BY <1>2 DEF Run, Start, Skip, ApiEnd, ApiRaise, ClaudeEnd, ClaudeReport
  <2> QED  BY <2>1, NotesRead DEF SlotHolds, AdapterHolds
<1>3. CASE Human
  <2>1. PICK act \in Acts, t \in Tasks : HumanSends(act[1], t, act[2])  BY <1>3 DEF Human
  <2>2. UNCHANGED <<notes, posted, overlapped, rewritten, pc, at, body, tg, tgBody>>
    BY <2>1 DEF HumanSends
  <2>3. tg = "patch" => Head(inbox') = Head(inbox)
    <3>1. PICK u \in Update : inbox' = Append(inbox, u)  BY <2>1, TypeHuman
    <3> QED  BY <3>1, HeadStays DEF Typed, TypeOK, InboxOK
  <2> QED  BY <2>2, <2>3, NotesRead DEF SlotHolds, AdapterHolds
<1> QED  BY <1>1, <1>2, <1>3, NotesTool, NotesAdapter DEF Next

(* A note stays in its description unless the description was written      *)
(* while another reader was about to write it back, or was replaced: the   *)
(* GET and PATCH of a report and of a reply lose nothing otherwise.        *)
THEOREM NotesAreKept == Spec => []NotesSurvive
<1>1. Init => NotesOK
  BY DEF Init, NotesOK, Sound, SlotHolds, AdapterHolds
<1>2. Typed /\ NotesOK /\ [Next]_vars => NotesOK'  BY NotesStep
<1>3. NotesOK => NotesSurvive  BY DEF NotesOK, Sound, NotesSurvive
<1> QED  BY <1>1, <1>2, <1>3, TypedHolds, PTL DEF Spec

(* A description that is written grows, for the same reason.               *)
LEMMA WrittenGrows ==
  ASSUME Typed, NEW t \in Tasks, NEW q \in Seq(Note), NEW others \in BOOLEAN,
         WriteNotes(t, q, others), rewritten \subseteq rewritten',
         \/ t \in rewritten'
         \/ t \in overlapped \cup rewritten
         \/ others
         \/ Grows(notes[t], q)
  PROVE  \A u \in Tasks : Grows(notes[u], notes'[u]) \/ u \in overlapped' \cup rewritten'
<1>1. \A u \in Tasks : notes'[u] = IF u = t THEN q ELSE notes[u]
  <2>1. TypeOK  BY DEF Typed
  <2> QED  BY <2>1 DEF WriteNotes, TypeOK
<1>2. overlapped' = IF others THEN overlapped \cup {t} ELSE overlapped  BY DEF WriteNotes
<1>3. ASSUME NEW u \in Tasks, u # t PROVE Grows(notes[u], notes'[u])
  <2>1. notes[u] \in Seq(Note)  BY DEF Typed, TypeOK
  <2> QED  BY <1>1, <1>3, <2>1 DEF Grows
<1>4. Grows(notes[t], notes'[t]) \/ t \in overlapped' \cup rewritten'
  BY <1>1, <1>2
<1> QED  BY <1>3, <1>4

LEMMA GrowsStep ==
  ASSUME Typed, NotesOK, [Next]_vars
  PROVE  \A t \in Tasks : Grows(notes[t], notes'[t]) \/ t \in overlapped' \cup rewritten'
<1> USE DEF board, session, call, telegram, history
<1>t. TypeOK  BY DEF Typed
<1>u. ASSUME UNCHANGED notes PROVE \A t \in Tasks : Grows(notes[t], notes'[t])
  <2>1. \A t \in Tasks : notes[t] \in Seq(Note)  BY <1>t DEF TypeOK
  <2> QED  BY <1>u, <2>1 DEF Grows
<1>1. ASSUME NEW c \in Slots, NEW t \in Tasks, NEW answered \in BOOLEAN,
             FinishLand(c, t, answered)
      PROVE  \A u \in Tasks : Grows(notes[u], notes'[u]) \/ u \in overlapped' \cup rewritten'
  <2>1. /\ SlotHolds(c, t) /\ WriteNotes(t, body[c], HeldBesides(c, t))
        /\ UNCHANGED rewritten
    BY <1>1 DEF FinishLand
  <2>2. body[c] \in Seq(Note) /\ HeldBesides(c, t) \in BOOLEAN
    BY <1>t DEF TypeOK, HeldBesides, AdapterHolds
  <2>3. t \in overlapped \cup rewritten \/ Grows(notes[t], body[c])
    BY <2>1 DEF NotesOK, Sound
  <2> QED  BY <2>1, <2>2, <2>3, WrittenGrows
<1>2. ASSUME NEW c \in Slots, NEW t \in Tasks, NEW s \in Settable, NEW rewrite \in BOOLEAN,
             UpdateTask(c, t, s, rewrite)
      PROVE  \A u \in Tasks : Grows(notes[u], notes'[u]) \/ u \in overlapped' \cup rewritten'
  <2>1. CASE rewrite
    <3>1. /\ WriteNotes(t, <<NewNote(c)>>, HeldBesides(c, t)) /\ MayCall(c)
          /\ rewritten' = rewritten \cup {t}
      BY <1>2, <2>1 DEF UpdateTask
    <3>2. <<NewNote(c)>> \in Seq(Note) /\ HeldBesides(c, t) \in BOOLEAN
      BY <1>t, <3>1, CallType, Singles DEF HeldBesides, AdapterHolds
    <3> QED  BY <3>1, <3>2, WrittenGrows
  <2>2. CASE ~rewrite  BY <1>2, <1>u, <2>2 DEF UpdateTask
  <2> QED  BY <2>1, <2>2
<1>3. ASSUME NEW reached \in BOOLEAN, ReplyPatch(reached)
      PROVE  \A u \in Tasks : Grows(notes[u], notes'[u]) \/ u \in overlapped' \cup rewritten'
  <2>0. inbox # <<>>  BY <1>3 DEF ReplyPatch, Typed, InboxOK
  <2>t. PICK t \in Tasks : t = Head(inbox).task  BY <2>0, Current
  <2> DEFINE others == \E c \in Slots : SlotHolds(c, t)
  <2>1. /\ UNCHANGED rewritten /\ tg = "patch"
        /\ reached => WriteNotes(t, tgBody, others)
        /\ ~reached => UNCHANGED notes
    BY <1>3, <2>t DEF ReplyPatch
  <2>2. t \in overlapped \cup rewritten \/ Grows(notes[t], tgBody)
    BY <2>t, <2>1 DEF NotesOK, Sound, AdapterHolds
  <2>3. tgBody \in Seq(Note) /\ others \in BOOLEAN  BY <1>t DEF TypeOK
  <2> HIDE DEF others
  <2>4. CASE reached  BY <2>1, <2>2, <2>3, <2>4, WrittenGrows
  <2>5. CASE ~reached  BY <1>u, <2>1, <2>5
  <2> QED  BY <2>4, <2>5
<1>4. \/ UNCHANGED notes
      \/ \E c \in Slots, t \in Tasks, answered \in BOOLEAN : FinishLand(c, t, answered)
      \/ \E c \in Slots, t \in Tasks, s \in Settable, rewrite \in BOOLEAN :
           UpdateTask(c, t, s, rewrite)
      \/ \E reached \in BOOLEAN : ReplyPatch(reached)
  BY DEF Next, vars, Tool, ClaimSend, ClaimFails, ClaimLand, FinishGet, FinishFails,
     CreateTask, IngestContext, CreateTasks, Run, Start, Skip, ApiEnd, ApiRaise, ClaudeEnd,
     ClaudeReport, Adapter, Reaches, Press, ReplyGet, WriteOffset, AdapterDies, Human,
     HumanSends
<1> QED  BY <1>1, <1>2, <1>3, <1>4, <1>u

(* What a step may do to a description.                                    *)
AppendsOnly ==
  [][\A t \in Tasks :
       Grows(notes[t], notes'[t]) \/ t \in overlapped' \cup rewritten']_vars

(* "Notes are append-only", and so a report is the tail of its description *)
(* until somebody adds to it (work_report.py:10-12): this is so for every  *)
(* description in which no two writers overlapped and which no update_task *)
(* replaced, whatever is lost, cut off or delivered again.                 *)
THEOREM NotesAreAppended == Spec => AppendsOnly
<1>1. Init => NotesOK
  BY DEF Init, NotesOK, Sound, SlotHolds, AdapterHolds
<1>2. Typed /\ NotesOK /\ [Next]_vars => NotesOK'  BY NotesStep
<1>3. Typed /\ NotesOK /\ [Next]_vars
        => \A t \in Tasks : Grows(notes[t], notes'[t]) \/ t \in overlapped' \cup rewritten'
  BY GrowsStep
<1>4. Spec => [][\A t \in Tasks :
                   Grows(notes[t], notes'[t]) \/ t \in overlapped' \cup rewritten']_vars
  BY <1>1, <1>2, <1>3, TypedHolds, PTL DEF Spec
<1> QED  BY <1>4 DEF AppendsOnly

-----------------------------------------------------------------------------
(* The budget: the claims counted and those under way of the session.      *)
Pending == {c \in Session : pc[c] = "claim"}

BudgetOK ==
  /\ handed + Cardinality(Pending) <= Budget + Cardinality(Session) - 1
  /\ backend = "api" =>
       /\ handed <= Budget
       /\ \A c \in Pending : handed < Budget
       /\ \A c, d \in Pending : c = d

LEMMA Counts ==
  /\ IsFiniteSet(Session) /\ Cardinality(Session) \in Nat /\ Cardinality(Session) >= 1
  /\ \A S \in SUBSET Session :
       IsFiniteSet(S) /\ Cardinality(S) \in Nat /\ Cardinality(S) <= Cardinality(Session)
<1>1. /\ IsFiniteSet(Session) /\ Cardinality(Session) \in Nat /\ Cardinality(Session) # 0
  BY CallsAssumption, FS_CardinalityType, FS_EmptySet
<1>2. \A S \in SUBSET Session :
        IsFiniteSet(S) /\ Cardinality(S) \in Nat /\ Cardinality(S) <= Cardinality(Session)
  BY <1>1, FS_Subset, FS_CardinalityType
<1> QED  BY <1>1, <1>2

(* Fewer under way and no more counted, ...                                *)
LEMMA BudgetFewer ==
  ASSUME Typed, BudgetOK, backend' = backend, handed' = handed, Pending' \subseteq Pending
  PROVE  BudgetOK'
<1>1. Pending \subseteq Session  BY DEF Pending
<1>2. Cardinality(Pending') <= Cardinality(Pending)  BY <1>1, Counts, FS_Subset
<1>3. Cardinality(Pending') \in Nat /\ Cardinality(Pending) \in Nat  BY <1>1, Counts
<1>4. handed' + Cardinality(Pending') <= Budget + Cardinality(Session) - 1
  BY <1>2, <1>3, Counts, BoundsAssumption DEF BudgetOK, Typed, TypeOK
<1> QED  BY <1>4 DEF BudgetOK

LEMMA ReturnPending ==
  ASSUME Typed, NEW c \in Slots, Return(c) PROVE Pending' = Pending \ {c}
<1>1. Session \subseteq Slots  BY DEF Slots
<1> QED  BY <1>1, ReturnType DEF Pending, Typed

LEMMA BudgetTool == ASSUME Typed, BudgetOK, NEW c \in Slots, Tool(c) PROVE BudgetOK'
<1> USE DEF board, session, call, telegram, history
<1>t. TypeOK /\ handed \in Nat /\ Budget \in Nat  BY BoundsAssumption DEF Typed, TypeOK
<1>p. Pending \subseteq Session  BY DEF Pending
<1>s. Session \subseteq Slots  BY DEF Slots
<1>1. CASE ClaimSend(c)
  <2>1. /\ UNCHANGED <<backend, handed>> /\ pc' = [pc EXCEPT ![c] = "claim"]
        /\ MayCall(c) /\ ~BudgetSpent(c)
    BY <1>1 DEF ClaimSend
  <2>2. CASE c \notin Session
    <3>1. Pending' = Pending  BY <1>t, <2>1, <2>2 DEF Pending, TypeOK
    <3> QED  BY <2>1, <3>1, BudgetFewer
  <2>3. CASE c \in Session
    <3>1. handed < Budget  BY <1>t, <2>1, <2>3 DEF BudgetSpent
    <3>2. Pending' \subseteq Session  BY DEF Pending
    <3>3. handed' + Cardinality(Pending') <= Budget + Cardinality(Session) - 1
      <4>1. Cardinality(Pending') \in Nat /\ Cardinality(Pending') <= Cardinality(Session)
        BY <3>2, Counts
      <4> QED  BY <1>t, <2>1, <3>1, <4>1, Counts
    <3>4. ASSUME backend = "api" PROVE Pending' \subseteq {c}
      BY <1>t, <1>s, <2>1, <2>3, <3>4 DEF Pending, MayCall, TypeOK
    <3>5. handed' < Budget /\ handed' <= Budget  BY <1>t, <2>1, <3>1
    <3> QED  BY <2>1, <3>3, <3>4, <3>5 DEF BudgetOK
  <2> QED  BY <2>2, <2>3
<1>2. CASE ClaimFails(c) \/ FinishFails(c) \/ \E t \in Tasks, a \in BOOLEAN : FinishLand(c, t, a)
  <2>1. UNCHANGED <<backend, handed>> /\ Return(c)
    BY <1>2 DEF ClaimFails, FinishFails, FinishLand
  <2> QED  BY <2>1, ReturnPending, BudgetFewer
<1>3. ASSUME NEW t \in Tasks, NEW answered \in BOOLEAN, ClaimLand(c, t, answered)
      PROVE  BudgetOK'
  <2>1. /\ pc[c] = "claim" /\ backend' = backend /\ Return(c)
        /\ IF answered /\ c \in Session THEN handed' = handed + 1 ELSE handed' = handed
    BY <1>3 DEF ClaimLand
  <2>2. Pending' = Pending \ {c}  BY <2>1, ReturnPending
  <2>3. CASE handed' = handed  BY <2>1, <2>2, <2>3, BudgetFewer
  <2>4. CASE c \in Session /\ handed' = handed + 1
    <3>1. c \in Pending  BY <2>1, <2>4 DEF Pending
    <3>2. Cardinality(Pending') = Cardinality(Pending) - 1
      BY <1>p, <2>2, <3>1, Counts, FS_RemoveElement
    <3>3. Cardinality(Pending) \in Nat  BY <1>p, Counts
    <3>4. handed' + Cardinality(Pending') <= Budget + Cardinality(Session) - 1
      BY <1>t, <2>4, <3>2, <3>3, Counts DEF BudgetOK
    <3>5. ASSUME backend = "api" PROVE handed' <= Budget /\ Pending' = {}
      <4>1. handed < Budget  BY <3>1, <3>5 DEF BudgetOK
      <4>2. Pending' = {}  BY <2>2, <3>1, <3>5 DEF BudgetOK
      <4> QED  BY <1>t, <2>4, <4>1, <4>2
    <3> QED  BY <2>1, <3>4, <3>5 DEF BudgetOK
  <2> QED  BY <2>1, <2>3, <2>4
<1>4. ASSUME NEW t \in Tasks, FinishGet(c, t) PROVE BudgetOK'
  <2>1. UNCHANGED <<backend, handed>> /\ pc' = [pc EXCEPT ![c] = "finish"]
    BY <1>4 DEF FinishGet
  <2>2. Pending' \subseteq Pending  BY <1>t, <1>s, <2>1 DEF Pending, TypeOK
  <2> QED  BY <2>1, <2>2, BudgetFewer
<1>5. ASSUME NEW t \in Tasks, NEW s \in Settable, NEW rewrite \in BOOLEAN,
             UpdateTask(c, t, s, rewrite)
      PROVE  BudgetOK'
  <2>1. UNCHANGED <<backend, handed, pc>>  BY <1>5 DEF UpdateTask
  <2> QED  BY <2>1, BudgetFewer DEF Pending
<1>6. ASSUME NEW ts \in SUBSET Tasks, NEW s \in Settable, CreateTasks(c, ts, s)
      PROVE  BudgetOK'
  <2>1. UNCHANGED <<backend, handed, pc>>  BY <1>6 DEF CreateTasks
  <2> QED  BY <2>1, BudgetFewer DEF Pending
<1> QED  BY <1>1, <1>2, <1>3, <1>4, <1>5, <1>6 DEF Tool, CreateTask, IngestContext

LEMMA BudgetStep == ASSUME Typed, BudgetOK, [Next]_vars PROVE BudgetOK'
<1> USE DEF board, session, call, telegram, history
<1>1. CASE UNCHANGED vars \/ Run \/ Human \/ Adapter
  <2>1. UNCHANGED <<backend, handed, pc>>
    <3>1. CASE UNCHANGED vars  BY <3>1 DEF vars
    <3>2. CASE Run  BY <3>2 DEF Run, Start, Skip, ApiEnd, ApiRaise, ClaudeEnd, ClaudeReport
    <3>3. CASE Human  BY <3>3 DEF Human, HumanSends
    <3>4. CASE Adapter
      BY <3>4 DEF Adapter, Press, ReplyGet, ReplyPatch, WriteOffset, AdapterDies
    <3> QED  BY <1>1, <3>1, <3>2, <3>3, <3>4
  <2> QED  BY <2>1, BudgetFewer DEF Pending
<1> QED  BY <1>1, BudgetTool DEF Next

LEMMA BudgetInit == ASSUME Init PROVE BudgetOK
<1>1. Pending = {} /\ handed = 0  BY DEF Init, Pending, Slots
<1> QED  BY <1>1, Counts, FS_EmptySet, BoundsAssumption DEF BudgetOK

(* The session is told of no more claims than the budget, or, with calls   *)
(* side by side, of no more than the calls besides one above it.           *)
THEOREM BudgetIsKept == Spec => []BudgetHolds
<1>1. Typed /\ BudgetOK => BudgetHolds
  <2> SUFFICES ASSUME Typed, BudgetOK PROVE BudgetHolds  OBVIOUS
  <2>1. CASE backend = "api"  BY <2>1 DEF BudgetOK, BudgetHolds
  <2>2. CASE backend # "api"
    <3>1. Cardinality(Pending) \in Nat  BY Counts DEF Pending
    <3> QED
      BY <2>2, <3>1, Counts, BoundsAssumption DEF BudgetOK, BudgetHolds, Typed, TypeOK
  <2> QED  BY <2>1, <2>2
<1>2. Typed /\ BudgetOK /\ [Next]_vars => BudgetOK'  BY BudgetStep
<1>3. Init => BudgetOK  BY BudgetInit
<1> QED  BY <1>1, <1>2, <1>3, TypedHolds, PTL DEF Spec

-----------------------------------------------------------------------------
(* The replies: how often the note of update n may be in a description.    *)
Count(q, n) == Cardinality({i \in DOMAIN q : q[i] = <<"human", n>>})

Handled == sent - Len(inbox)

Allowed(n) == IF n <= Handled THEN 1 + deaths
              ELSE IF n = Handled + 1 THEN IF tg = "ack" THEN 1 + deaths ELSE deaths
              ELSE 0

Within(q) == \A n \in 1..MaxUpdates : Count(q, n) <= Allowed(n)

(* The updates of the inbox are the last ones sent, in order.              *)
QueueOK ==
  /\ Len(inbox) <= sent
  /\ \A i \in 1..Len(inbox) : inbox[i].n = Handled + i

RepliesOK ==
  /\ QueueOK
  /\ \A t \in Tasks : Within(notes[t])
  /\ \A c \in Slots : Within(body[c])
  /\ tg = "patch" => \A n \in 1..MaxUpdates :
                       Count(tgBody, n) <= IF n = Handled + 1 THEN 1 + deaths ELSE Allowed(n)

LEMMA CountType == ASSUME NEW S, NEW q \in Seq(S), NEW n PROVE Count(q, n) \in Nat
<1> DEFINE P == {i \in DOMAIN q : q[i] = <<"human", n>>}
<1>1. IsFiniteSet(1..Len(q)) /\ P \subseteq 1..Len(q)
  <2>1. Len(q) \in Nat /\ DOMAIN q = 1..Len(q)  OBVIOUS
  <2> QED  BY <2>1, FS_Interval
<1>2. IsFiniteSet(P)  BY <1>1, FS_Subset
<1> QED  BY <1>2, FS_CardinalityType DEF Count

LEMMA CountAppend ==
  ASSUME NEW S, NEW q \in Seq(S), NEW e \in S, NEW n
  PROVE  Count(Append(q, e), n) = IF e = <<"human", n>> THEN Count(q, n) + 1 ELSE Count(q, n)
<1> DEFINE P == {i \in DOMAIN q : q[i] = <<"human", n>>}
           Q == {i \in DOMAIN Append(q, e) : Append(q, e)[i] = <<"human", n>>}
<1>1. IsFiniteSet(1..Len(q)) /\ P \subseteq 1..Len(q)
  <2>1. Len(q) \in Nat /\ DOMAIN q = 1..Len(q)  OBVIOUS
  <2> QED  BY <2>1, FS_Interval
<1>2. IsFiniteSet(P)  BY <1>1, FS_Subset
<1>3. /\ DOMAIN Append(q, e) = DOMAIN q \cup {Len(q) + 1}
      /\ \A i \in DOMAIN q : Append(q, e)[i] = q[i]
      /\ Append(q, e)[Len(q) + 1] = e
      /\ Len(q) + 1 \notin P
  OBVIOUS
<1>4. CASE e = <<"human", n>>
  <2>1. Q = P \cup {Len(q) + 1}  BY <1>3, <1>4
  <2>2. Cardinality(Q) = Cardinality(P) + 1  BY <1>2, <1>3, <2>1, FS_AddElement
  <2> QED  BY <1>4, <2>2 DEF Count
<1>5. CASE e # <<"human", n>>
  <2>1. Q = P  BY <1>3, <1>5
  <2> QED  BY <1>5, <2>1 DEF Count
<1> QED  BY <1>4, <1>5

LEMMA CountNone == ASSUME NEW n PROVE Count(<<>>, n) = 0
<1>1. {i \in DOMAIN <<>> : <<>>[i] = <<"human", n>>} = {}  OBVIOUS
<1> QED  BY <1>1, FS_EmptySet DEF Count

LEMMA CountOther ==
  ASSUME NEW e, NEW n, e # <<"human", n>> PROVE Count(<<e>>, n) = 0
<1>1. {i \in DOMAIN <<e>> : <<e>>[i] = <<"human", n>>} = {}  OBVIOUS
<1> QED  BY <1>1, FS_EmptySet DEF Count

LEMMA Numbers ==
  ASSUME Typed, QueueOK
  PROVE  /\ sent \in Nat /\ deaths \in Nat /\ Len(inbox) \in Nat /\ Handled \in Nat
         /\ \A n \in 1..MaxUpdates : Allowed(n) \in Nat
BY BoundsAssumption DEF Typed, TypeOK, QueueOK, Handled, Allowed

(* Steps that leave the adapter alone.                                     *)
LEMMA RepliesApart ==
  ASSUME RepliesOK, UNCHANGED <<inbox, tg, tgBody, sent, deaths>>,
         \A t \in Tasks : Within(notes'[t]), \A c \in Slots : Within(body'[c])
  PROVE  RepliesOK'
<1>1. Handled' = Handled /\ \A n \in 1..MaxUpdates : Allowed(n)' = Allowed(n)
  BY DEF Handled, Allowed
<1>2. QueueOK'  BY <1>1 DEF RepliesOK, QueueOK
<1>3. /\ \A t \in Tasks : Within(notes[t])'
      /\ \A c \in Slots : Within(body[c])'
  BY <1>1 DEF Within
<1> QED  BY <1>1, <1>2, <1>3 DEF RepliesOK

(* Steps of the adapter that write no description.                         *)
LEMMA RepliesGrow ==
  ASSUME Typed, RepliesOK, QueueOK', tg' # "patch", UNCHANGED <<notes, body>>,
         \A n \in 1..MaxUpdates : Allowed(n)' \in Nat /\ Allowed(n) <= Allowed(n)'
  PROVE  RepliesOK'
<1>1. \A n \in 1..MaxUpdates : Allowed(n) \in Nat /\ Allowed(n)' \in Nat
  BY Numbers DEF RepliesOK
<1>2. ASSUME NEW t \in Tasks PROVE Within(notes[t])'
  <2>1. \A n \in 1..MaxUpdates : Count(notes[t], n) \in Nat  BY CountType DEF Typed, TypeOK
  <2> QED  BY <1>1, <2>1 DEF RepliesOK, Within
<1>3. ASSUME NEW c \in Slots PROVE Within(body[c])'
  <2>1. \A n \in 1..MaxUpdates : Count(body[c], n) \in Nat  BY CountType DEF Typed, TypeOK
  <2> QED  BY <1>1, <2>1 DEF RepliesOK, Within
<1> QED  BY <1>2, <1>3 DEF RepliesOK

LEMMA RepliesTool == ASSUME Typed, RepliesOK, NEW c \in Slots, Tool(c) PROVE RepliesOK'
<1> USE DEF board, session, call, telegram, history
<1>t. TypeOK  BY DEF Typed
<1>o. \A t \in Tasks : Within(notes[t])  BY DEF RepliesOK
<1>b. \A d \in Slots : Within(body[d])  BY DEF RepliesOK
<1>e. Within(<<>>)
  BY CountNone, Numbers DEF Within, RepliesOK
<1>n. \A n : NewNote(c) # <<"human", n>>  BY DEF NewNote, Who
<1>r. Return(c) => \A d \in Slots : Within(body'[d])
  <2>1. ASSUME Return(c), NEW d \in Slots PROVE body'[d] = body[d] \/ body'[d] = <<>>
    BY <1>t, <2>1 DEF Return, TypeOK
  <2> QED  BY <1>b, <1>e, <2>1
<1>1. CASE ClaimSend(c) \/ \E ts \in SUBSET Tasks, s \in Settable : CreateTasks(c, ts, s)
  BY <1>1, <1>o, <1>b, RepliesApart DEF ClaimSend, CreateTasks
<1>2. CASE ClaimFails(c) \/ FinishFails(c) \/ \E t \in Tasks, a \in BOOLEAN : ClaimLand(c, t, a)
  <2>1. Return(c) /\ UNCHANGED <<notes, inbox, tg, tgBody, sent, deaths>>
    BY <1>2 DEF ClaimFails, FinishFails, ClaimLand
  <2> QED  BY <1>o, <1>r, <2>1, RepliesApart
<1>3. ASSUME NEW t \in Tasks, FinishGet(c, t) PROVE RepliesOK'
  <2> DEFINE q == Append(notes[t], NewNote(c))
  <2>1. /\ UNCHANGED <<notes, inbox, tg, tgBody, sent, deaths>> /\ MayCall(c)
        /\ body' = [body EXCEPT ![c] = q]
    BY <1>3 DEF FinishGet, WithNote
  <2>2. Within(q)
    <3>1. notes[t] \in Seq(Note) /\ NewNote(c) \in Note  BY <1>t, <2>1, CallType DEF TypeOK
    <3>2. \A n \in 1..MaxUpdates : Count(q, n) = Count(notes[t], n)  BY <1>n, <3>1, CountAppend
    <3> QED  BY <1>o, <3>2 DEF Within
  <2> HIDE DEF q
  <2>3. \A d \in Slots : body'[d] = body[d] \/ body'[d] = q  BY <1>t, <2>1 DEF TypeOK
  <2> QED  BY <1>o, <1>b, <2>1, <2>2, <2>3, RepliesApart
<1>4. ASSUME NEW t \in Tasks, NEW answered \in BOOLEAN, FinishLand(c, t, answered)
      PROVE  RepliesOK'
  <2>1. /\ Return(c) /\ UNCHANGED <<inbox, tg, tgBody, sent, deaths>>
        /\ notes' = [notes EXCEPT ![t] = body[c]]
    BY <1>4 DEF FinishLand, WriteNotes
  <2>2. \A u \in Tasks : notes'[u] = notes[u] \/ notes'[u] = body[c]  BY <1>t, <2>1 DEF TypeOK
  <2> QED  BY <1>o, <1>b, <1>r, <2>1, <2>2, RepliesApart
<1>5. ASSUME NEW t \in Tasks, NEW s \in Settable, NEW rewrite \in BOOLEAN,
             UpdateTask(c, t, s, rewrite)
      PROVE  RepliesOK'
  <2>1. /\ UNCHANGED <<body, inbox, tg, tgBody, sent, deaths>>
        /\ notes' = notes \/ notes' = [notes EXCEPT ![t] = <<NewNote(c)>>]
    BY <1>5 DEF UpdateTask, WriteNotes
  <2>2. Within(<<NewNote(c)>>)
    BY <1>n, CountOther, Numbers DEF Within, RepliesOK
  <2>3. \A u \in Tasks : notes'[u] = notes[u] \/ notes'[u] = <<NewNote(c)>>
    BY <1>t, <2>1 DEF TypeOK
  <2> QED  BY <1>o, <1>b, <2>1, <2>2, <2>3, RepliesApart
<1> QED  BY <1>1, <1>2, <1>3, <1>4, <1>5 DEF Tool, CreateTask, IngestContext

LEMMA RepliesAdapter == ASSUME Typed, RepliesOK, Adapter PROVE RepliesOK'
<1> USE DEF board, session, call, telegram, history
<1>t. TypeOK /\ QueueOK  BY DEF Typed, RepliesOK
<1>n. /\ sent \in Nat /\ deaths \in Nat /\ Len(inbox) \in Nat /\ Handled \in Nat
      /\ MaxUpdates \in Nat
  BY <1>t, Numbers, BoundsAssumption
<1>1. CASE \/ \E reached \in BOOLEAN : Press(reached)
           \/ AdapterDies
           \/ \E reached \in BOOLEAN : ReplyGet(reached) /\ ~reached
  <2>1. /\ UNCHANGED <<notes, body, inbox, sent>> /\ tg' # "patch"
        /\ \/ deaths' = deaths /\ tg # "ack"
           \/ deaths' = deaths + 1
    BY <1>1 DEF Press, ReplyGet, AdapterDies, Handling
  <2>2. Handled' = Handled /\ QueueOK'  BY <1>t, <2>1 DEF Handled, QueueOK
  <2>3. \A n \in 1..MaxUpdates : Allowed(n)' \in Nat /\ Allowed(n) <= Allowed(n)'
    BY <1>n, <2>1, <2>2 DEF Allowed
  <2> QED  BY <2>1, <2>2, <2>3, RepliesGrow
<1>2. CASE WriteOffset
  <2>1. /\ UNCHANGED <<notes, body, sent, deaths>> /\ tg' = "idle" /\ inbox' = Tail(inbox)
        /\ inbox # <<>> /\ inbox \in Seq(Update)
    BY <1>2 DEF WriteOffset, Typed, TypeOK, InboxOK
  <2>2. /\ Len(inbox') = Len(inbox) - 1
        /\ \A i \in 1..Len(inbox') : inbox'[i] = inbox[i + 1] /\ i + 1 \in 1..Len(inbox)
    BY <2>1
  <2>3. Handled' = Handled + 1  BY <1>n, <2>1, <2>2 DEF Handled
  <2>4. QueueOK'
    <3>1. Len(inbox') <= sent'  BY <1>t, <1>n, <2>1, <2>2 DEF QueueOK
    <3>2. ASSUME NEW i \in 1..Len(inbox') PROVE inbox'[i].n = Handled' + i
      <4>1. inbox'[i].n = Handled + (i + 1)  BY <1>t, <2>2 DEF QueueOK
      <4> QED  BY <1>n, <2>3, <4>1
    <3> QED  BY <3>1, <3>2 DEF QueueOK
  <2>5. \A n \in 1..MaxUpdates : Allowed(n)' \in Nat /\ Allowed(n) <= Allowed(n)'
    BY <1>n, <2>1, <2>3 DEF Allowed
  <2> QED  BY <2>1, <2>4, <2>5, RepliesGrow
<1>3. CASE ReplyGet(TRUE)
  <2>1. /\ UNCHANGED <<notes, body, inbox, sent, deaths>> /\ tg = "idle" /\ tg' = "patch"
        /\ inbox # <<>>
        /\ tgBody' = Append(notes[Head(inbox).task], <<"human", Head(inbox).n>>)
    BY <1>3 DEF ReplyGet, Handling, WithNote
  <2>2. PICK t \in Tasks : t = Head(inbox).task  BY <2>1, Current
  <2>3. <<"human", Head(inbox).n>> \in Note /\ Head(inbox).n = Handled + 1
    <3>1. inbox \in Seq(Update) /\ 1 \in 1..Len(inbox) /\ Head(inbox) = inbox[1]
      BY <1>t, <2>1 DEF TypeOK
    <3> QED  BY <1>t, <2>1, <3>1, Current DEF QueueOK
  <2>4. Handled' = Handled /\ QueueOK'  BY <1>t, <2>1 DEF Handled, QueueOK
  <2>5. \A n \in 1..MaxUpdates : Allowed(n)' = Allowed(n)  BY <2>1, <2>4 DEF Allowed
  <2>6. /\ \A u \in Tasks : Within(notes[u])'
        /\ \A c \in Slots : Within(body[c])'
    BY <2>1, <2>5 DEF RepliesOK, Within
  <2>7. ASSUME NEW n \in 1..MaxUpdates
        PROVE  Count(tgBody', n) <= IF n = Handled' + 1 THEN 1 + deaths' ELSE Allowed(n)'
    <3>1. notes[t] \in Seq(Note)  BY <1>t DEF TypeOK
    <3>2. Count(notes[t], n) \in Nat /\ Count(notes[t], n) <= Allowed(n)
      BY <3>1, CountType DEF RepliesOK, Within
    <3>3. CASE n = Handled + 1
      <4>1. Count(tgBody', n) = Count(notes[t], n) + 1
        BY <2>1, <2>2, <2>3, <3>1, <3>3, CountAppend
      <4>2. Allowed(n) = deaths  BY <1>n, <2>1, <3>3 DEF Allowed
      <4> QED  BY <1>n, <2>1, <2>4, <3>2, <3>3, <4>1, <4>2
    <3>4. CASE n # Handled + 1
      <4>1. Count(tgBody', n) = Count(notes[t], n)
        BY <2>1, <2>2, <2>3, <3>1, <3>4, CountAppend
      <4> QED  BY <2>4, <2>5, <3>2, <3>4, <4>1
    <3> QED  BY <3>3, <3>4
  <2> QED  BY <2>1, <2>4, <2>6, <2>7 DEF RepliesOK
<1>4. ASSUME NEW reached \in BOOLEAN, ReplyPatch(reached) PROVE RepliesOK'
  <2>1. /\ UNCHANGED <<body, inbox, sent, deaths>> /\ tg = "patch" /\ tg' = "ack"
        /\ notes' = notes \/ notes' = [notes EXCEPT ![Head(inbox).task] = tgBody]
    BY <1>4 DEF ReplyPatch, WriteNotes
  <2>2. Handled' = Handled /\ QueueOK'  BY <1>t, <2>1 DEF Handled, QueueOK
  <2>3. ASSUME NEW n \in 1..MaxUpdates
        PROVE  /\ Allowed(n) \in Nat /\ Allowed(n)' \in Nat /\ Allowed(n) <= Allowed(n)'
               /\ n = Handled + 1 => Allowed(n)' = 1 + deaths
    BY <1>n, <2>1, <2>2 DEF Allowed
  <2>4. ASSUME NEW u \in Tasks, NEW n \in 1..MaxUpdates PROVE Count(notes'[u], n) <= Allowed(n)'
    <3>1. notes'[u] = notes[u] \/ notes'[u] = tgBody  BY <1>t, <2>1 DEF TypeOK
    <3>2. Count(notes[u], n) \in Nat /\ Count(tgBody, n) \in Nat
      BY <1>t, CountType DEF TypeOK
    <3>3. Count(notes[u], n) <= Allowed(n)  BY DEF RepliesOK, Within
    <3>4. Count(tgBody, n) <= IF n = Handled + 1 THEN 1 + deaths ELSE Allowed(n)
      BY <2>1 DEF RepliesOK
    <3>5. Count(notes[u], n) <= Allowed(n)' /\ Count(tgBody, n) <= Allowed(n)'
      BY <2>3, <3>2, <3>3, <3>4
    <3> QED  BY <3>1, <3>5
  <2>5. ASSUME NEW c \in Slots, NEW n \in 1..MaxUpdates PROVE Count(body'[c], n) <= Allowed(n)'
    <3>1. Count(body[c], n) \in Nat  BY <1>t, CountType DEF TypeOK
    <3>2. Count(body[c], n) <= Allowed(n)  BY DEF RepliesOK, Within
    <3> QED  BY <2>1, <2>3, <3>1, <3>2
  <2>6. /\ \A u \in Tasks : Within(notes[u])'
        /\ \A c \in Slots : Within(body[c])'
    BY <2>4, <2>5 DEF Within
  <2> QED  BY <2>1, <2>2, <2>6 DEF RepliesOK
<1> QED  BY <1>1, <1>2, <1>3, <1>4 DEF Adapter, Reaches

LEMMA RepliesHuman == ASSUME Typed, RepliesOK, Human PROVE RepliesOK'
<1> USE DEF board, session, call, telegram, history
<1>1. PICK act \in Acts, t \in Tasks : HumanSends(act[1], t, act[2])  BY DEF Human
<1> DEFINE u == [kind |-> act[1], task |-> t, n |-> sent + 1, action |-> act[2]]
<1>2. /\ UNCHANGED <<notes, body, tg, tgBody, deaths>>
      /\ inbox' = Append(inbox, u) /\ sent' = sent + 1
  BY <1>1 DEF HumanSends
<1>3. u.n = sent + 1  OBVIOUS
<1>4. QueueOK /\ sent \in Nat /\ Len(inbox) \in Nat /\ inbox \in Seq(Update)
  BY Numbers DEF RepliesOK, Typed, TypeOK
<1>5. u \in Update
  <2>1. /\ act[1] \in {"press", "reply"} /\ act[2] \in {"done", "rework", "block", "comment"}
        /\ sent + 1 \in 1..MaxUpdates
    BY <1>1, InputsAssumption, BoundsAssumption DEF HumanSends, Typed, TypeOK
  <2> QED  BY <2>1 DEF Update
<1> HIDE DEF u
<1>6. /\ Len(inbox') = Len(inbox) + 1 /\ inbox'[Len(inbox) + 1] = u
      /\ \A i \in 1..Len(inbox) : inbox'[i] = inbox[i]
  BY <1>2, <1>4, <1>5
<1>7. Handled' = Handled  BY <1>2, <1>4, <1>6 DEF Handled
<1>8. QueueOK'
  <2>1. Len(inbox') <= sent'  BY <1>2, <1>4, <1>6 DEF QueueOK
  <2>2. ASSUME NEW i \in 1..Len(inbox') PROVE inbox'[i].n = Handled' + i
    <3>1. CASE i = Len(inbox) + 1  BY <1>3, <1>4, <1>6, <1>7, <3>1 DEF Handled
    <3>2. CASE i # Len(inbox) + 1
      <4>1. i \in 1..Len(inbox)  BY <1>4, <1>6, <3>2
      <4> QED  BY <1>4, <1>6, <1>7, <4>1 DEF QueueOK
    <3> QED  BY <3>1, <3>2
  <2> QED  BY <2>1, <2>2 DEF QueueOK
<1>9. \A n \in 1..MaxUpdates : Allowed(n)' = Allowed(n)  BY <1>2, <1>7 DEF Allowed
<1> QED  BY <1>2, <1>7, <1>8, <1>9 DEF RepliesOK, Within

LEMMA RepliesStep == ASSUME Typed, RepliesOK, [Next]_vars PROVE RepliesOK'
<1> USE DEF board, session, call, telegram, history
<1>1. CASE UNCHANGED vars \/ Run
  <2>1. UNCHANGED <<notes, body, inbox, tg, tgBody, sent, deaths>>
    <3>1. CASE UNCHANGED vars  BY <3>1 DEF vars
    <3>2. CASE Run  BY <3>2 DEF Run, Start, Skip, ApiEnd, ApiRaise, ClaudeEnd, ClaudeReport
    <3> QED  BY <1>1, <3>1, <3>2
  <2>2. /\ \A t \in Tasks : Within(notes'[t])
        /\ \A c \in Slots : Within(body'[c])
    BY <2>1 DEF RepliesOK
  <2> QED  BY <2>1, <2>2, RepliesApart
<1> QED  BY <1>1, RepliesTool, RepliesAdapter, RepliesHuman DEF Next

LEMMA RepliesInit == ASSUME Init PROVE RepliesOK
<1>1. QueueOK  BY DEF Init, QueueOK, Handled
<1>2. Typed  BY TypeInit
<1>3. Within(<<>>)  BY <1>1, <1>2, CountNone, Numbers DEF Within
<1>4. \A t \in Tasks : notes[t] = <<>>  BY DEF Init
<1>5. \A c \in Slots : body[c] = <<>>  BY DEF Init
<1>6. tg # "patch"  BY DEF Init
<1> QED  BY <1>1, <1>3, <1>4, <1>5, <1>6 DEF RepliesOK

(* A reply is in a description as often as the adapter came to handle it:  *)
(* once, and once more for every death of the adapter.                     *)
THEOREM RepliesAreNotRepeated == Spec => []RepliedOnce
<1>1. Typed /\ RepliesOK => RepliedOnce
  <2> SUFFICES ASSUME Typed, RepliesOK, NEW t \in Tasks, NEW n \in 1..MaxUpdates
               PROVE  Count(notes[t], n) <= 1 + deaths
    BY DEF RepliedOnce, Count
  <2>1. Count(notes[t], n) \in Nat /\ deaths \in Nat /\ Handled \in Nat
    BY CountType, Numbers DEF RepliesOK, Typed, TypeOK
  <2>2. Count(notes[t], n) <= Allowed(n)  BY DEF RepliesOK, Within
  <2> QED  BY <2>1, <2>2 DEF Allowed
<1>2. Typed /\ RepliesOK /\ [Next]_vars => RepliesOK'  BY RepliesStep
<1>3. Init => RepliesOK  BY RepliesInit
<1> QED  BY <1>1, <1>2, <1>3, TypedHolds, PTL DEF Spec
=============================================================================
