---------------------------- MODULE Rounds_proofs ----------------------------
(***************************************************************************)
(* Theorems about Rounds, for any board, any number of triage sessions and *)
(* any clock. Each property has its own invariant over a few variables;    *)
(* steps that touch none of them are dismissed together.                   *)
(***************************************************************************)
EXTENDS Rounds, History_proofs

-----------------------------------------------------------------------------
(* Types.                                                                  *)
LEMMA TimesAreNat == Times \subseteq Nat /\ MaxTime \in Nat /\ Day \in Nat \ {0}
BY TimesAssumption, RoundsAssumption DEF Times

LEMMA LeftType == ASSUME NEW n \in Int PROVE Left(n) \in 1..Day
BY TimesAssumption, RoundsAssumption DEF Left

LEMMA NapType == ASSUME NEW n \in Times PROVE n + Nap(n) \in Nat /\ Nap(n) <= Left(n)
BY LeftType, TimesAreNat, RoundsAssumption DEF Nap

LEMMA RowTypes ==
  ASSUME NEW r \in Row
  PROVE  /\ r = [status |-> r.status, assignee |-> r.assignee, priority |-> r.priority,
                 due |-> r.due, remind |-> r.remind, sent |-> r.sent, shown |-> r.shown]
         /\ r.status \in Statuses /\ r.assignee \in Assignees /\ r.priority \in 1..5
         /\ r.due \in Times \cup {Never} /\ r.remind \in Times \cup {Never}
         /\ r.sent \in 0..MaxTime /\ r.shown \in 0..MaxTime
BY DEF Row

(* What writes do to a row.                                                *)
LEMMA Restamped ==
  ASSUME NEW r \in Row, NEW x \in 0..MaxTime
  PROVE  /\ [r EXCEPT !.sent = x] \in Row /\ [r EXCEPT !.shown = x] \in Row
BY DEF Row

LEMMA Restatused ==
  ASSUME NEW r \in Row, NEW s \in Statuses
  PROVE  [r EXCEPT !.status = s] \in Row
BY DEF Row

LEMMA TypeInit == ASSUME Init PROVE TypeOK
<1>1. setup \in Installations /\ task \in [Tasks -> Row]
  BY RoundsAssumption DEF Init
<1>2. 1 \in Times  BY RoundsAssumption DEF Times
<1>3. 1 + Nap(1) \in Nat /\ -Day \in Int  BY <1>2, NapType, TimesAreNat
<1>4. HistoryTypeOK  BY HistoryBegins DEF Init, HInv
<1>5. /\ setup \in Installations /\ task \in [Tasks -> Row] /\ HistoryTypeOK
      /\ now \in Times /\ moves \in 0..MaxMoves /\ faults \in 0..MaxFaults
      /\ wake \in Nat /\ looked \in Times /\ ran \in Int
  BY <1>1, <1>2, <1>3, <1>4, RoundsAssumption DEF Init
<1>6. /\ {current, listed, slisted} \subseteq 0..MaxTime
      /\ {situation, written, worked} \subseteq 0..MaxTime
      /\ {hindered, reran} \subseteq BOOLEAN
      /\ asked \in [Triagers -> 0..MaxTime] /\ batch \in [Triagers -> SUBSET Tasks]
      /\ told \in [Tasks -> 0..MaxTime] /\ card \in [Tasks -> 0..MaxTime]
  <2>1. 0 \in 0..MaxTime  BY TimesAreNat
  <2>2. asked = [s \in Triagers |-> 0] /\ told = [t \in Tasks |-> 0] /\ card = [t \in Tasks |-> 0]
    BY DEF Init
  <2>3. batch \in [Triagers -> SUBSET Tasks]  BY DEF Init
  <2>4. /\ {current, listed, slisted} \subseteq 0..MaxTime
        /\ {situation, written, worked} \subseteq 0..MaxTime
    BY <2>1 DEF Init
  <2>5. hindered \in BOOLEAN /\ reran \in BOOLEAN  BY DEF Init
  <2> QED  BY <2>1, <2>2, <2>3, <2>4, <2>5
<1> QED  BY <1>5, <1>6 DEF Init, TypeOK

LEMMA TypeTick == ASSUME TypeOK, Tick PROVE TypeOK'
<1>1. now + 1 \in Times  BY RoundsAssumption DEF Tick, TypeOK, Times
<1> QED
  BY <1>1 DEF Tick, TypeOK, clock, board, watch, script, triage, ritual, reminding, telling,
       showing, history, HistoryTypeOK

LEMMA SendsType ==
  ASSUME TypeOK, NEW outcome \in Outcomes, Sends(outcome)
  PROVE  now' = now /\ moves' = moves /\ setup' = setup /\ faults' \in 0..MaxFaults
BY RoundsAssumption DEF Sends, Faulty, TypeOK, clock

LEMMA FaultyType ==
  ASSUME TypeOK, Faulty
  PROVE  now' = now /\ moves' = moves /\ setup' = setup /\ faults' \in 0..MaxFaults
BY RoundsAssumption DEF Faulty, TypeOK

LEMMA TypeWatch == ASSUME TypeOK, Watch PROVE TypeOK'
<1> USE DEF board, watch, script, triage, ritual, reminding, telling, showing, history,
            HistoryTypeOK
<1>a. now \in 0..MaxTime /\ current \in 0..MaxTime /\ 0 \in 0..MaxTime
  BY TimesAreNat DEF TypeOK, Times
<1>b. ASSUME NEW t \in Tasks, Stamp(t, current)
      PROVE  task' \in [Tasks -> Row] /\ UNCHANGED <<announced, blinked>>
  BY <1>a, <1>b, Restamped DEF Stamp, TypeOK
<1>1. CASE WatchList  BY <1>1, <1>a DEF WatchList, InReview, TypeOK, clock
<1>2. CASE WatchDue  BY <1>2, <1>a DEF WatchDue, Due, TypeOK, clock
<1>3. CASE WatchStamp
  <2>1. PICK t \in Tasks : Stamp(t, current)
    BY <1>3 DEF WatchStamp, TypeOK, StampTime
  <2> QED  BY <1>3, <2>1, <1>b DEF WatchStamp, StampTime, TypeOK, clock
<1>4. CASE WatchPlan  BY <1>4 DEF WatchPlan, Plan, TypeOK, clock
<1>5. CASE WatchKeep  BY <1>5 DEF WatchKeep, TypeOK, clock
<1>6. CASE WatchSave  BY <1>6, <1>a DEF WatchSave, Asleep, TypeOK, clock
<1>7. CASE TickFails
  <2>1. task' \in [Tasks -> Row] /\ UNCHANGED <<announced, blinked>>
    BY <1>7, <1>b DEF TickFails, StampTime, TypeOK
  <2> QED  BY <1>7, <2>1, <1>a, FaultyType DEF TickFails, Asleep, TypeOK
<1>8. CASE WatchDies
  BY <1>8, <1>a, FaultyType DEF WatchDies, Asleep, TypeOK
<1>9. ASSUME NEW t \in Tasks, NEW outcome \in Outcomes, WatchRemind(t, outcome)
      PROVE  TypeOK'
  <2>1. told' \in [Tasks -> 0..MaxTime] /\ again' \subseteq Tasks
    BY <1>9 DEF WatchRemind, Deliver, TypeOK
  <2> QED  BY <1>9, <2>1, SendsType DEF WatchRemind, TypeOK
<1>10. ASSUME NEW t \in Tasks, NEW outcome \in Outcomes, WatchAnnounce(t, outcome)
       PROVE  TypeOK'
  BY <1>10, SendsType DEF WatchAnnounce, Remember, TypeOK
<1> QED  BY <1>1, <1>2, <1>3, <1>4, <1>5, <1>6, <1>7, <1>8, <1>9, <1>10 DEF Watch

LEMMA TypeScript == ASSUME TypeOK, Script PROVE TypeOK'
<1> USE DEF board, watch, script, triage, ritual, reminding, telling, showing, history,
            HistoryTypeOK
<1>a. now \in 0..MaxTime /\ 0 \in 0..MaxTime
  BY TimesAreNat DEF TypeOK, Times
<1>1. CASE ScriptList  BY <1>1, <1>a DEF ScriptList, Due, TypeOK, clock
<1>2. CASE ScriptStamp
  <2>1. task' \in [Tasks -> Row] /\ UNCHANGED <<announced, blinked>>
    <3>1. PICK t \in Tasks : Stamp(t, now)  BY <1>2 DEF ScriptStamp, TypeOK
    <3>2. [task[t] EXCEPT !.sent = now] \in Row  BY <1>a, Restamped DEF TypeOK
    <3> QED  BY <3>1, <3>2 DEF Stamp, TypeOK
  <2> QED  BY <1>2, <2>1, <1>a DEF ScriptStamp, ScriptRest, TypeOK, clock
<1>3. CASE ScriptStops  BY <1>3, <1>a, FaultyType DEF ScriptStops, TypeOK
<1>4. ASSUME NEW t \in Tasks, NEW outcome \in Outcomes, ScriptNotify(t, outcome)
      PROVE  TypeOK'
  <2>1. told' \in [Tasks -> 0..MaxTime] /\ again' \subseteq Tasks
    BY <1>4 DEF ScriptNotify, Deliver, TypeOK
  <2> QED  BY <1>4, <2>1, SendsType DEF ScriptNotify, TypeOK
<1> QED  BY <1>1, <1>2, <1>3, <1>4 DEF Script

LEMMA TypeWrite ==
  ASSUME TypeOK, NEW t \in Tasks, NEW r \in Row, Write(t, r)
  PROVE  task' \in [Tasks -> Row] /\ announced' \subseteq Tasks /\ blinked' \subseteq Tasks
BY DEF Write, TypeOK

LEMMA ResolvedType ==
  ASSUME TypeOK, NEW row \in Row, NEW r \in Resolutions,
         now + r.due <= MaxTime, now + r.remind <= MaxTime
  PROVE  /\ Resolved(row, r) \in Row
         /\ Resolved(row, r).sent = row.sent /\ Resolved(row, r).shown = row.shown
         /\ \A x \in Targets(Resolved(row, r)) : x \in Targets(row) \/ now < x
<1>1. /\ r.status \in Statuses \cup {Unset} /\ r.assignee \in Assignees \cup {Unset}
      /\ r.priority \in 0..5 /\ r.due \in 0..MaxTime /\ r.remind \in 0..MaxTime
  BY RoundsAssumption DEF Resolution
<1>2. now \in Times  BY DEF TypeOK
<1> DEFINE s == Field(Field(ForcedStatus(r.action), Field(r.status, Unset)), row.status)
           a == Field(r.assignee, row.assignee)
           p == IF r.priority = 0 THEN row.priority ELSE r.priority
           d == Target(r.due, row.due)
           e == Target(r.remind, row.remind)
<1>3. s \in Statuses  BY <1>1, RowTypes DEF Field, ForcedStatus, Statuses, Unset
<1>4. a \in Assignees /\ p \in 1..5  BY <1>1, RowTypes DEF Field
<1>5. /\ d \in Times \cup {Never} /\ (d = row.due \/ now < d)
      /\ e \in Times \cup {Never} /\ (e = row.remind \/ now < e)
  <2>1. ASSUME NEW k \in 0..MaxTime, NEW old \in Times \cup {Never}, now + k <= MaxTime
        PROVE  Target(k, old) \in Times \cup {Never} /\ (Target(k, old) = old \/ now < Target(k, old))
    <3>1. now \in Nat /\ 1 <= now /\ k \in Nat  BY <1>2, TimesAreNat DEF Times
    <3>2. CASE k = 0  BY <3>2 DEF Target
    <3>3. CASE k # 0  BY <2>1, <3>1, <3>3, TimesAreNat DEF Target, Times
    <3> QED  BY <3>2, <3>3
  <2>2. row.due \in Times \cup {Never} /\ row.remind \in Times \cup {Never}  BY RowTypes
  <2> HIDE DEF d, e
  <2>3. d = Target(r.due, row.due) /\ e = Target(r.remind, row.remind)  BY DEF d, e
  <2> QED  BY <1>1, <2>1, <2>2, <2>3
<1>6. Resolved(row, r) = [status |-> s, assignee |-> a, priority |-> p, due |-> d, remind |-> e,
                          sent |-> row.sent, shown |-> row.shown]
  BY DEF Resolved
<1> HIDE DEF s, a, p, d, e
<1>7. Resolved(row, r) \in Row  BY <1>3, <1>4, <1>5, <1>6, RowTypes DEF Row
<1>8. \A x \in Targets(Resolved(row, r)) : x \in Targets(row) \/ now < x
  BY <1>5, <1>6 DEF Targets
<1> QED  BY <1>6, <1>7, <1>8

LEMMA TypeMove ==
  ASSUME TypeOK, NEW t \in Tasks, NEW s \in MovedTo, Move(t, s)
  PROVE  TypeOK'
<1>1. [task[t] EXCEPT !.status = s] \in Row  BY Restatused, RoundsAssumption DEF TypeOK
<1>2. task' \in [Tasks -> Row] /\ announced' \subseteq Tasks /\ blinked' \subseteq Tasks
  BY <1>1, TypeWrite DEF Move
<1>3. moves' \in 0..MaxMoves  BY RoundsAssumption DEF Move, TypeOK
<1> QED
  BY <1>2, <1>3 DEF Move, TypeOK, watch, script, triage, ritual, reminding, telling, showing,
       history, HistoryTypeOK

(* What a resolution does to the history.                                  *)
LEMMA ApplyBegins ==
  ASSUME TypeOK, NEW t \in Tasks, NEW r \in Resolutions, TriageApply(t, r)
  PROVE  /\ moves' \in 0..MaxMoves
         /\ UNCHANGED history \/ \E e \in Events, p \in Processes : Begin(e, p)
<1>1. moves' \in 1..MaxMoves  BY RoundsAssumption DEF TriageApply, TypeOK
<1>2. moves' \in Events  BY <1>1, RoundsAssumption
<1> QED  BY <1>1, <1>2 DEF TriageApply

LEMMA TypeTriage == ASSUME TypeOK, HInv, Triage PROVE TypeOK'
<1> USE DEF board, watch, script, ritual, reminding, telling, showing
<1>a. now \in 0..MaxTime /\ 0 \in 0..MaxTime  BY TimesAreNat DEF TypeOK, Times
<1>1. ASSUME NEW s \in Triagers, TriageMark(s) PROVE TypeOK'
  <2>1. asked[s] \in 0..MaxTime /\ batch[s] \subseteq Tasks  BY DEF TypeOK
  <2>2. task' \in [Tasks -> Row]
    <3>1. \A t \in Tasks : [task[t] EXCEPT !.shown = asked[s]] \in Row
      BY <2>1, Restamped DEF TypeOK
    <3> QED  BY <1>1, <3>1 DEF TriageMark, TypeOK
  <2>3. card' \in [Tasks -> 0..MaxTime] /\ repeats' \subseteq Tasks
    BY <1>1, <2>1 DEF TriageMark, TypeOK
  <2> QED  BY <1>1, <2>2, <2>3, <1>a DEF TriageMark, TypeOK, clock, history, HistoryTypeOK
<1>2. ASSUME NEW s \in Triagers, NEW b \in SUBSET Tasks, TriageNext(s, b) PROVE TypeOK'
  BY <1>2, <1>a DEF TriageNext, TypeOK, clock, history, HistoryTypeOK
<1>3. ASSUME NEW t \in Tasks, NEW r \in Resolutions, TriageApply(t, r) PROVE TypeOK'
  <2>1. moves' \in 0..MaxMoves /\ HistoryTypeOK'
    BY <1>3, ApplyBegins, BeginKeeps, HistoryKeeps DEF HInv
  <2>2. Resolved(task[t], r) \in Row  BY <1>3, ResolvedType DEF TriageApply, TypeOK
  <2>3. task' \in [Tasks -> Row] /\ announced' \subseteq Tasks /\ blinked' \subseteq Tasks
    BY <1>3, <2>2, TypeWrite DEF TriageApply
  <2> QED  BY <1>3, <2>1, <2>3 DEF TriageApply, TypeOK, triage
<1> QED  BY <1>1, <1>2, <1>3 DEF Triage

LEMMA TypeRecords == ASSUME TypeOK, HInv, Records PROVE TypeOK'
<1>1. HistoryTypeOK'  BY HistoryKeeps DEF Records, HInv
<1>2. now' = now /\ moves' = moves /\ setup' = setup /\ faults' \in 0..MaxFaults
  BY FaultyType DEF Records, TypeOK, clock
<1> QED
  BY <1>1, <1>2 DEF Records, TypeOK, board, watch, script, triage, ritual, reminding, telling,
       showing

LEMMA SleepsType == ASSUME TypeOK, Sleeps PROVE rpc' = "nap" /\ wake' \in Nat /\ looked' \in Times
BY NapType DEF Sleeps, TypeOK

LEMMA TypeScheduler == ASSUME TypeOK, Scheduler PROVE TypeOK'
<1> USE DEF Others, board, watch, script, triage, reminding, telling, showing, history,
            HistoryTypeOK
<1>a. now \in 0..MaxTime  BY TimesAreNat DEF TypeOK, Times
<1>b. looked \in Int /\ LastTarget(looked) \in Int
  BY LeftType, TimesAreNat DEF LastTarget, TypeOK
<1>1. CASE SchedulerWakes
  <2>1. rpc' \in {"nap", "fetch"} /\ wake' \in Nat /\ looked' \in Times
    BY <1>1, SleepsType DEF SchedulerWakes, TypeOK
  <2>2. reran' \in BOOLEAN /\ hindered' \in BOOLEAN  BY <1>1 DEF SchedulerWakes, TypeOK
  <2> QED  BY <1>1, <2>1, <2>2 DEF SchedulerWakes, TypeOK, clock
<1>2. CASE RitualFetch  BY <1>2, <1>a DEF RitualFetch, TypeOK, clock
<1>3. CASE RitualWorks  BY <1>3, <1>a DEF RitualWorks, AfterWork, TypeOK, clock
<1>4. CASE RitualWrite  BY <1>4 DEF RitualWrite, TypeOK, clock
<1>5. CASE RitualEnds
  <2>1. hindered' \in BOOLEAN /\ ran' \in Int  BY <1>5, <1>b DEF RitualEnds
  <2> QED  BY <1>5, <2>1, SleepsType DEF RitualEnds, TypeOK, clock
<1>6. CASE RitualFails  BY <1>6, SleepsType, FaultyType DEF RitualFails, TypeOK
<1>7. CASE SchedulerDies  BY <1>7, SleepsType, FaultyType DEF SchedulerDies, TypeOK
<1> QED  BY <1>1, <1>2, <1>3, <1>4, <1>5, <1>6, <1>7 DEF Scheduler

LEMMA HistoryStays ==
  ASSUME Tick \/ Watch \/ Script \/ Scheduler \/ UNCHANGED vars
         \/ (\E s \in Triagers : TriageMark(s) \/ \E b \in SUBSET Tasks : TriageNext(s, b))
         \/ (\E t \in Tasks, s \in MovedTo : Move(t, s))
  PROVE  UNCHANGED history
BY DEF Tick, Watch, WatchList, WatchDue, WatchStamp, WatchPlan, WatchKeep, WatchSave, TickFails,
  WatchDies, WatchRemind, WatchAnnounce, Script, ScriptList, ScriptStamp, ScriptStops,
  ScriptNotify, Scheduler, SchedulerWakes, SchedulerDies, RitualFetch, RitualWorks, RitualWrite,
  RitualEnds, RitualFails, TriageMark, TriageNext, Move, Others, vars

LEMMA HistoryStepKeeps == ASSUME TypeOK, HInv, [Next]_vars PROVE HInv'
<1>1. CASE Records  BY <1>1, HistoryKeeps DEF Records
<1>2. ASSUME NEW t \in Tasks, NEW r \in Resolutions, TriageApply(t, r) PROVE HInv'
  BY <1>2, ApplyBegins, BeginKeeps, HistoryKeeps
<1> QED  BY <1>1, <1>2, HistoryStays, HistoryKeeps DEF Next, Triage

LEMMA TypeStep == ASSUME TypeOK, HInv, [Next]_vars PROVE TypeOK'
<1>1. CASE UNCHANGED vars
  BY <1>1 DEF TypeOK, vars, clock, board, watch, script, triage, ritual, reminding, telling,
       showing, history, HistoryTypeOK
<1> QED
  BY <1>1, TypeTick, TypeWatch, TypeScript, TypeTriage, TypeRecords, TypeScheduler, TypeMove
  DEF Next

(* Types and the history: what all that follows rests on.                  *)
Base == TypeOK /\ HInv

LEMMA BaseHolds == Spec => []Base
<1>1. Init => Base  BY TypeInit, HistoryBegins DEF Init, Base
<1>2. Base /\ [Next]_vars => Base'  BY TypeStep, HistoryStepKeeps DEF Base
<1> QED  BY <1>1, <1>2, PTL DEF Spec

(* Every reachable state is well typed.                                    *)
THEOREM TypeCorrect == Spec => []TypeOK
<1>1. Base => TypeOK  BY DEF Base
<1> QED  BY <1>1, BaseHolds, PTL

(* No event is lost without an excuse (history.py:83-135).                 *)
THEOREM EventsAreKept == Spec => []EventsKept
<1>1. Base => EventsKept  BY DEF Base, HInv
<1> QED  BY <1>1, BaseHolds, PTL

-----------------------------------------------------------------------------
(* Effects of steps on the rows.                                           *)
LEMMA StampEffect ==
  ASSUME TypeOK, NEW t \in Tasks, NEW x \in 0..MaxTime, Stamp(t, x)
  PROVE  /\ \A u \in Tasks : /\ Targets(task'[u]) = Targets(task[u])
                             /\ task'[u].status = task[u].status
                             /\ task'[u].shown = task[u].shown
                             /\ task'[u].sent = IF u = t THEN x ELSE task[u].sent
         /\ InReview' = InReview
         /\ UNCHANGED <<announced, blinked>>
<1>1. task \in [Tasks -> Row] /\ task[t] \in Row  BY DEF TypeOK
<1>2. \A u \in Tasks : task'[u] = IF u = t THEN [task[t] EXCEPT !.sent = x] ELSE task[u]
  BY <1>1 DEF Stamp
<1>3. LET r == [task[t] EXCEPT !.sent = x]
      IN r.due = task[t].due /\ r.remind = task[t].remind /\ r.status = task[t].status
         /\ r.shown = task[t].shown /\ r.sent = x
  BY <1>1 DEF Row
<1>4. \A u \in Tasks : /\ Targets(task'[u]) = Targets(task[u])
                       /\ task'[u].status = task[u].status
                       /\ task'[u].shown = task[u].shown
                       /\ task'[u].sent = IF u = t THEN x ELSE task[u].sent
  BY <1>2, <1>3 DEF Targets
<1> QED  BY <1>4 DEF InReview, Stamp

LEMMA MarkEffect ==
  ASSUME TypeOK, NEW s \in Triagers, TriageMark(s)
  PROVE  /\ \A u \in Tasks : /\ Targets(task'[u]) = Targets(task[u])
                             /\ task'[u].status = task[u].status
                             /\ task'[u].sent = task[u].sent
                             /\ task'[u].shown = IF u \in batch[s] THEN asked[s] ELSE task[u].shown
         /\ InReview' = InReview
<1>1. task \in [Tasks -> Row]  BY DEF TypeOK
<1>2. \A u \in Tasks :
        task'[u] = IF u \in batch[s] THEN [task[u] EXCEPT !.shown = asked[s]] ELSE task[u]
  BY DEF TriageMark
<1>3. \A u \in Tasks :
        LET r == [task[u] EXCEPT !.shown = asked[s]]
        IN r.due = task[u].due /\ r.remind = task[u].remind /\ r.status = task[u].status
           /\ r.sent = task[u].sent /\ r.shown = asked[s]
  BY <1>1 DEF Row
<1>4. \A u \in Tasks : /\ Targets(task'[u]) = Targets(task[u])
                       /\ task'[u].status = task[u].status
                       /\ task'[u].sent = task[u].sent
                       /\ task'[u].shown = IF u \in batch[s] THEN asked[s] ELSE task[u].shown
  <2> SUFFICES ASSUME NEW u \in Tasks
               PROVE  /\ Targets(task'[u]) = Targets(task[u])
                      /\ task'[u].status = task[u].status
                      /\ task'[u].sent = task[u].sent
                      /\ task'[u].shown = IF u \in batch[s] THEN asked[s] ELSE task[u].shown
    OBVIOUS
  <2>1. CASE u \in batch[s]
    <3>1. task'[u] = [task[u] EXCEPT !.shown = asked[s]]  BY <1>2, <2>1
    <3>2. /\ task'[u].due = task[u].due /\ task'[u].remind = task[u].remind
          /\ task'[u].status = task[u].status /\ task'[u].sent = task[u].sent
          /\ task'[u].shown = asked[s]
      BY <1>3, <3>1
    <3> QED  BY <2>1, <3>2 DEF Targets
  <2>2. CASE u \notin batch[s]  BY <1>2, <2>2
  <2> QED  BY <2>1, <2>2
<1> QED  BY <1>4 DEF InReview

LEMMA WriteEffect ==
  ASSUME TypeOK, NEW t \in Tasks, NEW r \in Row, Write(t, r)
  PROVE  /\ \A u \in Tasks : task'[u] = IF u = t THEN r ELSE task[u]
         /\ InReview' \ InReview \subseteq {t}
         /\ announced' = announced \ (InReview' \ InReview)
         /\ blinked' = blinked \cup ((InReview' \ InReview) \cap Remembered)
<1>1. \A u \in Tasks : task'[u] = IF u = t THEN r ELSE task[u]  BY DEF Write, TypeOK
<1>2. InReview' \ InReview = {t} \cap {u \in Tasks : r.status = "waiting_review" /\ u \notin InReview}
  BY <1>1 DEF InReview
<1> QED  BY <1>1, <1>2 DEF Write

(* A move changes a status alone; a resolution sets no target that has     *)
(* passed.                                                                 *)
LEMMA MoveEffect ==
  ASSUME TypeOK, NEW t \in Tasks, NEW s \in MovedTo, Move(t, s)
  PROVE  \A u \in Tasks : /\ Targets(task'[u]) = Targets(task[u])
                          /\ task'[u].sent = task[u].sent /\ task'[u].shown = task[u].shown
<1>1. task[t] \in Row /\ [task[t] EXCEPT !.status = s] \in Row
  BY Restatused, RoundsAssumption DEF TypeOK
<1>2. \A u \in Tasks : task'[u] = IF u = t THEN [task[t] EXCEPT !.status = s] ELSE task[u]
  BY <1>1, WriteEffect DEF Move
<1>3. LET r == [task[t] EXCEPT !.status = s]
      IN r.due = task[t].due /\ r.remind = task[t].remind /\ r.sent = task[t].sent
         /\ r.shown = task[t].shown
  BY <1>1 DEF Row
<1> QED  BY <1>2, <1>3 DEF Targets

LEMMA ApplyEffect ==
  ASSUME TypeOK, NEW t \in Tasks, NEW r \in Resolutions, TriageApply(t, r)
  PROVE  \A u \in Tasks :
           /\ \A x \in Targets(task'[u]) : x \in Targets(task[u]) \/ now < x
           /\ u # t => Targets(task'[u]) = Targets(task[u])
           /\ task'[u].sent = task[u].sent /\ task'[u].shown = task[u].shown
<1>1. task[t] \in Row /\ Resolved(task[t], r) \in Row
  BY ResolvedType DEF TriageApply, TypeOK
<1>2. \A u \in Tasks : task'[u] = IF u = t THEN Resolved(task[t], r) ELSE task[u]
  BY <1>1, WriteEffect DEF TriageApply
<1> QED  BY <1>1, <1>2, ResolvedType DEF TriageApply

(* The steps that neither move tasks nor belong to the watch loop.         *)
LEMMA Elsewhere ==
  ASSUME TypeOK,
         Tick \/ Script \/ Records \/ Scheduler \/ UNCHANGED vars
         \/ (\E s \in Triagers : TriageMark(s) \/ \E b \in SUBSET Tasks : TriageNext(s, b))
  PROVE  InReview' = InReview /\ UNCHANGED <<announced, blinked, watch, telling>>
<1> USE DEF board, watch, script, triage, ritual, reminding, telling, showing, Others
<1>1. CASE Tick  BY <1>1 DEF Tick, InReview
<1>2. CASE Script
  <2>1. CASE ScriptStamp
    <3>1. PICK t \in Tasks : Stamp(t, now)  BY <2>1 DEF ScriptStamp, TypeOK
    <3>2. now \in 0..MaxTime  BY TimesAreNat DEF TypeOK, Times
    <3> QED  BY <2>1, <3>1, <3>2, StampEffect DEF ScriptStamp
  <2>2. CASE ScriptList \/ ScriptStops \/ \E t \in Tasks, outcome \in Outcomes : ScriptNotify(t, outcome)
    BY <2>2 DEF ScriptList, ScriptStops, ScriptNotify, InReview
  <2> QED  BY <1>2, <2>1, <2>2 DEF Script
<1>3. CASE Records  BY <1>3 DEF Records, InReview
<1>4. CASE Scheduler
  BY <1>4 DEF Scheduler, SchedulerWakes, SchedulerDies, RitualFetch, RitualWorks, RitualWrite,
       RitualEnds, RitualFails, InReview
<1>5. ASSUME NEW s \in Triagers, TriageMark(s)
      PROVE  InReview' = InReview /\ UNCHANGED <<announced, blinked, watch, telling>>
  BY <1>5, MarkEffect DEF TriageMark
<1>6. ASSUME NEW s \in Triagers, NEW b \in SUBSET Tasks, TriageNext(s, b)
      PROVE  InReview' = InReview /\ UNCHANGED <<announced, blinked, watch, telling>>
  BY <1>6 DEF TriageNext, InReview
<1>7. CASE UNCHANGED vars  BY <1>7 DEF vars, InReview
<1> QED  BY <1>1, <1>2, <1>3, <1>4, <1>5, <1>6, <1>7

-----------------------------------------------------------------------------
(* Announcements. What was announced in the review a task is in, the tick  *)
(* knows: before it plans from the state it was left, then from the one it *)
(* will leave; unless it was forgotten.                                    *)
ReviewOK ==
  /\ wpc # "sleep" => announced \cap InReview \subseteq inReview
  /\ wpc \in {"due", "remind", "stamp"} => announced \cap inReview \subseteq notified \cup forgot
  /\ wpc = "announce" => /\ announced \cap inReview \subseteq retained \cup forgot
                         /\ announced \cap announcing \subseteq forgot
                         /\ announcing \subseteq inReview
  /\ wpc \in {"sleep", "save"} => announced \cap InReview \subseteq notified \cup forgot
  /\ twice \subseteq forgot
  /\ (notified \cup file \cup retained) \cap InReview \subseteq announced \cup blinked

LEMMA ReviewWrite ==
  ASSUME TypeOK, ReviewOK, NEW t \in Tasks, NEW r \in Row, Write(t, r),
         UNCHANGED <<watch, telling>>
  PROVE  ReviewOK'
<1>1. /\ announced' = announced \ (InReview' \ InReview)
      /\ blinked' = blinked \cup ((InReview' \ InReview) \cap Remembered)
  BY WriteEffect
<1> QED  BY <1>1 DEF ReviewOK, Remembered, watch, telling

LEMMA ReviewWatch == ASSUME TypeOK, ReviewOK, Watch PROVE ReviewOK'
<1> USE DEF board, watch, script, triage, ritual, reminding, telling, showing
<1>a. current \in 0..MaxTime  BY DEF TypeOK
<1>1. CASE WatchList  BY <1>1 DEF WatchList, InReview, ReviewOK
<1>2. CASE WatchDue  BY <1>2 DEF WatchDue, InReview, ReviewOK
<1>3. CASE WatchStamp
  <2>1. InReview' = InReview /\ UNCHANGED <<announced, blinked>>
    <3>1. PICK t \in Tasks : Stamp(t, current)  BY <1>3 DEF WatchStamp, StampTime, TypeOK
    <3> QED  BY <1>a, <3>1, StampEffect
  <2> QED  BY <1>3, <2>1 DEF WatchStamp, ReviewOK
<1>4. CASE WatchPlan  BY <1>4 DEF WatchPlan, Plan, InReview, ReviewOK
<1>5. CASE WatchKeep  BY <1>5 DEF WatchKeep, InReview, ReviewOK
<1>6. CASE WatchSave  BY <1>6 DEF WatchSave, Asleep, InReview, ReviewOK
<1>7. CASE TickFails
  <2>1. InReview' = InReview /\ UNCHANGED <<announced, blinked>>
    <3>1. CASE UNCHANGED board  BY <3>1 DEF InReview
    <3>2. CASE \E t \in inHand : Stamp(t, current)
      <4>1. PICK t \in Tasks : Stamp(t, current)  BY <3>2 DEF TypeOK
      <4> QED  BY <1>a, <4>1, StampEffect
    <3> QED  BY <1>7, <3>1, <3>2 DEF TickFails, StampTime
  <2> QED  BY <1>7, <2>1 DEF TickFails, Asleep, ReviewOK
<1>8. CASE WatchDies  BY <1>8 DEF WatchDies, Asleep, InReview, ReviewOK
<1>9. ASSUME NEW t \in Tasks, NEW outcome \in Outcomes, WatchRemind(t, outcome)
      PROVE  ReviewOK'
  <2>1. wpc = "remind" /\ wpc' \in {"remind", "stamp"} /\ InReview' = InReview
    BY <1>9 DEF WatchRemind, InReview
  <2> QED  BY <1>9, <2>1 DEF WatchRemind, ReviewOK
<1>10. ASSUME NEW t \in Tasks, NEW outcome \in Outcomes, WatchAnnounce(t, outcome)
       PROVE  ReviewOK'
  <2>1. wpc = "announce" /\ wpc' = "announce" /\ InReview' = InReview
    BY <1>10 DEF WatchAnnounce, InReview
  <2>2. CASE outcome = "lost"  BY <1>10, <2>1, <2>2 DEF WatchAnnounce, Remember, ReviewOK
  <2>3. CASE outcome = "sent"  BY <1>10, <2>1, <2>3 DEF WatchAnnounce, Remember, ReviewOK
  <2>4. CASE outcome = "unheard"  BY <1>10, <2>1, <2>4 DEF WatchAnnounce, Remember, ReviewOK
  <2> QED  BY <2>2, <2>3, <2>4 DEF Outcomes
<1> QED  BY <1>1, <1>2, <1>3, <1>4, <1>5, <1>6, <1>7, <1>8, <1>9, <1>10 DEF Watch

LEMMA ReviewStep == ASSUME TypeOK, ReviewOK, [Next]_vars PROVE ReviewOK'
<1>1. CASE Watch  BY <1>1, ReviewWatch
<1>2. ASSUME NEW t \in Tasks, NEW s \in MovedTo, Move(t, s) PROVE ReviewOK'
  <2>1. [task[t] EXCEPT !.status = s] \in Row  BY Restatused, RoundsAssumption DEF TypeOK
  <2> QED  BY <1>2, <2>1, ReviewWrite DEF Move
<1>3. ASSUME NEW t \in Tasks, NEW r \in Resolutions, TriageApply(t, r) PROVE ReviewOK'
  <2>1. Resolved(task[t], r) \in Row  BY <1>3, ResolvedType DEF TriageApply, TypeOK
  <2> QED  BY <1>3, <2>1, ReviewWrite DEF TriageApply
<1>4. CASE InReview' = InReview /\ UNCHANGED <<announced, blinked, watch, telling>>
  BY <1>4 DEF ReviewOK, watch, telling
<1> QED  BY <1>1, <1>2, <1>3, <1>4, Elsewhere DEF Next, Triage

LEMMA ReviewHolds == Spec => []ReviewOK
<1>1. Init => ReviewOK  BY DEF Init, ReviewOK
<1>2. Base /\ ReviewOK /\ [Next]_vars => ReviewOK'  BY ReviewStep DEF Base
<1> QED  BY <1>1, <1>2, BaseHolds, PTL DEF Spec

(* No review is announced twice without a death or an unheard delivery.    *)
THEOREM AnnouncedOnce == Spec => []AnnouncedTwiceNeedsDeath
<1>1. ReviewOK => AnnouncedTwiceNeedsDeath  BY DEF ReviewOK, AnnouncedTwiceNeedsDeath
<1> QED  BY <1>1, ReviewHolds, PTL

(* The watch loop believes announced only what was.                        *)
THEOREM NotifiedWasAnnounced == Spec => []NotifiedMeansAnnounced
<1>1. ReviewOK => NotifiedMeansAnnounced  BY DEF ReviewOK, NotifiedMeansAnnounced
<1> QED  BY <1>1, ReviewHolds, PTL

-----------------------------------------------------------------------------
(* Reminders. No clock is ahead, and a stamp is no later than the listing  *)
(* of a reminder that was delivered; the script's stamps apart.            *)
TellOK ==
  /\ current <= now /\ listed <= now /\ slisted <= now
  /\ wpc \in {"remind", "stamp"} => current <= listed
  /\ todo # {} => wpc \in {"remind", "stamp"}
  /\ inHand # {} => wpc = "stamp"
  /\ sinHand # {} => spc = "stamp"
  /\ \A t, u \in inHand : t = u
  /\ \A t, u \in sinHand : t = u
  /\ \A t \in Tasks : told[t] <= now
  /\ \A t \in inHand : current <= told[t]
  /\ \A t \in Tasks \ byScript : task[t].sent <= told[t]

(* Unless something slipped: targets told of are stamped, or about to be,  *)
(* and what is listed has a target not told of yet. Whatever two senders   *)
(* have on their lists has slipped.                                        *)
SlipOK ==
  /\ again \subseteq slips
  /\ (todo \cup inHand) \cap (stodo \cup sinHand) \subseteq slips
  /\ \A t \in Tasks \ (slips \cup inHand \cup sinHand) : \A x \in Targets(task[t]) :
       x <= told[t] => x <= task[t].sent
  /\ \A t \in inHand \ slips : \A x \in Targets(task[t]) : x <= told[t] => x <= current
  /\ \A t \in todo \ slips : \E x \in Targets(task[t]) : told[t] < x /\ x <= listed
  /\ \A t \in stodo \ slips : \E x \in Targets(task[t]) : told[t] < x /\ x <= slisted

RemindOK == TellOK /\ SlipOK

LEMMA TimeTypes ==
  ASSUME TypeOK
  PROVE  /\ now \in Nat /\ now \in 0..MaxTime /\ current \in Nat /\ listed \in Nat
         /\ slisted \in Nat /\ current \in 0..MaxTime
         /\ \A t \in Tasks : /\ told[t] \in Nat /\ task[t] \in Row /\ task[t].sent \in Nat
                             /\ task[t].shown \in Nat /\ card[t] \in Nat
                             /\ Targets(task[t]) \subseteq Nat
         /\ \A s \in Triagers : asked[s] \in Nat
<1>1. /\ now \in 0..MaxTime /\ current \in 0..MaxTime /\ listed \in 0..MaxTime
      /\ slisted \in 0..MaxTime
  BY TimesAreNat DEF TypeOK, Times
<1>2. \A t \in Tasks : task[t] \in Row /\ told[t] \in 0..MaxTime /\ card[t] \in 0..MaxTime
  BY DEF TypeOK
<1>3. \A t \in Tasks : /\ task[t].sent \in 0..MaxTime /\ task[t].shown \in 0..MaxTime
                       /\ Targets(task[t]) \subseteq Nat
  BY <1>2, RowTypes, TimesAreNat DEF Targets
<1>4. \A s \in Triagers : asked[s] \in 0..MaxTime  BY DEF TypeOK
<1> QED  BY <1>1, <1>2, <1>3, <1>4, TimesAreNat

LEMMA RemindTick == ASSUME TypeOK, RemindOK, Tick PROVE RemindOK'
<1> USE DEF board, watch, script, triage, ritual, reminding, telling, showing
<1>1. TellOK'  BY TimeTypes DEF Tick, RemindOK, TellOK
<1>2. SlipOK'  BY DEF Tick, RemindOK, SlipOK
<1> QED  BY <1>1, <1>2 DEF RemindOK

(* Steps after which the targets told of and the stamps are the same.      *)
LEMMA RemindFrame ==
  ASSUME TypeOK, RemindOK, UNCHANGED <<now, watch, script, reminding>>,
         \A u \in Tasks : Targets(task'[u]) = Targets(task[u]) /\ task'[u].sent = task[u].sent
  PROVE  RemindOK'
<1> USE DEF watch, script, reminding
<1>1. TellOK'  BY DEF RemindOK, TellOK
<1>2. SlipOK'
  <2>1. todo \subseteq Tasks /\ stodo \subseteq Tasks /\ inHand \subseteq Tasks  BY DEF TypeOK
  <2> QED  BY <2>1 DEF RemindOK, SlipOK
<1> QED  BY <1>1, <1>2 DEF RemindOK

LEMMA RemindApply ==
  ASSUME TypeOK, RemindOK, NEW t \in Tasks, NEW r \in Resolutions, TriageApply(t, r)
  PROVE  RemindOK'
<1> USE DEF watch, script
<1>1. /\ UNCHANGED <<now, watch, script, told, again, byScript>>
      /\ slips' = slips \cup ({t} \cap (todo \cup stodo))
  BY DEF TriageApply
<1>2. \A u \in Tasks :
        /\ \A x \in Targets(task'[u]) : x \in Targets(task[u]) \/ now < x
        /\ u # t => Targets(task'[u]) = Targets(task[u])
        /\ task'[u].sent = task[u].sent
  BY ApplyEffect
<1>3. TellOK'  BY <1>1, <1>2 DEF RemindOK, TellOK
<1>4. SlipOK'
  <2>1. todo \subseteq Tasks /\ stodo \subseteq Tasks /\ inHand \subseteq Tasks  BY DEF TypeOK
  <2>2. \A u \in Tasks : \A x \in Targets(task'[u]) : x <= told[u] => x \in Targets(task[u])
    <3>1. \A u \in Tasks : \A x \in Targets(task'[u]) : x \in Nat
      <4>1. Resolved(task[t], r) \in Row  BY ResolvedType DEF TriageApply, TypeOK
      <4>2. task' \in [Tasks -> Row]  BY <4>1, TypeWrite DEF TriageApply
      <4> QED  BY <4>2, RowTypes, TimesAreNat DEF Targets
    <3> QED  BY <1>2, <3>1, TimeTypes DEF RemindOK, TellOK
  <2> QED  BY <1>1, <1>2, <2>1, <2>2 DEF RemindOK, SlipOK
<1> QED  BY <1>3, <1>4 DEF RemindOK

LEMMA RemindDeliver ==
  ASSUME TypeOK, NEW t \in Tasks, NEW n \in 0..MaxTime, Deliver(t, n)
  PROVE  /\ \A u \in Tasks : told'[u] = IF u = t /\ n > told[t] THEN n ELSE told[u]
         /\ \/ again' = again
            \/ again' = again \cup {t} /\ \A x \in Targets(task[t]) : ~(told[t] < x /\ x <= n)
BY DEF Deliver, TypeOK

LEMMA RemindSend ==
  ASSUME TypeOK, RemindOK, NEW t \in Tasks, NEW outcome \in Outcomes, WatchRemind(t, outcome)
  PROVE  RemindOK'
<1> USE DEF script
<1>1. /\ wpc = "remind" /\ t \in todo /\ todo' = todo \ {t} /\ inHand = {}
      /\ UNCHANGED <<now, task, current, listed, script, byScript>>
      /\ inHand' = IF outcome = "sent" THEN {t} ELSE {}
      /\ wpc' = IF outcome = "sent" THEN "stamp" ELSE "remind"
      /\ slips' = IF \/ outcome = "unheard"
                     \/ \E x \in Targets(task[t]) : current < x /\ x <= listed
                  THEN slips \cup {t} ELSE slips
  BY SendsType DEF WatchRemind, RemindOK, TellOK, board
<1>2. CASE outcome = "lost"
  <2>1. UNCHANGED <<told, again>>  BY <1>2 DEF WatchRemind
  <2>2. TellOK'  BY <1>1, <1>2, <2>1 DEF RemindOK, TellOK
  <2>3. SlipOK'  BY <1>1, <1>2, <2>1 DEF RemindOK, SlipOK
  <2> QED  BY <2>2, <2>3 DEF RemindOK
<1>3. CASE outcome # "lost"
  <2>a. Deliver(t, listed) /\ listed \in 0..MaxTime  BY <1>3 DEF WatchRemind, TypeOK
  <2>b. /\ \A u \in Tasks : told'[u] = IF u = t /\ listed > told[t] THEN listed ELSE told[u]
        /\ \/ again' = again
           \/ again' = again \cup {t} /\ \A x \in Targets(task[t]) : ~(told[t] < x /\ x <= listed)
    BY <2>a, RemindDeliver
  <2>1. TellOK'  BY <1>1, <2>b, TimeTypes DEF RemindOK, TellOK
  <2>2. again' \subseteq slips'  BY <1>1, <2>b DEF RemindOK, SlipOK
  <2>3. (todo' \cup inHand') \cap (stodo \cup sinHand) \subseteq slips'
    BY <1>1 DEF RemindOK, SlipOK
  <2>4. t \notin slips => told'[t] = listed
    BY <1>1, <2>b, TimeTypes DEF RemindOK, SlipOK
  <2>5. \A u \in Tasks \ (slips' \cup inHand' \cup sinHand) : u # t
    <3>1. CASE outcome = "sent"  BY <1>1, <3>1
    <3>2. CASE outcome = "unheard"  BY <1>1, <3>2
    <3> QED  BY <1>3, <3>1, <3>2 DEF Outcomes
  <2>6. \A u \in inHand' \ slips' : \A x \in Targets(task[u]) : x <= told'[u] => x <= current
    BY <1>1, <2>4, TimeTypes
  <2>7. stodo \subseteq Tasks /\ todo \subseteq Tasks  BY DEF TypeOK
  <2>8. t \in stodo => t \in slips  BY <1>1 DEF RemindOK, SlipOK
  <2>9. SlipOK'
    BY <1>1, <2>b, <2>2, <2>3, <2>5, <2>6, <2>7, <2>8 DEF RemindOK, SlipOK
  <2> QED  BY <2>1, <2>9 DEF RemindOK
<1> QED  BY <1>2, <1>3

LEMMA RemindDue ==
  ASSUME TypeOK, NEW t \in Due
  PROVE  t \in Tasks /\ \E x \in Targets(task[t]) : task[t].sent < x /\ x <= now
BY DEF Due, ReminderDue

(* What is newly listed has a target not told of, unless it has slipped or *)
(* is in hand, and then it has slipped.                                    *)
LEMMA RemindListed ==
  ASSUME TypeOK, RemindOK, NEW t \in Due, t \notin slips \cup inHand \cup sinHand
  PROVE  \E x \in Targets(task[t]) : told[t] < x /\ x <= now
<1>1. PICK x \in Targets(task[t]) : task[t].sent < x /\ x <= now  BY RemindDue
<1>2. t \in Tasks /\ x \in Nat /\ told[t] \in Nat /\ task[t].sent \in Nat
  BY <1>1, RemindDue, TimeTypes
<1>3. x <= told[t] => x <= task[t].sent  BY <1>1, <1>2 DEF RemindOK, SlipOK
<1> QED  BY <1>1, <1>2, <1>3

LEMMA RemindStamp ==
  ASSUME TypeOK, RemindOK, NEW t \in inHand, Stamp(t, current)
  PROVE  /\ \A u \in Tasks : Targets(task'[u]) = Targets(task[u])
         /\ \A u \in Tasks \ byScript : task'[u].sent <= told[u]
         /\ \A u \in Tasks \ {t} : task'[u].sent = task[u].sent
         /\ t \notin slips => \A x \in Targets(task'[t]) : x <= told[t] => x <= task'[t].sent
<1>1. t \in Tasks /\ current \in 0..MaxTime  BY TimeTypes DEF TypeOK
<1>2. \A u \in Tasks : /\ Targets(task'[u]) = Targets(task[u])
                       /\ task'[u].sent = IF u = t THEN current ELSE task[u].sent
  BY <1>1, StampEffect
<1> QED  BY <1>1, <1>2 DEF RemindOK, TellOK, SlipOK

LEMMA RemindWatch == ASSUME TypeOK, RemindOK, Watch PROVE RemindOK'
<1> USE DEF board, script, clock
<1>a. /\ todo \subseteq Tasks /\ stodo \subseteq Tasks /\ inHand \subseteq Tasks
      /\ sinHand \subseteq Tasks
  BY DEF TypeOK
<1>1. CASE WatchList
  <2>1. TellOK'  BY <1>1, TimeTypes DEF WatchList, reminding, RemindOK, TellOK
  <2>2. todo = {} /\ inHand = {}  BY <1>1 DEF WatchList, RemindOK, TellOK
  <2>3. SlipOK'  BY <1>1, <2>2 DEF WatchList, reminding, RemindOK, SlipOK
  <2> QED  BY <2>1, <2>3 DEF RemindOK
<1>2. CASE WatchDue
  <2>1. /\ wpc' = "remind" /\ listed' = now /\ todo' = Due /\ todo = {} /\ inHand = {}
        /\ slips' = slips \cup (Due \cap (stodo \cup sinHand))
        /\ UNCHANGED <<now, task, current, inHand, script, told, again, byScript>>
    BY <1>2 DEF WatchDue, RemindOK, TellOK
  <2>2. TellOK'  BY <2>1, TimeTypes DEF RemindOK, TellOK
  <2>3. \A t \in todo' \ slips' : \E x \in Targets(task[t]) : told[t] < x /\ x <= now
    BY <2>1, RemindListed
  <2>4. SlipOK'  BY <2>1, <2>3, <1>a DEF RemindOK, SlipOK
  <2> QED  BY <2>2, <2>4 DEF RemindOK
<1>3. CASE WatchStamp
  <2>1. PICK t \in inHand : Stamp(t, current)  BY <1>3 DEF WatchStamp, StampTime
  <2>2. /\ inHand = {t} /\ inHand' = {} /\ wpc' = "remind" /\ wpc = "stamp"
        /\ UNCHANGED <<now, current, listed, todo, script, told, again, slips, byScript>>
    BY <1>3, <2>1 DEF WatchStamp, RemindOK, TellOK, reminding
  <2>3. TellOK'  BY <2>1, <2>2, RemindStamp DEF RemindOK, TellOK
  <2>4. SlipOK'  BY <2>1, <2>2, <1>a, RemindStamp DEF RemindOK, SlipOK
  <2> QED  BY <2>3, <2>4 DEF RemindOK
<1>4. CASE WatchPlan \/ WatchKeep
  <2>1. /\ todo = {} /\ inHand = {}
        /\ UNCHANGED <<now, task, current, listed, todo, inHand, script, reminding>>
        /\ wpc' \in {"announce", "save"}
    BY <1>4 DEF WatchPlan, WatchKeep, RemindOK, TellOK
  <2>2. TellOK'  BY <2>1 DEF RemindOK, TellOK, reminding
  <2>3. SlipOK'  BY <2>1 DEF RemindOK, SlipOK, reminding
  <2> QED  BY <2>2, <2>3 DEF RemindOK
<1>5. CASE WatchSave \/ WatchDies
  <2>1. /\ UNCHANGED <<now, task, script, told, again, byScript>> /\ Asleep
        /\ slips' = slips \cup inHand
    BY <1>5 DEF WatchSave, WatchDies, Faulty, RemindOK, TellOK, reminding
  <2>2. TellOK'  BY <2>1, TimeTypes DEF Asleep, RemindOK, TellOK
  <2>3. SlipOK'  BY <2>1 DEF Asleep, RemindOK, SlipOK
  <2> QED  BY <2>2, <2>3 DEF RemindOK
<1>6. CASE TickFails
  <2>1. /\ UNCHANGED <<now, script, told, again, byScript>> /\ Asleep
        /\ slips' = slips \cup inHand
    BY <1>6 DEF TickFails, Faulty
  <2>2. /\ \A u \in Tasks : Targets(task'[u]) = Targets(task[u])
        /\ \A u \in Tasks \ byScript : task'[u].sent <= told[u]
        /\ \A u \in Tasks \ inHand : task'[u].sent = task[u].sent
    <3>1. CASE UNCHANGED board  BY <3>1 DEF RemindOK, TellOK
    <3>2. CASE \E t \in inHand : Stamp(t, current)  BY <3>2, RemindStamp
    <3> QED  BY <1>6, <3>1, <3>2 DEF TickFails, StampTime
  <2>3. TellOK'  BY <2>1, <2>2, TimeTypes DEF Asleep, RemindOK, TellOK
  <2>4. SlipOK'  BY <2>1, <2>2, <1>a DEF Asleep, RemindOK, SlipOK
  <2> QED  BY <2>3, <2>4 DEF RemindOK
<1>7. ASSUME NEW t \in Tasks, NEW outcome \in Outcomes, WatchRemind(t, outcome)
      PROVE  RemindOK'
  BY <1>7, RemindSend
<1>8. ASSUME NEW t \in Tasks, NEW outcome \in Outcomes, WatchAnnounce(t, outcome)
      PROVE  RemindOK'
  <2>1. /\ UNCHANGED <<now, task, wpc, current, listed, todo, inHand, script, reminding>>
    BY <1>8, SendsType DEF WatchAnnounce
  <2>2. TellOK'  BY <2>1 DEF RemindOK, TellOK, reminding
  <2>3. SlipOK'  BY <2>1 DEF RemindOK, SlipOK, reminding
  <2> QED  BY <2>2, <2>3 DEF RemindOK
<1> QED  BY <1>1, <1>2, <1>3, <1>4, <1>5, <1>6, <1>7, <1>8 DEF Watch

LEMMA RemindScript == ASSUME TypeOK, RemindOK, Script PROVE RemindOK'
<1> USE DEF board, watch, clock
<1>a. /\ todo \subseteq Tasks /\ stodo \subseteq Tasks /\ inHand \subseteq Tasks
      /\ sinHand \subseteq Tasks
  BY DEF TypeOK
<1>1. CASE ScriptList
  <2>1. /\ slisted' = now /\ stodo' = Due /\ sinHand = {} /\ spc = "idle"
        /\ slips' = slips \cup (Due \cap (todo \cup inHand))
        /\ UNCHANGED <<now, task, watch, sinHand, told, again, byScript>>
    BY <1>1 DEF ScriptList, RemindOK, TellOK
  <2>2. TellOK'  BY <2>1, TimeTypes DEF RemindOK, TellOK
  <2>3. \A t \in stodo' \ slips' : \E x \in Targets(task[t]) : told[t] < x /\ x <= now
    BY <2>1, RemindListed
  <2>4. SlipOK'  BY <2>1, <2>3, <1>a DEF RemindOK, SlipOK
  <2> QED  BY <2>2, <2>4 DEF RemindOK
<1>2. CASE ScriptStamp
  <2>1. PICK t \in sinHand : Stamp(t, now)  BY <1>2 DEF ScriptStamp
  <2>2. t \in Tasks /\ now \in 0..MaxTime  BY <1>a, TimeTypes
  <2>3. \A u \in Tasks : /\ Targets(task'[u]) = Targets(task[u])
                         /\ task'[u].sent = IF u = t THEN now ELSE task[u].sent
    BY <2>1, <2>2, StampEffect
  <2>4. /\ sinHand = {t} /\ sinHand' = {} /\ byScript' = byScript \cup {t} /\ spc = "stamp"
        /\ UNCHANGED <<now, watch, stodo, told, again, slips>>
        /\ slisted' \in {0, slisted} /\ (stodo # {} => slisted' = slisted)
    BY <1>2, <2>1 DEF ScriptStamp, ScriptRest, RemindOK, TellOK
  <2>5. TellOK'  BY <2>3, <2>4, TimeTypes DEF RemindOK, TellOK
  <2>6. SlipOK'
    <3>1. \A x \in Targets(task[t]) : x <= told[t] => x <= now  BY <2>2, TimeTypes DEF RemindOK, TellOK
    <3> QED  BY <2>2, <2>3, <2>4, <3>1, <1>a DEF RemindOK, SlipOK
  <2> QED  BY <2>5, <2>6 DEF RemindOK
<1>3. CASE ScriptStops
  <2>1. /\ UNCHANGED <<now, task, watch, told, again, byScript>>
        /\ slisted' = 0 /\ stodo' = {} /\ sinHand' = {} /\ slips' = slips \cup sinHand
    BY <1>3 DEF ScriptStops, Faulty
  <2>2. TellOK'  BY <2>1, TimeTypes DEF RemindOK, TellOK
  <2>3. SlipOK'  BY <2>1 DEF RemindOK, SlipOK
  <2> QED  BY <2>2, <2>3 DEF RemindOK
<1>4. ASSUME NEW t \in Tasks, NEW outcome \in Outcomes, ScriptNotify(t, outcome)
      PROVE  RemindOK'
  <2>1. /\ spc = "notify" /\ spc' = "stamp" /\ t \in stodo /\ stodo' = stodo \ {t}
        /\ sinHand = {} /\ sinHand' = {t}
        /\ UNCHANGED <<now, task, watch, slisted, slips, byScript>>
    BY <1>4, SendsType DEF ScriptNotify, RemindOK, TellOK
  <2>2. /\ \A u \in Tasks : u # t => told'[u] = told[u]
        /\ told'[t] \in Nat /\ told[t] <= told'[t] /\ told'[t] <= now
        /\ \/ again' = again
           \/ again' = again \cup {t} /\ \A x \in Targets(task[t]) : ~(told[t] < x /\ x <= slisted)
    <3>1. CASE outcome = "lost"
      BY <1>4, <3>1, TimeTypes DEF ScriptNotify, RemindOK, TellOK
    <3>2. CASE outcome # "lost"
      <4>1. Deliver(t, slisted) /\ slisted \in 0..MaxTime  BY <1>4, <3>2 DEF ScriptNotify, TypeOK
      <4> QED  BY <4>1, RemindDeliver, TimeTypes DEF RemindOK, TellOK
    <3> QED  BY <3>1, <3>2
  <2>3. TellOK'
    <3>1. \A u \in Tasks : told'[u] <= now /\ told[u] <= told'[u]
      BY <2>2, TimeTypes DEF RemindOK, TellOK
    <3>2. \A u \in inHand : current <= told'[u]
      BY <2>1, <2>2, <3>1, <1>a, TimeTypes DEF RemindOK, TellOK
    <3>3. \A u \in Tasks \ byScript : task[u].sent <= told'[u]
      BY <2>1, <2>2, <3>1, TimeTypes DEF RemindOK, TellOK
    <3> QED  BY <2>1, <3>1, <3>2, <3>3 DEF RemindOK, TellOK
  <2>4. again' \subseteq slips  BY <2>1, <2>2 DEF RemindOK, SlipOK
  <2>5. t \in todo \cup inHand => t \in slips  BY <2>1 DEF RemindOK, SlipOK
  <2>6. SlipOK'  BY <2>1, <2>2, <2>4, <2>5, <1>a DEF RemindOK, SlipOK
  <2> QED  BY <2>3, <2>6 DEF RemindOK
<1> QED  BY <1>1, <1>2, <1>3, <1>4 DEF Script

(* The steps that leave senders, clock and targets alone.                  *)
LEMMA RemindElsewhere ==
  ASSUME TypeOK, RemindOK,
         Records \/ Scheduler \/ UNCHANGED vars
         \/ (\E s \in Triagers : TriageMark(s) \/ \E b \in SUBSET Tasks : TriageNext(s, b))
         \/ (\E t \in Tasks, s \in MovedTo : Move(t, s))
  PROVE  RemindOK'
<1> USE DEF board, Others, clock
<1>1. CASE Records \/ Scheduler \/ UNCHANGED vars
           \/ \E s \in Triagers, b \in SUBSET Tasks : TriageNext(s, b)
  <2>1. UNCHANGED <<now, task, watch, script, reminding>>
    BY <1>1 DEF Records, Faulty, Scheduler, SchedulerWakes, SchedulerDies, RitualFetch,
         RitualWorks, RitualWrite, RitualEnds, RitualFails, TriageNext, vars
  <2> QED  BY <2>1, RemindFrame
<1>2. ASSUME NEW s \in Triagers, TriageMark(s) PROVE RemindOK'
  <2>1. UNCHANGED <<now, watch, script, reminding>>  BY <1>2 DEF TriageMark
  <2> QED  BY <1>2, <2>1, MarkEffect, RemindFrame
<1>3. ASSUME NEW t \in Tasks, NEW s \in MovedTo, Move(t, s) PROVE RemindOK'
  <2>1. UNCHANGED <<now, watch, script, reminding>>  BY <1>3 DEF Move
  <2> QED  BY <1>3, <2>1, MoveEffect, RemindFrame
<1> QED  BY <1>1, <1>2, <1>3

LEMMA RemindStep == ASSUME TypeOK, RemindOK, [Next]_vars PROVE RemindOK'
BY RemindTick, RemindWatch, RemindScript, RemindApply, RemindElsewhere DEF Next, Triage

LEMMA RemindInit == ASSUME Init PROVE RemindOK
<1>1. setup \in Installations /\ task = setup.board /\ (\A t \in Tasks : task[t].sent = 0)
  BY RoundsAssumption DEF Init
<1>2. \A t \in Tasks : told[t] = 0  BY DEF Init
<1>3. \A t \in Tasks : Targets(task[t]) \subseteq Nat  BY TypeInit, TimeTypes
<1>4. TellOK  BY <1>1, <1>2 DEF Init, TellOK
<1>5. SlipOK  BY <1>1, <1>2, <1>3 DEF Init, SlipOK
<1> QED  BY <1>4, <1>5 DEF RemindOK

LEMMA RemindHolds == Spec => []RemindOK
<1>1. Base /\ RemindOK /\ [Next]_vars => RemindOK'  BY RemindStep DEF Base
<1> QED  BY <1>1, RemindInit, BaseHolds, PTL DEF Spec

(* The watch loop swallows no reminder.                                    *)
THEOREM NoneSwallowed == Spec => []StampedMeansTold
<1>1. Base /\ RemindOK => StampedMeansTold
  <2> SUFFICES ASSUME Base, RemindOK, NEW t \in Tasks \ byScript, NEW x \in Targets(task[t]),
                      x <= task[t].sent
               PROVE  x <= told[t]
    BY DEF StampedMeansTold
  <2>1. x \in Nat /\ task[t].sent \in Nat /\ told[t] \in Nat  BY TimeTypes DEF Base
  <2> QED  BY <2>1 DEF RemindOK, TellOK
<1> QED  BY <1>1, RemindHolds, BaseHolds, PTL

(* No reminder comes again for the same targets without a slip.            *)
THEOREM RemindedOnce == Spec => []RemindedAgainNeedsSlip
<1>1. RemindOK => RemindedAgainNeedsSlip  BY DEF RemindOK, SlipOK, RemindedAgainNeedsSlip
<1> QED  BY <1>1, RemindHolds, PTL

-----------------------------------------------------------------------------
(* Triage. What one session alone shows, it marks with the time it read    *)
(* the board, which is later than all earlier marks by the cooldown.       *)
ShowOK ==
  /\ \A s \in Triagers : asked[s] <= now /\ (asked[s] = 0 => batch[s] = {})
  /\ \A t \in Tasks : card[t] <= now
  /\ \A t \in Tasks \ crossed : task[t].shown = card[t]
  /\ \A s, q \in Triagers : s # q => batch[s] \cap batch[q] \subseteq crossed
  /\ \A s \in Triagers : \A t \in batch[s] \ crossed : card[t] = 0 \/ card[t] <= asked[s] - Cooldown
  /\ repeats \subseteq crossed

LEMMA ShowFrame ==
  ASSUME TypeOK, ShowOK, now' \in Nat, now <= now', UNCHANGED <<triage, showing>>,
         \A u \in Tasks : task'[u].shown = task[u].shown
  PROVE  ShowOK'
<1>1. now \in Nat  BY TimeTypes
<1> QED  BY <1>1, TimeTypes DEF ShowOK, triage, showing

LEMMA ShowNext ==
  ASSUME TypeOK, ShowOK, NEW s \in Triagers, NEW b \in SUBSET Tasks, TriageNext(s, b)
  PROVE  ShowOK'
<1>1. /\ b \subseteq Eligible(now) /\ asked[s] = 0
      /\ asked' = [asked EXCEPT ![s] = now] /\ batch' = [batch EXCEPT ![s] = b]
      /\ crossed' = crossed \cup (b \cap OthersBatches(s))
      /\ UNCHANGED <<now, task, card, repeats>>
  BY DEF TriageNext, Batch, clock, board
<1>2. \A q \in Triagers : /\ asked'[q] = IF q = s THEN now ELSE asked[q]
                          /\ batch'[q] = IF q = s THEN b ELSE batch[q]
  BY <1>1 DEF TypeOK
<1>3. \A t \in b : task[t].shown = 0 \/ task[t].shown <= now - Cooldown
  BY <1>1 DEF Eligible
<1>4. \A q \in Triagers : asked'[q] <= now /\ (asked'[q] = 0 => batch'[q] = {})
  BY <1>2, TimeTypes, TimesAreNat DEF ShowOK, TypeOK, Times
<1>5. \A p, q \in Triagers : p # q => batch'[p] \cap batch'[q] \subseteq crossed'
  BY <1>1, <1>2 DEF ShowOK, OthersBatches
<1>6. \A q \in Triagers : \A t \in batch'[q] \ crossed' : card[t] = 0 \/ card[t] <= asked'[q] - Cooldown
  BY <1>1, <1>2, <1>3 DEF ShowOK
<1> QED  BY <1>1, <1>4, <1>5, <1>6 DEF ShowOK

LEMMA ShowMark ==
  ASSUME TypeOK, ShowOK, NEW s \in Triagers, TriageMark(s)
  PROVE  ShowOK'
<1> DEFINE n == asked[s]
<1>1. /\ n # 0 /\ n \in Nat /\ n <= now
      /\ asked' = [asked EXCEPT ![s] = 0] /\ batch' = [batch EXCEPT ![s] = {}]
      /\ repeats' = repeats \cup {t \in batch[s] : card[t] # 0 /\ card[t] > n - Cooldown}
      /\ \A t \in Tasks : card'[t] = IF t \in batch[s] /\ n > card[t] THEN n ELSE card[t]
      /\ UNCHANGED <<now, crossed>>
  BY TimeTypes DEF TriageMark, ShowOK, clock
<1>2. \A t \in Tasks : task'[t].shown = IF t \in batch[s] THEN n ELSE task[t].shown
  BY MarkEffect
<1>3. \A q \in Triagers : /\ asked'[q] = IF q = s THEN 0 ELSE asked[q]
                          /\ batch'[q] = IF q = s THEN {} ELSE batch[q]
  BY <1>1 DEF TypeOK
<1>4. Cooldown \in Nat \ {0} /\ now \in Nat /\ (\A t \in Tasks : card[t] \in Nat)
  BY TimeTypes, RoundsAssumption
<1>5. \A t \in batch[s] \ crossed : n > card[t]  BY <1>1, <1>4 DEF ShowOK, TypeOK
<1>6. repeats' \subseteq crossed  BY <1>1, <1>4 DEF ShowOK, TypeOK
<1>7. \A t \in Tasks \ crossed : task'[t].shown = card'[t]
  BY <1>1, <1>2, <1>5 DEF ShowOK
<1>8. \A q \in Triagers : \A t \in batch'[q] \ crossed : card'[t] = card[t]
  BY <1>1, <1>3 DEF ShowOK, TypeOK
<1>9. \A q \in Triagers : asked'[q] <= now /\ (asked'[q] = 0 => batch'[q] = {})
  BY <1>3, <1>4 DEF ShowOK
<1>10. \A t \in Tasks : card'[t] <= now  BY <1>1 DEF ShowOK
<1>11. \A p, q \in Triagers : p # q => batch'[p] \cap batch'[q] \subseteq crossed
  BY <1>3 DEF ShowOK
<1>12. \A q \in Triagers : \A t \in batch'[q] \ crossed : card'[t] = 0 \/ card'[t] <= asked'[q] - Cooldown
  BY <1>3, <1>8 DEF ShowOK
<1> QED  BY <1>1, <1>6, <1>7, <1>9, <1>10, <1>11, <1>12 DEF ShowOK

(* The steps of the others, which show nothing.                            *)
LEMMA ShowElsewhere ==
  ASSUME TypeOK,
         Tick \/ Watch \/ Script \/ Records \/ Scheduler \/ UNCHANGED vars
         \/ (\E t \in Tasks, s \in MovedTo : Move(t, s))
         \/ (\E t \in Tasks, r \in Resolutions : TriageApply(t, r))
  PROVE  /\ now' \in Nat /\ now <= now' /\ UNCHANGED <<triage, showing>>
         /\ \A u \in Tasks : task'[u].shown = task[u].shown
<1> USE DEF board, watch, script, ritual, reminding, telling, Others, clock
<1>a. now \in 0..MaxTime /\ current \in 0..MaxTime /\ now \in Nat  BY TimeTypes
<1>1. CASE Tick  BY <1>1, <1>a DEF Tick
<1>2. CASE Watch
  <2>1. UNCHANGED <<now, triage, showing>>
    BY <1>2 DEF Watch, WatchList, WatchDue, WatchStamp, WatchPlan, WatchKeep, WatchSave,
         TickFails, WatchDies, WatchRemind, WatchAnnounce, Sends, Faulty
  <2>2. UNCHANGED task \/ \E t \in inHand : Stamp(t, current)
    BY <1>2 DEF Watch, WatchList, WatchDue, WatchStamp, WatchPlan, WatchKeep, WatchSave,
         TickFails, WatchDies, WatchRemind, WatchAnnounce, StampTime
  <2>3. inHand \subseteq Tasks  BY DEF TypeOK
  <2> QED  BY <1>a, <2>1, <2>2, <2>3, StampEffect
<1>3. CASE Script
  <2>1. UNCHANGED <<now, triage, showing>>
    BY <1>3 DEF Script, ScriptList, ScriptStamp, ScriptStops, ScriptNotify, Sends, Faulty
  <2>2. UNCHANGED task \/ \E t \in sinHand : Stamp(t, now)
    BY <1>3 DEF Script, ScriptList, ScriptStamp, ScriptStops, ScriptNotify
  <2>3. sinHand \subseteq Tasks  BY DEF TypeOK
  <2> QED  BY <1>a, <2>1, <2>2, <2>3, StampEffect
<1>4. CASE Records \/ Scheduler \/ UNCHANGED vars
  <2>1. UNCHANGED <<now, task, triage, showing>>
    BY <1>4 DEF Records, Faulty, Scheduler, SchedulerWakes, SchedulerDies, RitualFetch,
         RitualWorks, RitualWrite, RitualEnds, RitualFails, vars
  <2> QED  BY <1>a, <2>1
<1>5. CASE \E t \in Tasks, s \in MovedTo : Move(t, s)
  BY <1>5, <1>a, MoveEffect DEF Move
<1>6. CASE \E t \in Tasks, r \in Resolutions : TriageApply(t, r)
  BY <1>6, <1>a, ApplyEffect DEF TriageApply
<1> QED  BY <1>1, <1>2, <1>3, <1>4, <1>5, <1>6

LEMMA ShowStep == ASSUME TypeOK, ShowOK, [Next]_vars PROVE ShowOK'
BY ShowNext, ShowMark, ShowElsewhere, ShowFrame DEF Next, Triage

LEMMA ShowInit == ASSUME Init PROVE ShowOK
<1>1. setup \in Installations /\ task = setup.board /\ (\A t \in Tasks : task[t].shown = 0)
  BY RoundsAssumption DEF Init
<1>2. /\ \A t \in Tasks : card[t] = 0
      /\ \A s \in Triagers : asked[s] = 0 /\ batch[s] = {}
      /\ now = 1 /\ repeats = {}
  BY DEF Init
<1> QED  BY <1>1, <1>2 DEF ShowOK

(* No card is shown again within the cooldown unless sessions crossed.     *)
THEOREM ShownOnce == Spec => []ShownAgainNeedsCrossing
<1>1. Base /\ ShowOK /\ [Next]_vars => ShowOK'  BY ShowStep DEF Base
<1>2. ShowOK => ShownAgainNeedsCrossing  BY DEF ShowOK, ShownAgainNeedsCrossing
<1> QED  BY <1>1, <1>2, ShowInit, BaseHolds, PTL DEF Spec

-----------------------------------------------------------------------------
(* The smart order. The weights of the rank against one another: whatever  *)
(* else adds to or takes from it, the rank of an active task stays within  *)
(* these bounds.                                                           *)
LEMMA RankBounds ==
  ASSUME NEW r \in Row, NEW n \in Nat
  PROVE  /\ Rank(r, n) \in Int /\ DueSortValue(r) \in Int
         /\ Active(r) => 100 * r.priority - 118 <= Rank(r, n) /\ Rank(r, n) <= 100 * r.priority + 15
         /\ Overdue(r, n) => Rank(r, n) <= 100 * r.priority - 55
         /\ Active(r) /\ ~Overdue(r, n) => 100 * r.priority - 48 <= Rank(r, n)
         /\ ~Active(r) => Rank(r, n) = 100 * r.priority + 200
<1>1. r.priority \in 1..5 /\ r.status \in Statuses  BY RowTypes
<1>2. r.due \in Nat /\ r.remind \in Nat  BY RowTypes, TimesAreNat, TimesAssumption
<1>3. CodexReady(r) => Active(r) /\ r.status \notin {"waiting_review", "blocked"}
  BY DEF CodexReady
<1>4. (Overdue(r, n) \/ DueSoon(r, n)) => Active(r)  BY DEF Overdue, DueSoon
<1>5. ~Active(r) => r.status \notin {"waiting_review", "blocked"}  BY DEF Active
<1>6. Rank(r, n) = 100 * r.priority - (IF Overdue(r, n) THEN 70 ELSE 0)
                   - (IF DueSoon(r, n) THEN 30 ELSE 0) - (IF CodexReady(r) THEN 18 ELSE 0)
                   - (IF r.status = "waiting_review" THEN 12 ELSE 0)
                   + (IF r.status = "blocked" THEN 15 ELSE 0) + (IF ~Active(r) THEN 200 ELSE 0)
  BY DEF Rank
<1> QED  BY <1>1, <1>2, <1>3, <1>4, <1>5, <1>6 DEF DueSortValue

(* sort=smart is a strict weak order, so that "the first of them" means    *)
(* something: nothing comes before itself, and what comes before one task  *)
(* comes before another, or that one before the first (main.py:628-687).   *)
THEOREM SmartOrder ==
  ASSUME NEW n \in Nat, NEW a \in Row, NEW b \in Row, NEW c \in Row
  PROVE  /\ ~SmartBefore(a, a, n)
         /\ SmartBefore(a, b, n) => ~SmartBefore(b, a, n)
         /\ SmartBefore(a, b, n) /\ SmartBefore(b, c, n) => SmartBefore(a, c, n)
         /\ SmartBefore(a, c, n) => SmartBefore(a, b, n) \/ SmartBefore(b, c, n)
<1>1. /\ Rank(a, n) \in Int /\ Rank(b, n) \in Int /\ Rank(c, n) \in Int
      /\ DueSortValue(a) \in Int /\ DueSortValue(b) \in Int /\ DueSortValue(c) \in Int
  BY RankBounds
<1> QED  BY <1>1 DEF SmartBefore

(* The weights of the rank hold together: an open task comes before those  *)
(* two priorities below it and before closed ones that are no more than    *)
(* one above it, and one overdue before all others of its priority or a    *)
(* lower one, blocked or not (main.py:628-643).                            *)
THEOREM RankWeights ==
  ASSUME NEW n \in Nat, NEW r \in Row, NEW q \in Row, Active(r)
  PROVE  /\ r.priority + 2 <= q.priority => SmartBefore(r, q, n)
         /\ ~Active(q) /\ r.priority <= q.priority + 1 => SmartBefore(r, q, n)
         /\ Overdue(r, n) /\ ~Overdue(q, n) /\ r.priority <= q.priority => SmartBefore(r, q, n)
<1>1. r.priority \in 1..5 /\ q.priority \in 1..5  BY RowTypes
<1>2. Rank(r, n) \in Int /\ Rank(q, n) \in Int  BY RankBounds
<1>3. /\ 100 * r.priority - 118 <= Rank(r, n) /\ Rank(r, n) <= 100 * r.priority + 15
      /\ Overdue(r, n) => Rank(r, n) <= 100 * r.priority - 55
  BY RankBounds
<1>4. /\ 100 * q.priority - 118 <= Rank(q, n)
      /\ ~Overdue(q, n) => 100 * q.priority - 48 <= Rank(q, n)
      /\ ~Active(q) => Rank(q, n) = 100 * q.priority + 200
  <2>1. Active(q) => /\ 100 * q.priority - 118 <= Rank(q, n)
                     /\ ~Overdue(q, n) => 100 * q.priority - 48 <= Rank(q, n)
    BY RankBounds
  <2>2. ~Active(q) => Rank(q, n) = 100 * q.priority + 200  BY RankBounds
  <2> QED  BY <1>1, <1>2, <2>1, <2>2
<1>5. Rank(r, n) < Rank(q, n) => SmartBefore(r, q, n)  BY DEF SmartBefore
<1> QED  BY <1>1, <1>2, <1>3, <1>4, <1>5

(* What a triage session leaves for later against what it takes.           *)
TakesUrgentFirst ==
  [][\A s \in Triagers : batch'[s] \notin {{}, batch[s]} =>
       \A t \in batch'[s], u \in Eligible(now) \ batch'[s] :
         /\ task[t].priority <= task[u].priority + 1
         /\ Overdue(task[u], now) /\ task[u].priority <= task[t].priority
              => Overdue(task[t], now)]_vars

(* A session takes no task while one two priorities above it could be      *)
(* shown and is left, and none that is not overdue while an overdue one of *)
(* its priority or a higher one is left, whatever the limit and however    *)
(* many sessions there are (main.py:424-437 and 628-687).                  *)
THEOREM UrgentTasksFirst == Spec => TakesUrgentFirst
<1>1. ASSUME TypeOK, [Next]_vars
      PROVE  \A s \in Triagers : batch'[s] \notin {{}, batch[s]} =>
               \A t \in batch'[s], u \in Eligible(now) \ batch'[s] :
                 /\ task[t].priority <= task[u].priority + 1
                 /\ Overdue(task[u], now) /\ task[u].priority <= task[t].priority
                      => Overdue(task[t], now)
  <2>1. SUFFICES ASSUME NEW s \in Triagers, batch'[s] \notin {{}, batch[s]},
                        NEW t \in batch'[s], NEW u \in Eligible(now) \ batch'[s]
                 PROVE  /\ task[t].priority <= task[u].priority + 1
                        /\ Overdue(task[u], now) /\ task[u].priority <= task[t].priority
                             => Overdue(task[t], now)
    OBVIOUS
  <2>2. ASSUME NEW q \in Triagers, TriageMark(q)  PROVE FALSE
    BY <2>1, <2>2 DEF TriageMark, TypeOK
  <2>3. ASSUME UNCHANGED triage  PROVE FALSE
    BY <2>1, <2>3 DEF triage
  <2>4. PICK q \in Triagers, b \in SUBSET Tasks : TriageNext(q, b)
    BY <1>1, <2>2, <2>3, ShowElsewhere DEF Next, Triage
  <2>5. batch'[s] = b
    BY <2>1, <2>4 DEF TriageNext, TypeOK
  <2>6. /\ t \in Eligible(now) /\ u \in Eligible(now)
        /\ ~SmartBefore(task[u], task[t], now)
    BY <2>1, <2>4, <2>5 DEF TriageNext, Batch
  <2>7. /\ task[t] \in Row /\ task[u] \in Row /\ now \in Nat
        /\ Active(task[t]) /\ Active(task[u])
    <3>1. t \in Tasks /\ u \in Tasks /\ Active(task[t]) /\ Active(task[u])
      BY <2>6 DEF Eligible
    <3>2. task \in [Tasks -> Row]  BY <1>1 DEF TypeOK
    <3>3. now \in Nat  BY <1>1, TimeTypes
    <3> QED  BY <3>1, <3>2, <3>3
  <2>8. task[t].priority \in 1..5 /\ task[u].priority \in 1..5  BY <2>7, RowTypes
  <2>9. ~(task[u].priority + 2 <= task[t].priority)  BY <2>6, <2>7, RankWeights
  <2>10. Overdue(task[u], now) /\ ~Overdue(task[t], now) => ~(task[u].priority <= task[t].priority)
    BY <2>6, <2>7, RankWeights
  <2> QED  BY <2>8, <2>9, <2>10
<1>2. Base => TypeOK  BY DEF Base
<1>3. Spec => [][\A s \in Triagers : batch'[s] \notin {{}, batch[s]} =>
                  \A t \in batch'[s], u \in Eligible(now) \ batch'[s] :
                    /\ task[t].priority <= task[u].priority + 1
                    /\ Overdue(task[u], now) /\ task[u].priority <= task[t].priority
                         => Overdue(task[t], now)]_vars
  BY <1>1, <1>2, BaseHolds, PTL DEF Spec
<1> QED  BY <1>3 DEF TakesUrgentFirst

-----------------------------------------------------------------------------
(* The ritual's times. Target times are a day apart, and the last one      *)
(* before a time is the one less than a day before it.                     *)
LEMMA Division ==
  ASSUME NEW d \in Nat \ {0}, NEW q \in Int, NEW r \in 0..(d - 1)
  PROVE  (d * q + r) % d = r
<1> DEFINE a == d * q + r
<1>1. a \in Int /\ a % d \in 0..(d - 1) /\ a \div d \in Int  OBVIOUS
<1>2. a = d * (a \div d) + (a % d)  OBVIOUS
<1>3. \A p \in Int, s \in 0..(d - 1) : d * q + r = d * p + s => q = p /\ r = s  OBVIOUS
<1> QED  BY <1>1, <1>2, <1>3

LEMMA LastTargets ==
  ASSUME NEW n \in Int, NEW m \in Int, NEW k \in {0, 1},
         LastTarget(n) + k * Day <= m, m < LastTarget(n) + k * Day + Day
  PROVE  /\ LastTarget(m) = LastTarget(n) + k * Day
         /\ Left(m) = LastTarget(n) + k * Day + Day - m
         /\ LastTarget(n) <= n /\ n < LastTarget(n) + Day
<1>1. Day \in Nat \ {0} /\ RitualTime \in Int  BY TimesAssumption, RoundsAssumption
<1> DEFINE q == (n - RitualTime) \div Day
           a == (n - RitualTime) % Day
<1>2. n - RitualTime = Day * q + a /\ a \in 0..(Day - 1) /\ q \in Int  BY <1>1
<1>3. LastTarget(n) = n - a  BY <1>1, <1>2 DEF LastTarget, Left
<1> DEFINE b == m - (LastTarget(n) + k * Day)
<1>4. b \in 0..(Day - 1)  BY <1>1, <1>2, <1>3
<1>5. m - RitualTime = Day * (q + k) + b
  <2>1. k \in Int /\ Day * (q + k) = Day * q + k * Day  BY <1>1, <1>2
  <2> HIDE DEF q, a
  <2> QED  BY <1>1, <1>2, <1>3, <2>1
<1>6. q + k \in Int  BY <1>2
<1> HIDE DEF q, a, b
<1>7. (m - RitualTime) % Day = b  BY <1>1, <1>4, <1>5, <1>6, Division
<1>8. Left(m) = Day - b  BY <1>7 DEF Left
<1> QED  BY <1>1, <1>2, <1>3, <1>4, <1>8 DEF LastTarget, b

(* What a ritual has seen is no older than when it began, and a nap ends   *)
(* before the next target.                                                 *)
DigestOK ==
  /\ looked <= now /\ worked <= now /\ situation <= now
  /\ rpc = "nap" => wake <= looked + Left(looked)
  /\ rpc \in {"work", "refetch", "write"} => looked <= situation
  /\ rpc \in {"work", "write"} => worked <= situation
  /\ rpc = "notify" => looked <= written /\ worked <= written
  /\ DigestNotMissed

LEMMA DigestTypes ==
  ASSUME TypeOK
  PROVE  /\ now \in Nat /\ looked \in Nat /\ situation \in Nat /\ worked \in Nat
         /\ written \in Nat /\ wake \in Nat /\ now \in Times
         /\ Left(now) \in 1..Day /\ Left(looked) \in 1..Day
<1>1. now \in Nat /\ looked \in Nat /\ now \in Times  BY TimesAreNat DEF TypeOK
<1>2. /\ situation \in 0..MaxTime /\ worked \in 0..MaxTime /\ written \in 0..MaxTime
      /\ wake \in Nat
  BY DEF TypeOK
<1> QED  BY <1>1, <1>2, TimesAreNat, LeftType

LEMMA DigestSleeps ==
  ASSUME TypeOK, Sleeps, UNCHANGED <<now, situation, worked, written>>,
         worked <= now, situation <= now,
         hindered' \/ (written >= LastTarget(now) /\ written >= worked)
  PROVE  DigestOK'
<1>1. now + Nap(now) <= now + Left(now)  BY DigestTypes, RoundsAssumption DEF Nap
<1>2. rpc' = "nap" /\ wake' = now + Nap(now) /\ looked' = now  BY DEF Sleeps
<1>3. Left(looked)' = Left(now) /\ LastTarget(looked)' = LastTarget(now)
  BY <1>2 DEF Left, LastTarget
<1> QED  BY <1>1, <1>2, <1>3, DigestTypes DEF DigestOK, DigestNotMissed

LEMMA DigestScheduler == ASSUME TypeOK, DigestOK, Scheduler PROVE DigestOK'
<1> USE DEF clock
<1>1. CASE SchedulerWakes
  <2>1. CASE Crossed(Left(now))
    BY <1>1, <2>1, DigestTypes DEF SchedulerWakes, DigestOK, DigestNotMissed
  <2>2. CASE ~Crossed(Left(now))
    <3>1. Sleeps /\ UNCHANGED <<now, situation, worked, written>> /\ rpc = "nap" /\ now >= wake
      BY <1>1, <2>2 DEF SchedulerWakes
    <3>2. ASSUME ~hindered' PROVE written >= LastTarget(now) /\ written >= worked
      <4>1. ~hindered /\ now - wake < Day - Flip
        <5>1. ~hindered /\ ~(now - wake >= Day - Flip)  BY <1>1, <3>2 DEF SchedulerWakes
        <5> QED  BY <5>1, TimesAreNat, DigestTypes, RoundsAssumption
      <4>2. written >= LastTarget(looked) /\ written >= worked
        BY <3>1, <4>1 DEF DigestOK, DigestNotMissed
      <4>3. Left(now) <= Flip /\ Flip \in 1..Day /\ Day \in Nat \ {0}
        BY <2>2, DigestTypes, RoundsAssumption, TimesAssumption DEF Crossed
      <4>4. wake <= looked + Left(looked) /\ looked <= now  BY <3>1 DEF DigestOK
      <4>5. LastTarget(looked) \in Int /\ LastTarget(looked) + Day = looked + Left(looked)
            /\ LastTarget(looked) <= looked
        BY <4>3, DigestTypes DEF LastTarget
      <4>6. CASE now < LastTarget(looked) + Day
        <5>1. LastTarget(now) = LastTarget(looked)
          <6>1. LastTarget(looked) + 0 * Day <= now /\ now < LastTarget(looked) + 0 * Day + Day
            BY <4>3, <4>4, <4>5, <4>6, DigestTypes
          <6>2. LastTarget(now) = LastTarget(looked) + 0 * Day
            BY <6>1, DigestTypes, LastTargets
          <6> QED  BY <4>3, <4>5, <6>2
        <5> QED  BY <4>2, <5>1
      <4>7. CASE LastTarget(looked) + Day <= now
        <5>1. now < LastTarget(looked) + Day + (Day - Flip)
          BY <4>1, <4>3, <4>4, <4>5, DigestTypes
        <5>2. LastTarget(looked) + 1 * Day <= now /\ now < LastTarget(looked) + 1 * Day + Day
          BY <4>3, <4>5, <4>7, <5>1, DigestTypes
        <5>3. Left(now) = LastTarget(looked) + 1 * Day + Day - now
          BY <5>2, DigestTypes, LastTargets
        <5> QED  BY <4>3, <4>5, <5>1, <5>3, DigestTypes
      <4> QED  BY <4>3, <4>5, <4>6, <4>7, DigestTypes
    <3> QED  BY <3>1, <3>2, DigestSleeps DEF DigestOK
  <2> QED  BY <2>1, <2>2
<1>2. CASE RitualFetch  BY <1>2, DigestTypes DEF RitualFetch, DigestOK, DigestNotMissed
<1>3. CASE RitualWorks  BY <1>3, DigestTypes DEF RitualWorks, AfterWork, DigestOK, DigestNotMissed
<1>4. CASE RitualWrite  BY <1>4, DigestTypes DEF RitualWrite, DigestOK, DigestNotMissed
<1>5. CASE RitualEnds
  <2>1. /\ Sleeps /\ UNCHANGED <<now, situation, worked, written>> /\ rpc = "notify"
        /\ hindered' = (LastTarget(now) > looked)
    BY <1>5 DEF RitualEnds
  <2>2. LastTarget(now) \in Int  BY DigestTypes, TimesAreNat DEF LastTarget
  <2>3. hindered' \/ (written >= LastTarget(now) /\ written >= worked)
    <3>1. ~hindered' => ~(LastTarget(now) > looked)  BY <2>1
    <3>2. looked <= written /\ worked <= written  BY <2>1 DEF DigestOK
    <3> QED  BY <2>2, <3>1, <3>2, DigestTypes
  <2> QED  BY <2>1, <2>3, DigestSleeps DEF DigestOK
<1>6. CASE RitualFails \/ SchedulerDies
  <2>1. Sleeps /\ UNCHANGED <<now, situation, worked, written>> /\ hindered'
    BY <1>6 DEF RitualFails, SchedulerDies, Faulty
  <2> QED  BY <2>1, DigestSleeps DEF DigestOK
<1> QED  BY <1>1, <1>2, <1>3, <1>4, <1>5, <1>6 DEF Scheduler

LEMMA RitualElsewhere ==
  ASSUME Tick \/ Watch \/ Script \/ Triage \/ Records \/ UNCHANGED vars
         \/ (\E t \in Tasks, s \in MovedTo : Move(t, s))
  PROVE  UNCHANGED ritual
BY DEF Tick, Watch, WatchList, WatchDue, WatchStamp, WatchPlan, WatchKeep, WatchSave, TickFails,
  WatchDies, WatchRemind, WatchAnnounce, Script, ScriptList, ScriptStamp, ScriptStops,
  ScriptNotify, Triage, TriageMark, TriageNext, TriageApply, Move, Records, vars

LEMMA ClockStep == ASSUME TypeOK, [Next]_vars PROVE now' \in Nat /\ now <= now'
<1> USE DEF clock
<1>1. CASE Triage
  BY <1>1, TimeTypes, ShowElsewhere DEF Triage, TriageNext, TriageMark
<1>2. CASE ~Triage  BY <1>2, ShowElsewhere DEF Next
<1> QED  BY <1>1, <1>2

LEMMA DigestStep == ASSUME TypeOK, DigestOK, [Next]_vars PROVE DigestOK'
<1>1. CASE Scheduler  BY <1>1, DigestScheduler
<1>2. CASE UNCHANGED ritual
  <2>1. now' \in Nat /\ now <= now'  BY ClockStep
  <2>2. Left(looked)' = Left(looked) /\ LastTarget(looked)' = LastTarget(looked)
    BY <1>2 DEF ritual, Left, LastTarget
  <2> QED  BY <1>2, <2>1, <2>2, DigestTypes DEF DigestOK, DigestNotMissed, ritual
<1> QED  BY <1>1, <1>2, RitualElsewhere DEF Next

LEMMA DigestInit == ASSUME Init PROVE DigestOK
<1>1. LastTarget(1) \in Int /\ 1 + Nap(1) <= 1 + Left(1)
  BY LeftType, NapType, TimesAreNat, RoundsAssumption DEF LastTarget, Nap, Times
<1>2. ~hindered => ~(LastTarget(1) > 0)  BY DEF Init
<1>3. Left(looked) = Left(1) /\ LastTarget(looked) = LastTarget(1)  BY DEF Init
<1>4. DigestNotMissed  BY <1>1, <1>2, <1>3 DEF Init, DigestNotMissed
<1> QED  BY <1>1, <1>3, <1>4 DEF Init, DigestOK

(* Every day has its digest, of a board read after the work.               *)
THEOREM DigestsAreNotMissed == Spec => []DigestNotMissed
<1>1. Base /\ DigestOK /\ [Next]_vars => DigestOK'  BY DigestStep DEF Base
<1>2. DigestOK => DigestNotMissed  BY DEF DigestOK
<1> QED  BY <1>1, <1>2, DigestInit, BaseHolds, PTL DEF Spec

-----------------------------------------------------------------------------
(* When a ritual under way was started.                                    *)
RunsInGrace ==
  rpc # "nap" => /\ LastTarget(looked) <= looked
                 /\ looked < LastTarget(looked) + (Day - Flip)

LEMMA CrossedInGrace ==
  ASSUME NEW n \in Int, Crossed(Left(n))
  PROVE  LastTarget(n) <= n /\ n < LastTarget(n) + (Day - Flip)
<1>1. Left(n) \in 1..Day /\ Left(n) > Flip  BY LeftType DEF Crossed
<1>2. Day \in Nat /\ Flip \in Nat  BY TimesAssumption, RoundsAssumption
<1> QED  BY <1>1, <1>2 DEF LastTarget

LEMMA GraceStep == ASSUME TypeOK, RunsInGrace, [Next]_vars PROVE RunsInGrace'
<1>1. ASSUME UNCHANGED looked, rpc # "nap" \/ rpc' = "nap" PROVE RunsInGrace'
  <2>1. LastTarget(looked)' = LastTarget(looked)  BY <1>1 DEF LastTarget, Left
  <2> QED  BY <1>1, <2>1 DEF RunsInGrace
<1>2. CASE SchedulerWakes
  <2>1. CASE Crossed(Left(now))
    <3>1. looked' = now /\ now \in Int  BY <1>2, <2>1, DigestTypes DEF SchedulerWakes
    <3>2. LastTarget(looked)' = LastTarget(now)  BY <3>1 DEF LastTarget, Left
    <3> QED  BY <2>1, <3>1, <3>2, CrossedInGrace DEF RunsInGrace
  <2>2. CASE ~Crossed(Left(now))
    BY <1>2, <2>2 DEF SchedulerWakes, Sleeps, RunsInGrace
  <2> QED  BY <2>1, <2>2
<1>3. CASE RitualFetch \/ RitualWorks \/ RitualWrite
  <2>1. UNCHANGED looked /\ rpc # "nap"  BY <1>3 DEF RitualFetch, RitualWorks, RitualWrite
  <2> QED  BY <1>1, <2>1
<1>4. CASE RitualEnds \/ RitualFails \/ SchedulerDies
  BY <1>4 DEF RitualEnds, RitualFails, SchedulerDies, Sleeps, RunsInGrace
<1>5. CASE UNCHANGED ritual  BY <1>1, <1>5 DEF ritual
<1> QED  BY <1>2, <1>3, <1>4, <1>5, RitualElsewhere DEF Next, Scheduler

(* The scheduler starts the ritual at its time and within the half hour    *)
(* after it, however long naps and rituals take and however often they     *)
(* fail: what runs again before the next day runs again in that half hour  *)
(* (scheduler.py:59-68).                                                   *)
THEOREM RitualStartsInGrace == Spec => []RunsInGrace
<1>1. Init => RunsInGrace  BY DEF Init, RunsInGrace
<1>2. Base /\ RunsInGrace /\ [Next]_vars => RunsInGrace'  BY GraceStep DEF Base
<1> QED  BY <1>1, <1>2, BaseHolds, PTL DEF Spec
=============================================================================
