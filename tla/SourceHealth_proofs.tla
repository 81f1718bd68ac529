------------------------- MODULE SourceHealth_proofs -------------------------
(***************************************************************************)
(* Theorems about SourceHealth, for any number of reporters and any bound  *)
(* on the times of their reports.                                          *)
(***************************************************************************)
EXTENDS SourceHealth, TLAPS

LEMMA StatesAreStates == \A s \in State : s # NoState
  BY SourceAssumption

LEMMA DefaultReport == [ok |-> TRUE, at |-> 1] \in Report
  BY SourceAssumption DEF Report, Times

LEMMA StateDataType ==
  ASSUME NEW r \in Report, NEW p \in State \cup {NoState}
  PROVE  StateData(r, p) \in State
  BY DEF StateData, Success, Error, Report, State

LEMMA UpdatedType ==
  ASSUME NEW r \in Report, NEW p \in State \cup {NoState}, source \in State
  PROVE  /\ Updated(r, p) \in State
         /\ Updated(r, p).ok = r.ok /\ Updated(r, p).checked = r.at
         /\ Updated(r, p).success = IF r.ok THEN r.at ELSE source.success
         /\ Updated(r, p).error = IF r.ok THEN source.error ELSE r.at
  BY DEF Updated, StateData, Success, Error, Report, State

(* A report that inserts has found no row; one that updates has one. *)
PcOK ==
  /\ \A c \in Reporters : pc[c] = "insert" => previous[c] = NoState
  /\ \A c \in Reporters : pc[c] = "update" => source # NoState

IInv == TypeOK /\ PcOK /\ AnsweredIsShown /\ RowSumsUpReports

(* What one step does to the row: nothing, or it shows a newer report. *)
ShowsNewer(r) ==
  /\ r \in Report
  /\ source # NoState => source.checked < r.at
  /\ source' \in State
  /\ source'.ok = r.ok /\ source'.checked = r.at
  /\ source'.success = IF r.ok THEN r.at
                       ELSE IF source = NoState THEN Never ELSE source.success
  /\ source'.error = IF ~ r.ok THEN r.at
                     ELSE IF source = NoState THEN Never ELSE source.error
  /\ shown' = shown \cup {r}

RowStep == (\E r \in Report : ShowsNewer(r)) \/ UNCHANGED <<source, shown>>

LEMMA InsertStep ==
  ASSUME IInv, NEW c \in Reporters, ReportInsert(c)
  PROVE  /\ RowStep
         /\ source' # NoState /\ (source = NoState => ShowsNewer(report[c]))
  <1>1. report[c] \in Report /\ previous[c] = NoState
    BY DEF IInv, TypeOK, PcOK, ReportInsert
  <1>2. CASE source = NoState
    <2>1. source' = StateData(report[c], NoState) /\ shown' = shown \cup {report[c]}
      BY <1>1, <1>2 DEF ReportInsert
    <2>2. source' \in State
      BY <1>1, <2>1, StateDataType
    <2>3. ShowsNewer(report[c])
      BY <1>1, <1>2, <2>1, <2>2 DEF ShowsNewer, StateData, Success, Error
    <2>4. QED
      BY <1>1, <2>2, <2>3, StatesAreStates DEF RowStep
  <1>3. CASE source # NoState
    BY <1>3 DEF ReportInsert, RowStep
  <1>4. QED
    BY <1>2, <1>3

LEMMA UpdateStep ==
  ASSUME IInv, NEW c \in Reporters, ReportUpdate(c)
  PROVE  /\ RowStep
         /\ source' # NoState
         /\ ShowsNewer(report[c]) \/ (UNCHANGED source /\ source.checked >= report[c].at)
  <1>1. report[c] \in Report /\ previous[c] \in State \cup {NoState} /\ source \in State
    BY DEF IInv, TypeOK, PcOK, ReportUpdate
  <1>2. CASE Supersedes(report[c])
    <2>1. source' = Updated(report[c], previous[c]) /\ shown' = shown \cup {report[c]}
      BY <1>2 DEF ReportUpdate
    <2>2. ShowsNewer(report[c])
      BY <1>1, <1>2, <2>1, UpdatedType, StatesAreStates DEF ShowsNewer, Supersedes
    <2>3. QED
      BY <1>1, <2>2, StatesAreStates DEF RowStep, ShowsNewer
  <1>3. CASE ~ Supersedes(report[c])
    <2>1. UNCHANGED <<source, shown>>
      BY <1>3 DEF ReportUpdate
    <2>2. source.checked >= report[c].at
      BY <1>1, <1>3 DEF Supersedes, State, Report, Times
    <2>3. QED
      BY <1>1, <2>1, <2>2, StatesAreStates DEF RowStep
  <1>4. QED
    BY <1>2, <1>3

LEMMA TransactionStep ==
  ASSUME IInv, NEW r \in Report, ReportTransaction(r)
  PROVE  /\ RowStep
         /\ source' # NoState
         /\ ShowsNewer(r) \/ (UNCHANGED source /\ source.checked >= r.at)
  <1>1. source \in State \cup {NoState}
    BY DEF IInv, TypeOK
  <1>2. CASE source = NoState \/ r.at > source.checked
    <2>1. source' = StateData(r, source) /\ shown' = shown \cup {r}
      BY <1>2 DEF ReportTransaction
    <2>2. source' \in State
      BY <1>1, <2>1, StateDataType
    <2>3. source # NoState => source.checked < r.at
      BY <1>1, <1>2 DEF State, Report, Times
    <2>4. ShowsNewer(r)
      BY <2>1, <2>2, <2>3 DEF ShowsNewer, StateData, Success, Error
    <2>5. QED
      BY <2>2, <2>4, StatesAreStates DEF RowStep
  <1>3. CASE ~ (source = NoState \/ r.at > source.checked)
    <2>1. source.checked >= r.at
      BY <1>1, <1>3 DEF State, Report, Times
    <2>2. QED
      BY <1>3, <2>1 DEF ReportTransaction, RowStep
  <1>4. QED
    BY <1>2, <1>3

LEMMA Steps ==
  ASSUME IInv, [Next]_vars
  PROVE  RowStep
  BY InsertStep, UpdateStep, TransactionStep
     DEF Next, vars, ReportRead, Restart, RowStep

-----------------------------------------------------------------------------
LEMMA AnswerType ==
  ASSUME TypeOK, NEW c \in Reporters, Answer(c)
  PROVE  /\ pc' \in [Reporters -> {"idle", "insert", "update"}]
         /\ report' \in [Reporters -> Report]
         /\ previous' \in [Reporters -> State \cup {NoState}]
         /\ answered' \subseteq Report
  BY DefaultReport DEF Answer, TypeOK

LEMMA TypeInv == IInv /\ [Next]_vars => TypeOK'
  <1> SUFFICES ASSUME IInv, [Next]_vars
               PROVE  TypeOK'
    OBVIOUS
  <1>0. TypeOK
    BY DEF IInv
  <1>1. source' \in State \cup {NoState} /\ shown' \subseteq Report
    BY <1>0, Steps DEF RowStep, ShowsNewer, TypeOK
  <1>2. ASSUME NEW c \in Reporters, NEW r \in Report, ReportRead(c, r)
        PROVE  TypeOK'
    BY <1>0, <1>2 DEF ReportRead, TypeOK
  <1>3. ASSUME NEW c \in Reporters, ReportInsert(c)
        PROVE  TypeOK'
    <2>1. CASE source = NoState
      BY <1>0, <1>1, <1>3, <2>1, AnswerType DEF ReportInsert, TypeOK
    <2>2. CASE source # NoState
      BY <1>0, <1>3, <2>2 DEF ReportInsert, TypeOK
    <2>3. QED
      BY <2>1, <2>2
  <1>4. ASSUME NEW c \in Reporters, ReportUpdate(c)
        PROVE  TypeOK'
    BY <1>0, <1>1, <1>4, AnswerType DEF ReportUpdate, TypeOK
  <1>5. ASSUME NEW r \in Report, ReportTransaction(r)
        PROVE  TypeOK'
    BY <1>0, <1>1, <1>5 DEF ReportTransaction, TypeOK
  <1>6. ASSUME Restart
        PROVE  TypeOK'
    BY <1>0, <1>6, DefaultReport DEF Restart, TypeOK
  <1>7. CASE UNCHANGED vars
    BY <1>0, <1>7 DEF vars, TypeOK
  <1>8. QED
    BY <1>2, <1>3, <1>4, <1>5, <1>6, <1>7 DEF Next

(* A row that is there stays there. *)
LEMMA RowStays ==
  ASSUME IInv, [Next]_vars, source # NoState
  PROVE  source' # NoState
  BY Steps, StatesAreStates DEF RowStep, ShowsNewer

LEMMA PcInv == IInv /\ [Next]_vars => PcOK'
  <1> SUFFICES ASSUME IInv, [Next]_vars
               PROVE  PcOK'
    OBVIOUS
  <1>0. PcOK /\ (source # NoState => source' # NoState)
    BY RowStays DEF IInv
  <1>t. /\ pc \in [Reporters -> {"idle", "insert", "update"}]
        /\ previous \in [Reporters -> State \cup {NoState}]
    BY DEF IInv, TypeOK
  <1>2. ASSUME NEW c \in Reporters, NEW r \in Report, ReportRead(c, r)
        PROVE  PcOK'
    BY <1>0, <1>t, <1>2 DEF ReportRead, PcOK
  <1>3. ASSUME NEW c \in Reporters, ReportInsert(c)
        PROVE  PcOK'
    BY <1>0, <1>t, <1>3, InsertStep DEF ReportInsert, Answer, PcOK
  <1>4. ASSUME NEW c \in Reporters, ReportUpdate(c)
        PROVE  PcOK'
    BY <1>0, <1>t, <1>4 DEF ReportUpdate, Answer, PcOK
  <1>5. ASSUME NEW r \in Report, ReportTransaction(r)
        PROVE  PcOK'
    BY <1>0, <1>5 DEF ReportTransaction, PcOK
  <1>6. ASSUME Restart
        PROVE  PcOK'
    BY <1>6 DEF Restart, PcOK
  <1>7. CASE UNCHANGED vars
    BY <1>0, <1>7 DEF vars, PcOK
  <1>8. QED
    BY <1>2, <1>3, <1>4, <1>5, <1>6, <1>7 DEF Next
-----------------------------------------------------------------------------
(* Times of shown reports and of the row are numbers. *)
LEMMA Checked ==
  ASSUME IInv, [Next]_vars, source # NoState
  PROVE  /\ source'.checked \in Nat /\ source.checked \in Nat
         /\ source'.checked >= source.checked
         /\ source' # source => source'.checked > source.checked
  <1>1. source \in State
    BY DEF IInv, TypeOK
  <1>2. source.checked \in Nat
    BY <1>1 DEF State, Times
  <1>3. CASE UNCHANGED source
    BY <1>2, <1>3
  <1>4. ASSUME NEW r \in Report, ShowsNewer(r)
        PROVE  source'.checked \in Nat /\ source'.checked > source.checked
    BY <1>2, <1>4 DEF ShowsNewer, Report, Times
  <1>5. QED
    BY <1>2, <1>3, <1>4, Steps DEF RowStep

(* The time of an answered report stays behind the row's. *)
LEMMA AnsweredInv == IInv /\ [Next]_vars => AnsweredIsShown'
  <1> SUFFICES ASSUME IInv, [Next]_vars
               PROVE  AnsweredIsShown'
    OBVIOUS
  <1> DEFINE Behind(a) == source' # NoState /\ source'.checked >= a.at
  <1>1. \A a \in answered : Behind(a)
    <2> SUFFICES ASSUME NEW a \in answered
                 PROVE  Behind(a)
      OBVIOUS
    <2>1. source # NoState /\ source.checked >= a.at /\ a.at \in Nat
      BY DEF IInv, AnsweredIsShown, TypeOK, Report, Times
    <2>2. QED
      BY <2>1, Checked, RowStays
  <1>t. \A r \in Report : r.at \in Nat
    BY DEF Report, Times
  <1>2. ASSUME NEW r \in Report, source' # NoState,
               ShowsNewer(r) \/ (UNCHANGED source /\ source.checked >= r.at)
        PROVE  Behind(r)
    BY <1>t, <1>2 DEF ShowsNewer
  <1>3. ASSUME NEW c \in Reporters, ReportInsert(c)
        PROVE  \A a \in answered' : Behind(a)
    <2>1. report[c] \in Report
      BY DEF IInv, TypeOK
    <2>2. CASE source = NoState
      <3>1. answered' = answered \cup {report[c]}
        BY <1>3, <2>2 DEF ReportInsert, Answer
      <3>2. QED
        BY <1>1, <1>2, <1>3, <2>1, <2>2, <3>1, InsertStep
    <2>3. CASE source # NoState
      BY <1>1, <1>3, <2>3 DEF ReportInsert
    <2>4. QED
      BY <2>2, <2>3
  <1>4. ASSUME NEW c \in Reporters, ReportUpdate(c)
        PROVE  \A a \in answered' : Behind(a)
    <2>1. report[c] \in Report /\ answered' = answered \cup {report[c]}
      BY <1>4 DEF ReportUpdate, Answer, IInv, TypeOK
    <2>2. QED
      BY <1>1, <1>2, <1>4, <2>1, UpdateStep
  <1>5. ASSUME NEW r \in Report, ReportTransaction(r)
        PROVE  \A a \in answered' : Behind(a)
    <2>1. answered' = answered \cup {r}
      BY <1>5 DEF ReportTransaction
    <2>2. QED
      BY <1>1, <1>2, <1>5, <2>1, TransactionStep
  <1>6. ASSUME UNCHANGED answered
        PROVE  \A a \in answered' : Behind(a)
    BY <1>1, <1>6
  <1>7. \A a \in answered' : Behind(a)
    BY <1>3, <1>4, <1>5, <1>6 DEF Next, vars, ReportRead, Restart
  <1>8. QED
    BY <1>7 DEF AnsweredIsShown

(* A newer report becomes the latest of the set it joins, and leaves the   *)
(* latest of any set it does not join. *)
LEMMA LatestJoins ==
  ASSUME NEW S \in SUBSET Report, NEW r \in Report, \A s \in S : s.at < r.at
  PROVE  IsLatest(r.at, S \cup {r})
  <1>1. r.at \in Nat /\ \A s \in S : s.at \in Nat
    BY DEF Report, Times
  <1>2. \A s \in S \cup {r} : s.at <= r.at
    BY <1>1
  <1>3. QED
    BY <1>2 DEF IsLatest

LEMMA SumsInv == IInv /\ [Next]_vars => RowSumsUpReports'
  <1> SUFFICES ASSUME IInv, [Next]_vars
               PROVE  RowSumsUpReports'
    OBVIOUS
  <1>0. RowSumsUpReports /\ shown \subseteq Report /\ source \in State \cup {NoState}
    BY DEF IInv, TypeOK
  <1>1. CASE UNCHANGED <<source, shown>>
    BY <1>0, <1>1 DEF RowSumsUpReports
  <1>2. ASSUME NEW r \in Report, ShowsNewer(r)
        PROVE  RowSumsUpReports'
    <2>1. shown' = shown \cup {r} /\ source' # NoState
      BY <1>2, StatesAreStates DEF ShowsNewer
    <2>2. \A s \in shown : s.at < r.at
      <3> SUFFICES ASSUME NEW s \in shown
                   PROVE  s.at < r.at
        OBVIOUS
      <3>1. source # NoState /\ s.at <= source.checked
        BY <1>0 DEF RowSumsUpReports, IsLatest
      <3>2. s.at \in Nat /\ r.at \in Nat /\ source.checked \in Nat
        BY <1>0, <3>1 DEF Report, State, Times
      <3>3. QED
        BY <1>2, <3>1, <3>2 DEF ShowsNewer
    <2>3. IsLatest(source'.checked, shown')
      BY <1>0, <1>2, <2>1, <2>2, LatestJoins DEF ShowsNewer
    <2>4. [ok |-> source'.ok, at |-> source'.checked] \in shown'
      <3>1. r = [ok |-> r.ok, at |-> r.at]
        BY DEF Report
      <3>2. QED
        BY <1>2, <2>1, <3>1 DEF ShowsNewer
    <2> DEFINE Healthy(S) == {s \in S : s.ok}
               Failing(S) == {s \in S : ~ s.ok}
    <2>h. source = NoState => Healthy(shown) = {} /\ Failing(shown) = {}
      BY <1>0 DEF RowSumsUpReports
    <2>l. /\ source # NoState => IsLatest(source.success, Healthy(shown))
          /\ source # NoState => IsLatest(source.error, Failing(shown))
      BY <1>0 DEF RowSumsUpReports
    <2>e. IsLatest(Never, {})
      BY DEF IsLatest
    <2>5. ASSUME r.ok
          PROVE  /\ IsLatest(source'.success, Healthy(shown'))
                 /\ IsLatest(source'.error, Failing(shown'))
      <3>1. Healthy(shown') = Healthy(shown) \cup {r} /\ Failing(shown') = Failing(shown)
        BY <2>1, <2>5
      <3>2. IsLatest(r.at, Healthy(shown) \cup {r})
        <4>1. Healthy(shown) \in SUBSET Report /\ \A s \in Healthy(shown) : s.at < r.at
          BY <1>0, <2>2
        <4>2. QED
          BY <4>1, LatestJoins
      <3>3. source'.success = r.at
        BY <1>2, <2>5 DEF ShowsNewer
      <3>4. source'.error = IF source = NoState THEN Never ELSE source.error
        BY <1>2, <2>5 DEF ShowsNewer
      <3>5. QED
        BY <2>h, <2>l, <2>e, <3>1, <3>2, <3>3, <3>4
    <2>6. ASSUME ~ r.ok
          PROVE  /\ IsLatest(source'.success, Healthy(shown'))
                 /\ IsLatest(source'.error, Failing(shown'))
      <3>1. Failing(shown') = Failing(shown) \cup {r} /\ Healthy(shown') = Healthy(shown)
        BY <2>1, <2>6
      <3>2. IsLatest(r.at, Failing(shown) \cup {r})
        <4>1. Failing(shown) \in SUBSET Report /\ \A s \in Failing(shown) : s.at < r.at
          BY <1>0, <2>2
        <4>2. QED
          BY <4>1, LatestJoins
      <3>3. source'.error = r.at
        BY <1>2, <2>6 DEF ShowsNewer
      <3>4. source'.success = IF source = NoState THEN Never ELSE source.success
        BY <1>2, <2>6 DEF ShowsNewer
      <3>5. QED
        BY <2>h, <2>l, <2>e, <3>1, <3>2, <3>3, <3>4
    <2>7. QED
      BY <2>1, <2>3, <2>4, <2>5, <2>6 DEF RowSumsUpReports
  <1>3. QED
    BY <1>1, <1>2, Steps DEF RowStep

LEMMA Inductive == IInv /\ [Next]_vars => IInv'
  BY TypeInv, PcInv, AnsweredInv, SumsInv DEF IInv

LEMMA Initially == Init => IInv
  BY DefaultReport
     DEF Init, IInv, TypeOK, PcOK, AnsweredIsShown, RowSumsUpReports

LEMMA Invariance == Spec => []IInv
  BY Initially, Inductive, PTL DEF Spec

-----------------------------------------------------------------------------
(* Every reachable state is well typed. *)
THEOREM HealthTypeCorrect == Spec => []TypeOK
  BY Invariance, PTL DEF IInv

(* A report that was answered is the state, or a later one is. *)
THEOREM ReportsAreNotLost == Spec => []AnsweredIsShown
  BY Invariance, PTL DEF IInv

(* The row always sums up the reports that were shown. *)
THEOREM RowsSumUp == Spec => []RowSumsUpReports
  BY Invariance, PTL DEF IInv

(* No step replaces a state by an older or equally old one. *)
THEOREM NeverGoesBack == Spec => NeverOlder
  <1>1. IInv /\ [Next]_vars =>
          [source # NoState /\ source' # source =>
             source' # NoState /\ source'.checked > source.checked]_vars
    BY Checked, RowStays
  <1>2. QED
    BY <1>1, Invariance, PTL DEF Spec, NeverOlder

(* Both stores implement the register of the latest report. *)
THEOREM HealthImplementsRegister == Spec => ImplementsLatestReport
  <1>1. Init => Register!Init
    BY DEF Init, Register!Init
  <1>2. IInv /\ [Next]_vars => [Register!Next]_shown
    <2> SUFFICES ASSUME IInv, [Next]_vars, NEW r \in Report, ShowsNewer(r)
                 PROVE  Register!Show(r)
      BY Steps DEF RowStep, Register!Next
    <2>1. \A s \in shown : s.at < r.at
      <3> SUFFICES ASSUME NEW s \in shown
                   PROVE  s.at < r.at
        OBVIOUS
      <3>1. source # NoState /\ s.at <= source.checked
        BY DEF IInv, RowSumsUpReports, IsLatest
      <3>2. s.at \in Nat /\ r.at \in Nat /\ source.checked \in Nat
        BY <3>1 DEF IInv, TypeOK, Report, State, Times
      <3>3. QED
        BY <3>1, <3>2 DEF ShowsNewer
    <2>2. QED
      BY <2>1 DEF ShowsNewer, Register!Show, Register!Newer
  <1>3. QED
    BY <1>1, <1>2, Invariance, PTL DEF Spec, ImplementsLatestReport, Register!Spec


=============================================================================
