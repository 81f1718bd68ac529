---------------------------- MODULE SourceHealth -----------------------------
(***************************************************************************)
(* POST /api/agent/sources/report (src/app/main.py) on the row of one      *)
(* source in source_states, in both stores of src/app/ingestion_store.py.  *)
(*                                                                         *)
(* SqliteIngestionStore.report_source reads the row and then inserts it or *)
(* updates it on a condition; the two statements of one report interleave  *)
(* with those of others, which may arrive in any order. FirestoreIngestion *)
(* Store.report_source does it all in one transaction. Sources do not      *)
(* affect one another. Metrics, error details and the adapter's name are   *)
(* copied from the report with its status and are not kept apart from it.  *)
(***************************************************************************)
EXTENDS Naturals, FiniteSets

CONSTANTS
  Reporters,  (* callers, each with one report on its way at a time        *)
  MaxTime,    (* bound: checked_at values                                  *)
  NoState     (* the source has no row                                     *)

Times == 1..MaxTime
Never == 0

(* ok: the status is healthy; at: checked_at, the adapter's or the         *)
(* server's.                                                               *)
Report == [ok : BOOLEAN, at : Times]

State == [ok : BOOLEAN, checked : Times,
          success : Times \cup {Never}, error : Times \cup {Never}]

ASSUME SourceAssumption ==
  /\ MaxTime \in Nat \ {0}
  /\ NoState \notin State

VARIABLES
  backend,    (* "sqlite" or "firestore": settings.use_firestore           *)
  source,     (* the row                                                   *)
  pc,         (* where each report is                                      *)
  report,     (* the report each caller sends                              *)
  previous,   (* the row as that request read it                           *)
  shown,      (* history: reports that became the state                    *)
  answered    (* history: reports whose caller got its answer              *)

vars == <<backend, source, pc, report, previous, shown, answered>>

TypeOK ==
  /\ backend \in {"sqlite", "firestore"}
  /\ source \in State \cup {NoState}
  /\ pc \in [Reporters -> {"idle", "insert", "update"}]
  /\ report \in [Reporters -> Report]
  /\ previous \in [Reporters -> State \cup {NoState}]
  /\ shown \subseteq Report
  /\ answered \subseteq Report

-----------------------------------------------------------------------------
(* get_ingestion_store: the deployment chooses the store once.             *)
Init ==
  /\ backend \in {"sqlite", "firestore"}
  /\ source = NoState
  /\ pc = [c \in Reporters |-> "idle"]
  /\ report = [c \in Reporters |-> [ok |-> TRUE, at |-> 1]]
  /\ previous = [c \in Reporters |-> NoState]
  /\ shown = {}
  /\ answered = {}

(* _source_state_data: a healthy report keeps the time of the last error   *)
(* it knows of, a failing one that of the last success.                    *)
Success(p) == IF p = NoState THEN Never ELSE p.success
Error(p) == IF p = NoState THEN Never ELSE p.error

StateData(r, p) ==
  [ok |-> r.ok, checked |-> r.at,
   success |-> IF r.ok THEN r.at ELSE Success(p),
   error |-> IF r.ok THEN Error(p) ELSE r.at]

Answer(c) ==
  /\ pc' = [pc EXCEPT ![c] = "idle"]
  /\ report' = [report EXCEPT ![c] = [ok |-> TRUE, at |-> 1]]
  /\ previous' = [previous EXCEPT ![c] = NoState]
  /\ answered' = answered \cup {report[c]}

(* SQLite: the row is read.                                                *)
ReportRead(c, r) ==
  /\ backend = "sqlite"
  /\ pc[c] = "idle"
  /\ report' = [report EXCEPT ![c] = r]
  /\ previous' = [previous EXCEPT ![c] = source]
  /\ pc' = [pc EXCEPT ![c] = IF source = NoState THEN "insert" ELSE "update"]
  /\ UNCHANGED <<backend, source, shown, answered>>

(* Mutant: the report that loses the insert race is dropped.               *)
ReportInsertOnly(c) ==
  /\ pc[c] = "insert"
  /\ IF source = NoState
     THEN /\ source' = StateData(report[c], previous[c])
          /\ shown' = shown \cup {report[c]}
     ELSE UNCHANGED <<source, shown>>
  /\ Answer(c)
  /\ UNCHANGED backend

(* There was none: INSERT it. Another report may have been first: the      *)
(* IntegrityError sends this one to the UPDATE.                            *)
ReportInsert(c) ==
  /\ pc[c] = "insert"
  /\ IF source = NoState
     THEN /\ source' = StateData(report[c], previous[c])
          /\ shown' = shown \cup {report[c]}
          /\ Answer(c)
     ELSE /\ pc' = [pc EXCEPT ![c] = "update"]
          /\ UNCHANGED <<source, report, previous, shown, answered>>
  /\ UNCHANGED backend

(* Mutant: a report of the same time overwrites.                           *)
SupersedesEqual(r) == source.checked <= r.at

(* UPDATE ... WHERE last_checked_at < :checked_at.                         *)
Supersedes(r) == source.checked < r.at

(* Mutant: the kept time is the one that was read.                         *)
UpdatedFromSnapshot(r, p) == StateData(r, p)

(* The time the report does not set keeps its column's value, not the one  *)
(* that was read.                                                          *)
Updated(r, p) ==
  IF r.ok THEN [StateData(r, p) EXCEPT !.error = source.error]
          ELSE [StateData(r, p) EXCEPT !.success = source.success]

ReportUpdate(c) ==
  /\ pc[c] = "update"
  /\ IF Supersedes(report[c])
     THEN /\ source' = Updated(report[c], previous[c])
          /\ shown' = shown \cup {report[c]}
     ELSE UNCHANGED <<source, shown>>
  /\ Answer(c)
  /\ UNCHANGED backend

(* Firestore: read, compare and set in one transaction.                    *)
ReportTransaction(r) ==
  /\ backend = "firestore"
  /\ IF source = NoState \/ r.at > source.checked
     THEN /\ source' = StateData(r, source)
          /\ shown' = shown \cup {r}
     ELSE UNCHANGED <<source, shown>>
  /\ answered' = answered \cup {r}
  /\ UNCHANGED <<backend, pc, report, previous>>

(* The server dies between two statements: the reports on their way are    *)
(* lost, their callers get no answer.                                      *)
Restart ==
  /\ \E c \in Reporters : pc[c] # "idle"
  /\ pc' = [c \in Reporters |-> "idle"]
  /\ report' = [c \in Reporters |-> [ok |-> TRUE, at |-> 1]]
  /\ previous' = [c \in Reporters |-> NoState]
  /\ UNCHANGED <<backend, source, shown, answered>>

Next ==
  \/ \E c \in Reporters :
       \/ \E r \in Report : ReportRead(c, r)
       \/ ReportInsert(c)
       \/ ReportUpdate(c)
  \/ \E r \in Report : ReportTransaction(r)
  \/ Restart

Spec == Init /\ [][Next]_vars

-----------------------------------------------------------------------------
(* A report that was answered is the state, or a later one is: none is     *)
(* lost to another that was on its way at the same time (a lost insert     *)
(* race goes on to the UPDATE, ingestion_store.py 117-138).                *)
AnsweredIsShown ==
  \A a \in answered : source # NoState /\ source.checked >= a.at

(* t is the time of the latest of the reports.                             *)
IsLatest(t, reports) ==
  /\ \A r \in reports : r.at <= t
  /\ IF reports = {} THEN t = Never ELSE \E r \in reports : r.at = t

(* The row sums up the reports that were shown: its status is that of the  *)
(* latest, last_success_at and last_error_at are the times of the latest   *)
(* healthy and failing ones, although each UPDATE knows only one of them   *)
(* (ingestion_store.py 77-78 and 124-128).                                 *)
RowSumsUpReports ==
  /\ source = NoState <=> shown = {}
  /\ source # NoState =>
       /\ IsLatest(source.checked, shown)
       /\ [ok |-> source.ok, at |-> source.checked] \in shown
       /\ IsLatest(source.success, {r \in shown : r.ok})
       /\ IsLatest(source.error, {r \in shown : ~ r.ok})

(* docs/ADAPTER_CONTRACT.md: an older or equal report never overwrites a   *)
(* newer state, and no step removes the row or changes it back.            *)
NeverOlder ==
  [][source # NoState /\ source' # source =>
       source' # NoState /\ source'.checked > source.checked]_vars

Register == INSTANCE LatestReport WITH Reports <- Report

(* Both stores implement the register of the latest report: the read and   *)
(* the write of one report act as one step.                                *)
ImplementsLatestReport == Register!Spec

=============================================================================
