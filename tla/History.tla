------------------------------ MODULE History -------------------------------
(***************************************************************************)
(* The history of the tasks (app/history.py): a background task of the     *)
(* server process that changed a task appends a row to a sheet of a        *)
(* spreadsheet. The first one in each process looks the sheet up, makes it *)
(* and writes its header, while the others of that process wait. Whatever  *)
(* fails is logged, and the event is lost.                                 *)
(***************************************************************************)
EXTENDS FiniteSets

CONSTANTS Events, Processes

ASSUME ProcessesAssumption == Processes # {}

VARIABLES
  recording, (* where the record_task_event of an event is                 *)
  server,    (* the process it runs in                                     *)
  ready,     (* the processes with _history_sheet_ready                    *)
  sheet,     (* the sheet: none, without its header, or with it            *)
  rows,      (* the events in it                                           *)
  stale,     (* history: processes ready since before the sheet went       *)
  excused    (* history: events a fault or another process may have undone *)

history == <<recording, server, ready, sheet, rows, stale, excused>>

HistoryTypeOK ==
  /\ recording \in [Events -> {"none", "ensure", "lookup", "create", "header", "append",
                               "over"}]
  /\ server \in [Events -> Processes]
  /\ ready \subseteq Processes /\ stale \subseteq Processes
  /\ sheet \in {"none", "bare", "headed"}
  /\ rows \subseteq Events /\ excused \subseteq Events

HistoryInit ==
  /\ recording = [e \in Events |-> "none"]
  /\ server = [e \in Events |-> CHOOSE p \in Processes : TRUE]
  /\ ready = {} /\ stale = {}
  /\ sheet = "none" /\ rows = {}
  /\ excused = {}

Goes(e, place) == recording' = [recording EXCEPT ![e] = place]

(* background_tasks.add_task of an event, in process p.                    *)
Begin(e, p) ==
  /\ recording[e] = "none"
  /\ Goes(e, "ensure")
  /\ server' = [server EXCEPT ![e] = p]
  /\ UNCHANGED <<ready, sheet, rows, stale, excused>>

(* Mutant: the lock is not taken.                                          *)
Unlocked(p) == TRUE

(* _history_lock of process p is free.                                     *)
LockFree(p) ==
  \A e \in Events : server[e] = p => recording[e] \notin {"lookup", "create", "header"}

Ensure(e) ==
  /\ recording[e] = "ensure"
  /\ \/ server[e] \in ready /\ Goes(e, "append")
     \/ server[e] \notin ready /\ LockFree(server[e]) /\ Goes(e, "lookup")
  /\ UNCHANGED <<server, ready, sheet, rows, stale, excused>>

(* The events of other processes that have found no sheet either.          *)
Rivals(e) == {f \in Events : server[f] # server[e] /\ recording[f] = "create"}

Lookup(e) ==
  /\ recording[e] = "lookup"
  /\ Goes(e, IF sheet = "none" THEN "create" ELSE "header")
  /\ excused' = IF sheet = "none" /\ Rivals(e) # {} THEN excused \cup Rivals(e) \cup {e}
                ELSE excused
  /\ UNCHANGED <<server, ready, sheet, rows, stale>>

(* addSheet, which the service refuses when there is one of that name.     *)
CreateSheet(e) ==
  /\ recording[e] = "create"
  /\ Goes(e, IF sheet = "none" THEN "header" ELSE "over")
  /\ sheet' = IF sheet = "none" THEN "bare" ELSE sheet
  /\ UNCHANGED <<server, ready, rows, stale, excused>>

(* The header goes to the first line, over a row that got there before.    *)
Headed ==
  /\ sheet' = "headed"
  /\ rows' \in IF sheet = "bare" /\ rows # {} THEN {rows \ {f} : f \in rows} ELSE {rows}

PutHeader(e) ==
  /\ recording[e] = "header"
  /\ IF sheet = "none"
     THEN Goes(e, "over") /\ UNCHANGED <<sheet, rows, ready>>
     ELSE Goes(e, "append") /\ Headed /\ ready' = ready \cup {server[e]}
  /\ UNCHANGED <<server, stale, excused>>

AppendRow(e) ==
  /\ recording[e] = "append"
  /\ Goes(e, "over")
  /\ rows' = IF sheet = "none" THEN rows ELSE rows \cup {e}
  /\ excused' = IF server[e] \in stale THEN excused \cup {e} ELSE excused
  /\ UNCHANGED <<server, ready, sheet, stale>>

(* A request fails or its answer does not come; record_task_event logs it. *)
RecordingFails(e) ==
  /\ recording[e] \notin {"none", "over"}
  /\ Goes(e, "over")
  /\ \/ UNCHANGED <<sheet, rows>>
     \/ recording[e] = "create" /\ sheet = "none" /\ sheet' = "bare" /\ UNCHANGED rows
     \/ recording[e] = "header" /\ sheet # "none" /\ Headed
     \/ recording[e] = "append" /\ sheet # "none" /\ rows' = rows \cup {e} /\ UNCHANGED sheet
  /\ excused' = excused \cup {e}
  /\ UNCHANGED <<server, ready, stale>>

Underway == {e \in Events : recording[e] \notin {"none", "over"}}

(* A server process dies, and its background tasks with it.                *)
ProcessDies(p) ==
  LET gone == {e \in Underway : server[e] = p}
  IN /\ p \in ready \/ gone # {}
     /\ recording' = [e \in Events |-> IF e \in gone THEN "over" ELSE recording[e]]
     /\ ready' = ready \ {p} /\ stale' = stale \ {p}
     /\ excused' = excused \cup gone
     /\ UNCHANGED <<server, sheet, rows>>

(* Somebody removes the sheet.                                             *)
RemoveSheet ==
  /\ sheet # "none"
  /\ sheet' = "none" /\ rows' = {}
  /\ stale' = ready
  /\ excused' = excused \cup rows \cup Underway
  /\ UNCHANGED <<recording, server, ready>>

HistoryFault == RemoveSheet \/ \E e \in Events : RecordingFails(e)
                \/ \E p \in Processes : ProcessDies(p)

HistoryStep == \E e \in Events : Ensure(e) \/ Lookup(e) \/ CreateSheet(e) \/ PutHeader(e)
                                 \/ AppendRow(e)

(* An event whose recording is over is in the sheet, unless a request of   *)
(* it failed, its process died, the sheet was removed before or while this *)
(* process took it for ready, or two processes made the first sheet at     *)
(* once: within a process the lock keeps first events apart                *)
(* (history.py:83-135).                                                    *)
EventsKept == \A e \in Events : recording[e] = "over" => e \in rows \cup excused
=============================================================================
