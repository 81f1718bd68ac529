------------------------------- MODULE Worker -------------------------------
(***************************************************************************)
(* A run of the agent worker (automation/work_loop.py or claude_work.py)   *)
(* on the board, through the tools of the MCP server                       *)
(* (adapters/task_assistant_mcp.py), while the human presses buttons and   *)
(* replies in Telegram (adapters/telegram_polling_adapter.py) and another  *)
(* agent uses an MCP server of its own.                                    *)
(*                                                                         *)
(* What a task is to these actors is its status and the notes in its       *)
(* description. A request to the tracker is one step of the board; what    *)
(* the tracker does inside of it is in TaskStore and FirestoreStore. A     *)
(* note is added by two requests, a GET and a PATCH of the whole           *)
(* description. The model chooses its tool calls freely.                   *)
(***************************************************************************)
EXTENDS Naturals, Sequences, FiniteSets, Functions

CONSTANTS
  Tasks,       (* the agent's tasks                                        *)
  Session,     (* calls the worker's model can have under way at once      *)
  Others,      (* the same of the other agent, an MCP server without modes *)
  Budget,      (* max_tasks, TASK_MCP_CLAIM_BUDGET                         *)
  Settable,    (* statuses the agents' calls give                          *)
  Acts,        (* <<kind, action>> of the human's updates                  *)
  MaxCalls,    (* bound: tool calls of the session                         *)
  MaxElse,     (* bound: tool calls of the other agent                     *)
  MaxTools,    (* bound: tool calls of both together                       *)
  MaxUpdates,  (* bound: Telegram updates the human sends                  *)
  MaxDeaths    (* bound: deaths of the polling adapter                     *)

ASSUME CallsAssumption ==
  /\ Session \cap Others = {}
  /\ Session # {}
  /\ IsFiniteSet(Session)
ASSUME InputsAssumption ==
  /\ Settable \subseteq {"backlog", "in_progress", "waiting_review", "blocked", "done",
                          "cancelled"}
  /\ Acts \subseteq {"press", "reply"} \X {"done", "rework", "block", "comment"}
  /\ <<"press", "comment">> \notin Acts
ASSUME BoundsAssumption ==
  /\ Budget \in Nat \ {0}
  /\ MaxCalls \in Nat
  /\ MaxElse \in Nat
  /\ MaxTools \in Nat
  /\ MaxUpdates \in Nat
  /\ MaxDeaths \in Nat

Slots == Session \cup Others
Backends == {"api", "claude"}
Closed == {"done", "cancelled"}
Open == {"backlog", "in_progress", "waiting_review", "blocked"}
Statuses == Open \cup Closed

VARIABLES
  status,      (* the board: the status of a task, "unborn" before it is   *)
  notes,       (* the board: the notes in its description, oldest first    *)
  backend,     (* WORK_RUNNER                                              *)
  phase,       (* of the worker's run                                      *)
  before,      (* claude: tasks in review in the first snapshot            *)
  handed,      (* claims / _claims_made: claims the session was told of    *)
  lastClaim,   (* api: last_claim, {} or one task                          *)
  worked,      (* the tasks the run reports                                *)
  pc,          (* what the call of a slot waits for                        *)
  at,          (* its task                                                 *)
  body,        (* finish_task: the description it will PATCH               *)
  inbox,       (* Telegram updates not acknowledged by the offset          *)
  tg,          (* where the adapter is with the first of them              *)
  tgBody,      (* handle_reply_command: the description it will PATCH      *)
  calls, sent, deaths,  (* counters of the bounds; they number the notes   *)
  posted,      (* history: the notes ever written to a task                *)
  overlapped,  (* history: tasks written while another held a read of them *)
  rewritten,   (* history: tasks whose description update_task replaced    *)
  moved,       (* history: tasks the session moved to review               *)
  movedElse,   (* history: tasks others moved to review                    *)
  unsure       (* history: a finish of the api session was not answered    *)
               (* with the task                                            *)

board == <<status, notes>>
session == <<backend, phase, before, handed, lastClaim, worked>>
call == <<pc, at, body>>
telegram == <<inbox, tg, tgBody, sent, deaths>>
history == <<posted, overlapped, rewritten, moved, movedElse, unsure>>
vars == <<board, session, call, telegram, calls, history>>

(* Numbered, so that a note lost is a note missing.                        *)
Note == ({"session"} \X (1..MaxCalls)) \cup ({"other"} \X (1..MaxElse))
        \cup ({"human"} \X (1..MaxUpdates))
Update == [kind : {"press", "reply"}, task : Tasks, n : 1..MaxUpdates,
           action : {"done", "rework", "block", "comment"}]

MaxOf(w) == IF w = "session" THEN MaxCalls ELSE MaxElse

TypeOK ==
  /\ status \in [Tasks -> Statuses \cup {"unborn"}]
  /\ notes \in [Tasks -> Seq(Note)]
  /\ backend \in Backends
  /\ phase \in {"start", "run", "after", "ended"}
  /\ before \subseteq Tasks
  /\ handed \in Nat
  /\ lastClaim \subseteq Tasks
  /\ worked \subseteq Tasks
  /\ pc \in [Slots -> {"idle", "claim", "finish"}]
  /\ at \in [Slots -> SUBSET Tasks]
  /\ body \in [Slots -> Seq(Note)]
  /\ inbox \in Seq(Update)
  /\ tg \in {"idle", "patch", "ack"}
  /\ tgBody \in Seq(Note)
  /\ calls \in [{"session", "other"} -> Nat]
  /\ \A w \in {"session", "other"} : calls[w] <= MaxOf(w)
  /\ sent \in 0..MaxUpdates
  /\ deaths \in 0..MaxDeaths
  /\ posted \in [Tasks -> SUBSET Note]
  /\ overlapped \subseteq Tasks
  /\ rewritten \subseteq Tasks
  /\ moved \subseteq Tasks
  /\ movedElse \subseteq Tasks
  /\ unsure \in BOOLEAN

-----------------------------------------------------------------------------
Live == {t \in Tasks : status[t] # "unborn"}
InReview == {t \in Tasks : status[t] = "waiting_review"}

Init ==
  /\ status \in [Tasks -> {"backlog", "waiting_review", "unborn"}]
  /\ notes = [t \in Tasks |-> <<>>]
  /\ backend \in Backends
  /\ phase = "start"
  /\ before = {}
  /\ handed = 0
  /\ lastClaim = {}
  /\ worked = {}
  /\ pc = [c \in Slots |-> "idle"]
  /\ at = [c \in Slots |-> {}]
  /\ body = [c \in Slots |-> <<>>]
  /\ inbox = <<>>
  /\ tg = "idle"
  /\ tgBody = <<>>
  /\ calls = [w \in {"session", "other"} |-> 0]
  /\ sent = 0 /\ deaths = 0
  /\ posted = [t \in Tasks |-> {}]
  /\ overlapped = {} /\ rewritten = {}
  /\ moved = {} /\ movedElse = {}
  /\ unsure = FALSE

(* Mutant: the note takes the place of the description.                    *)
NoteAlone(description, note) == <<note>>

(* The description with a dated note at its end.                           *)
WithNote(description, note) == Append(description, note)

Who(c) == IF c \in Session THEN "session" ELSE "other"

(* A read of the description of t that its reader will write back.         *)
SlotHolds(c, t) == pc[c] = "finish" /\ at[c] = {t}
AdapterHolds(t) == tg = "patch" /\ Head(inbox).task = t

(* A PATCH of a description, by a slot or the adapter, while one of        *)
(* others holds a read of it, overlaps.                                    *)
WriteNotes(t, description, others) ==
  /\ notes' = [notes EXCEPT ![t] = description]
  /\ posted' = [posted EXCEPT ![t] = @ \cup Range(description)]
  /\ overlapped' = IF others THEN overlapped \cup {t} ELSE overlapped

HeldBesides(c, t) == AdapterHolds(t) \/ \E d \in Slots \ {c} : SlotHolds(d, t)

(* The calls of slot c moved these tasks to review.                        *)
MovedBy(c, ts, s) ==
  /\ moved' = IF s = "waiting_review" /\ c \in Session THEN moved \cup ts ELSE moved
  /\ movedElse' = IF s = "waiting_review" /\ c \in Others /\ phase \in {"run", "after"}
                  THEN movedElse \cup ts ELSE movedElse

-----------------------------------------------------------------------------
(* The tools. The api loop runs the calls of a turn one after another, the *)
(* claude CLI may run several at once. A session that was cut off makes no *)
(* call any more, but what it had sent may still land.                     *)
MayCall(c) ==
  /\ calls[Who(c)] < MaxOf(Who(c))
  /\ calls["session"] + calls["other"] < MaxTools
  /\ pc[c] = "idle"
  /\ c \in Session => /\ phase = "run"
                      /\ backend = "api" => \A d \in Session : pc[d] = "idle"

Counted(c) == calls' = [calls EXCEPT ![Who(c)] = @ + 1]
NewNote(c) == <<Who(c), calls[Who(c)] + 1>>

Waits(c) == c \in Others \/ phase = "run"

Return(c) ==
  /\ pc' = [pc EXCEPT ![c] = "idle"]
  /\ at' = [at EXCEPT ![c] = {}]
  /\ body' = [body EXCEPT ![c] = <<>>]

(* Mutant: the claim that reaches the budget is let through.               *)
BudgetSpentLate(c) == c \in Session /\ handed > Budget

(* claims >= max_tasks in _dispatch, _claims_made >= budget in the server  *)
(* of a worker; a server without modes has no budget.                      *)
BudgetSpent(c) == c \in Session /\ handed >= Budget

(* task_assistant_claim_task: the test, then the request.                  *)
ClaimSend(c) ==
  /\ MayCall(c)
  /\ ~BudgetSpent(c)
  /\ pc' = [pc EXCEPT ![c] = "claim"]
  /\ Counted(c)
  /\ UNCHANGED <<board, session, at, body, telegram, history>>

(* POST /api/agent/claim takes a task; it is counted when the answer comes.*)
ClaimLand(c, t, answered) ==
  /\ pc[c] = "claim"
  /\ status[t] = "backlog"
  /\ answered => Waits(c)
  /\ status' = [status EXCEPT ![t] = "in_progress"]
  /\ IF answered /\ c \in Session
     THEN /\ handed' = handed + 1
          /\ lastClaim' = IF backend = "api" THEN {t} ELSE lastClaim
     ELSE UNCHANGED <<handed, lastClaim>>
  /\ Return(c)
  /\ UNCHANGED <<notes, backend, phase, before, worked, telegram, calls, history>>

(* Nothing to claim, or a request that fails or is lost without effect.    *)
ClaimFails(c) ==
  /\ pc[c] = "claim"
  /\ Return(c)
  /\ UNCHANGED <<board, session, telegram, calls, history>>

(* task_assistant_finish_task: the GET; the note is dated before it.       *)
FinishGet(c, t) ==
  /\ MayCall(c)
  /\ t \in Live
  /\ pc' = [pc EXCEPT ![c] = "finish"]
  /\ at' = [at EXCEPT ![c] = {t}]
  /\ body' = [body EXCEPT ![c] = WithNote(notes[t], NewNote(c))]
  /\ Counted(c)
  /\ UNCHANGED <<board, session, telegram, history>>

(* Mutant of Credit: the finish leaves the last claim as it is.            *)
CreditKept(c, tasks) ==
  IF c \in Session /\ backend = "api" /\ phase = "run" /\ lastClaim # {}
  THEN worked' = worked \cup tasks /\ UNCHANGED lastClaim
  ELSE UNCHANGED <<worked, lastClaim>>

(* _run: any finish call ends the last claim; what is reported is the task *)
(* in the answer, or the claimed one when the answer is an error text.     *)
Credit(c, tasks) ==
  IF c \in Session /\ backend = "api" /\ phase = "run" /\ lastClaim # {}
  THEN /\ worked' = worked \cup tasks
       /\ lastClaim' = {}
  ELSE UNCHANGED <<worked, lastClaim>>

(* ... and the PATCH, with or without an answer.                           *)
FinishLand(c, t, answered) ==
  /\ SlotHolds(c, t)
  /\ answered => Waits(c)
  /\ status' = [status EXCEPT ![t] = "waiting_review"]
  /\ WriteNotes(t, body[c], HeldBesides(c, t))
  /\ MovedBy(c, {t}, "waiting_review")
  /\ Credit(c, IF answered THEN {t} ELSE lastClaim)
  /\ unsure' = (unsure \/ (c \in Session /\ backend = "api" /\ ~answered))
  /\ Return(c)
  /\ UNCHANGED <<backend, phase, before, handed, telegram, calls, rewritten>>

(* The call is refused (no such task, a report too short), fails or is     *)
(* lost without effect.                                                    *)
FinishFails(c) ==
  /\ \/ MayCall(c) /\ Counted(c)
     \/ pc[c] = "finish" /\ UNCHANGED calls
  /\ Credit(c, lastClaim)
  /\ unsure' = (unsure \/ (c \in Session /\ backend = "api"))
  /\ Return(c)
  /\ UNCHANGED <<board, backend, phase, before, handed, telegram, posted, overlapped,
                 rewritten, moved, movedElse>>

(* The claude worker configures its session's server: TASK_MCP_WORKER_MODE *)
(* and the claim budget.                                                   *)
WorkerMode(c) == c \in Session /\ backend = "claude"

(* _dispatch refuses done, and a server in worker mode cancelled too.      *)
Refused(c) == CASE c \in Others -> {}
                [] WorkerMode(c) -> Closed
                [] OTHER -> {"done"}

(* task_assistant_update_task: a status, a description or both, one PATCH. *)
UpdateTask(c, t, s, rewrite) ==
  /\ MayCall(c)
  /\ t \in Live
  /\ s \notin Refused(c)
  /\ status' = [status EXCEPT ![t] = s]
  /\ IF rewrite
     THEN /\ WriteNotes(t, <<NewNote(c)>>, HeldBesides(c, t))
          /\ rewritten' = rewritten \cup {t}
     ELSE UNCHANGED <<notes, posted, overlapped, rewritten>>
  /\ MovedBy(c, {t}, s)
  /\ Counted(c)
  /\ UNCHANGED <<session, call, telegram, unsure>>

(* task_assistant_create_task, task_assistant_ingest_context: a task, or   *)
(* the tasks of a context in one request; any status may be asked for.     *)
CreateTasks(c, ts, s) ==
  /\ MayCall(c)
  /\ ts \cap Live = {}
  /\ status' = [t \in Tasks |-> IF t \in ts THEN s ELSE status[t]]
  /\ MovedBy(c, ts, s)
  /\ Counted(c)
  /\ UNCHANGED <<notes, session, call, telegram, posted, overlapped, rewritten,
                 unsure>>

CreateTask(c, t, s) == CreateTasks(c, {t}, s)
IngestContext(c, ts, s) == CreateTasks(c, ts, s)

-----------------------------------------------------------------------------
(* run_work. The claude worker takes a snapshot of the board first; one    *)
(* that is not ready or cannot take it reports nothing.                    *)
Start ==
  /\ phase = "start"
  /\ phase' = "run"
  /\ before' = IF backend = "claude" THEN InReview ELSE {}
  /\ UNCHANGED <<board, backend, handed, lastClaim, worked, call, telegram, calls, history>>

Skip ==
  /\ phase = "start"
  /\ phase' = "ended"
  /\ UNCHANGED <<board, backend, before, handed, lastClaim, worked, call, telegram, calls,
                 history>>

(* The api loop stops after a turn: no tool call, or the last turn.        *)
ApiEnd ==
  /\ phase = "run" /\ backend = "api"
  /\ \A c \in Session : pc[c] = "idle"
  /\ phase' = "ended"
  /\ UNCHANGED <<board, backend, before, handed, lastClaim, worked, call, telegram, calls,
                 history>>

(* An exception of the Anthropic client or the connection leaves _run.     *)
ApiRaise ==
  /\ phase = "run" /\ backend = "api"
  /\ phase' = "ended"
  /\ worked' = {}
  /\ UNCHANGED <<board, backend, before, handed, lastClaim, call, telegram, calls, history>>

(* The CLI exits, or subprocess.run cuts it off with calls under way.      *)
ClaudeEnd ==
  /\ phase = "run" /\ backend = "claude"
  /\ phase' = "after"
  /\ UNCHANGED <<board, backend, before, handed, lastClaim, worked, call, telegram, calls,
                 history>>

(* Mutant: the diff forgets what was in review before the run.             *)
AllInReview == InReview

(* The tasks in review now that were not in the first snapshot.            *)
WorkedBetween == InReview \ before

ClaudeReport(reached) ==
  /\ phase = "after"
  /\ phase' = "ended"
  /\ worked' = IF reached THEN WorkedBetween ELSE {}
  /\ UNCHANGED <<board, backend, before, handed, lastClaim, call, telegram, calls, history>>

-----------------------------------------------------------------------------
(* The human's side. Telegram keeps an update until a later offset asks    *)
(* for more; the adapter takes them one at a time. A voice reply is the    *)
(* text it was transcribed to.                                             *)
HumanSends(k, t, a) ==
  /\ sent < MaxUpdates
  /\ t \in Live
  /\ inbox' = Append(inbox, [kind |-> k, task |-> t, n |-> sent + 1, action |-> a])
  /\ sent' = sent + 1
  /\ UNCHANGED <<board, session, call, tg, tgBody, deaths, calls, history>>

(* _tracker_request: the request reaches the tracker or it does not. One   *)
(* that did and was not answered differs in what the human is told only.   *)
Reaches == BOOLEAN

CallbackActions == [done |-> "done", rework |-> "in_progress", block |-> "blocked"]

(* classify_reply_action, REPLY_STATUS: a comment changes no status.       *)
StatusOf(a, old) == IF a = "comment" THEN old ELSE CallbackActions[a]

Handling(k) == tg = "idle" /\ inbox # <<>> /\ Head(inbox).kind = k

(* handle_callback: one PATCH; one that fails is told and dropped.         *)
Press(reached) ==
  LET u == Head(inbox)
  IN /\ Handling("press")
     /\ tg' = "ack"
     /\ IF reached
        THEN /\ status' = [status EXCEPT ![u.task] = StatusOf(u.action, @)]
        ELSE UNCHANGED status
     /\ UNCHANGED <<notes, session, call, inbox, tgBody, sent, deaths, calls, posted,
                    overlapped, rewritten, moved, movedElse, unsure>>

(* handle_reply_command: the GET ...                                       *)
ReplyGet(reached) ==
  LET u == Head(inbox)
  IN /\ Handling("reply")
     /\ IF reached
        THEN /\ tg' = "patch"
             /\ tgBody' = WithNote(notes[u.task], <<"human", u.n>>)
        ELSE /\ tg' = "ack"
             /\ UNCHANGED tgBody
     /\ UNCHANGED <<board, session, call, inbox, sent, deaths, calls, history>>

(* ... and the PATCH of the description and, for an action, the status.    *)
ReplyPatch(reached) ==
  LET u == Head(inbox)
  IN /\ tg = "patch"
     /\ tg' = "ack"
     /\ tgBody' = <<>>
     /\ IF reached
        THEN /\ status' = [status EXCEPT ![u.task] = StatusOf(u.action, @)]
             /\ WriteNotes(u.task, tgBody, \E c \in Slots : SlotHolds(c, u.task))
        ELSE UNCHANGED <<status, notes, posted, overlapped>>
     /\ UNCHANGED <<session, call, inbox, sent, deaths, calls, rewritten, moved,
                    movedElse, unsure>>

(* Mutant: a handled update is not taken off.                              *)
LeaveOffset ==
  /\ tg = "ack"
  /\ tg' = "idle"
  /\ UNCHANGED <<board, session, call, inbox, tgBody, sent, deaths, calls, history>>

(* main: the offset is written once the update is handled.                 *)
WriteOffset ==
  /\ tg = "ack"
  /\ tg' = "idle"
  /\ inbox' = Tail(inbox)
  /\ UNCHANGED <<board, session, call, tgBody, sent, deaths, calls, history>>

(* The adapter dies within an update and is restarted by its supervisor.   *)
AdapterDies ==
  /\ deaths < MaxDeaths
  /\ tg # "idle"
  /\ tg' = "idle"
  /\ tgBody' = <<>>
  /\ deaths' = deaths + 1
  /\ UNCHANGED <<board, session, call, inbox, sent, calls, history>>

-----------------------------------------------------------------------------
Tool(c) ==
  \/ ClaimSend(c)
  \/ ClaimFails(c)
  \/ FinishFails(c)
  \/ \E t \in Tasks :
       \/ FinishGet(c, t)
       \/ \E answered \in BOOLEAN : ClaimLand(c, t, answered) \/ FinishLand(c, t, answered)
       \/ \E s \in Settable : CreateTask(c, t, s)
       \/ \E s \in Settable, rewrite \in BOOLEAN : UpdateTask(c, t, s, rewrite)
  \/ \E ts \in SUBSET Tasks \ {{}}, s \in Settable : IngestContext(c, ts, s)

Run == Start \/ Skip \/ ApiEnd \/ ApiRaise \/ ClaudeEnd
       \/ \E reached \in Reaches : ClaudeReport(reached)

Adapter ==
  \/ \E reached \in Reaches : Press(reached) \/ ReplyGet(reached) \/ ReplyPatch(reached)
  \/ WriteOffset
  \/ AdapterDies

Human == \E act \in Acts, t \in Tasks : HumanSends(act[1], t, act[2])

Next == Run \/ Human \/ Adapter \/ \E c \in Slots : Tool(c)

Spec == Init /\ [][Next]_vars

-----------------------------------------------------------------------------
(* The budget is tested before the request and counted after the answer:   *)
(* the api worker is told of Budget claims at most, the claude worker of   *)
(* as many more as it can have under way besides the last one              *)
(* (task_assistant_mcp.py:454-470, work_loop.py:164).                      *)
BudgetHolds ==
  handed <= IF backend = "api" THEN Budget ELSE Budget + Cardinality(Session) - 1

(* A note, once in a description, stays there unless a description was     *)
(* written while another reader of it was about to write it back, or was   *)
(* replaced as a whole by update_task (telegram_polling_adapter.py:804-819,*)
(* task_assistant_mcp.py:508-517).                                         *)
NotesSurvive ==
  \A t \in Tasks : posted[t] \subseteq Range(notes[t]) \/ t \in overlapped \cup rewritten

(* run_work "returns the list of tasks it moved to waiting_review"         *)
(* (work_runner.py:13): the claude worker, by its two snapshots, reports   *)
(* no task that neither it nor another client moved there meanwhile, the   *)
(* api worker no other task than its own unless a finish of its failed.    *)
Credited ==
  \A t \in worked : \/ t \in moved
                    \/ backend = "claude" /\ t \in movedElse
                    \/ backend = "api" /\ unsure

(* The api worker reports no more tasks than claims it was told of, and so *)
(* no more than its budget: a finish call uses the last claim up, whatever *)
(* task it names, claimed or not, and whether or not it succeeds           *)
(* (work_loop.py:139-153).                                                 *)
ReportsWithinClaims == backend = "api" => Cardinality(worked) <= handed

(* A reply is appended once for each time the adapter came to handle it:   *)
(* again only after a death before its offset was written                  *)
(* (telegram_polling_adapter.py:1091-1094).                                *)
RepliedOnce ==
  \A t \in Tasks, n \in 1..MaxUpdates :
    Cardinality({i \in DOMAIN notes[t] : notes[t][i] = <<"human", n>>}) <= 1 + deaths
=============================================================================
