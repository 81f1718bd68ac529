------------------------------- MODULE Rounds -------------------------------
(***************************************************************************)
(* What goes round between requests: the watch loop (automation/watch.py), *)
(* which sends reminders and announces reviews; the reminder script        *)
(* (scripts/reminders.py); triage sessions (app/main.py), which show tasks *)
(* in batches and resolve them, each resolution being an event for module  *)
(* History; and the scheduler (automation/scheduler.py) of the daily       *)
(* ritual (automation/daily_ritual.py). An installation runs some of them. *)
(* All look at the board first and write what they did afterwards, by a    *)
(* clock that goes on in between.                                          *)
(***************************************************************************)
EXTENDS Ranking, History

CONSTANTS
  Tasks,
  Installations,(* the rounds that run, the board they begin with, and     *)
                (* bound: the last time they see                           *)
  MovedTo,      (* the statuses others move tasks to                       *)
  Triagers,     (* triage sessions                                         *)
  Limit,        (* triage_next: limit                                      *)
  Cooldown,     (* triage_next: cooldown_hours                             *)
  Resolutions,  (* what triage_apply is asked for                          *)
  RitualTime,   (* scheduler: when the ritual is due, in a day             *)
  MaxNap,       (* scheduler: the longest nap                              *)
  Flip,         (* scheduler: 23.5 hours                                   *)
  MaxTime,      (* bound: of all clocks                                    *)
  MaxMoves,     (* bound: changes made by others                           *)
  MaxFaults     (* bound: deaths, failed requests and failed sends         *)

Statuses == {"backlog", "in_progress", "waiting_review", "blocked", "done", "cancelled"}
Assignees == {"me", "codex", "unassigned"}
Times == 1..MaxTime
Row == [status : Statuses, assignee : Assignees, priority : 1..5,
        due : Times \cup {Never}, remind : Times \cup {Never},
        sent : 0..MaxTime, shown : 0..MaxTime]
Unset == "unset"
(* due and remind: so much later than now; there and in priority, 0: unset.*)
Resolution == [action : {"done", "cancel", "defer", "block", "assign", "update"},
               status : Statuses \cup {Unset}, assignee : Assignees \cup {Unset},
               priority : 0..5, due : 0..MaxTime, remind : 0..MaxTime, note : BOOLEAN]

ASSUME RoundsAssumption ==
  /\ MaxTime \in Nat \ {0} /\ Never > MaxTime
  /\ \A i \in Installations :
       /\ i.rounds \subseteq {"watch", "script", "triage", "resolve", "history", "ritual"}
       /\ i.board \in [Tasks -> Row] /\ i.until \in Times
       /\ \A t \in Tasks : i.board[t].sent = 0 /\ i.board[t].shown = 0
  /\ MovedTo \subseteq Statuses
  /\ Limit \in Nat \ {0} /\ Cooldown \in Nat \ {0}
  /\ Resolutions \subseteq Resolution
  /\ RitualTime \in 0..(Day - 1) /\ MaxNap \in Nat \ {0} /\ Flip \in 1..Day /\ MaxNap <= Day - Flip
  /\ MaxMoves \in Nat /\ MaxFaults \in Nat /\ 1..MaxMoves \subseteq Events

VARIABLES
  now, moves, faults,  (* the clock, and counters of the bounds            *)
  setup,       (* the installation                                         *)
  task,        (* the board                                                *)
  wpc,         (* watch: where its tick is                                 *)
  current,     (*   the time its tick began                                *)
  inReview,    (*   the reviews in the list it got                         *)
  listed,      (*   the time the reminders were listed                     *)
  todo,        (*   the reminders still to send                            *)
  inHand,      (*   the one sent and not stamped                           *)
  announcing,  (*   the reviews still to announce                          *)
  retained,    (*   the state this tick will leave                         *)
  notified,    (*   state["review_notified"]                               *)
  file,        (*   .watch_state.json                                      *)
  spc, slisted, stodo, sinHand,  (* the reminder script, likewise          *)
  asked,       (* triage: when a session read the board, 0 for none        *)
  batch,       (*   the tasks it will mark and show                        *)
  rpc,         (* scheduler: asleep, or where its ritual is                *)
  wake,        (*   when its nap ends                                      *)
  looked,      (*   when it last looked at the clock                       *)
  situation,   (*   when the board the ritual goes by was read             *)
  written,     (*   the digest: when the board it shows was read           *)
  told,        (* history: listing time of the last reminder delivered     *)
  again,       (* history: reminded though no target passed in between     *)
  slips,       (* history: tasks whose reminder was not stamped in order   *)
  byScript,    (* history: tasks stamped by the script                     *)
  announced,   (* history: reviews announced since they began              *)
  twice,       (* history: announced twice in one review                   *)
  forgot,      (* history: announcements a death or half a message undid   *)
  blinked,     (* history: back in review before a tick saw them gone      *)
  card,        (* history: when a triage session last showed a task        *)
  repeats,     (* history: shown again within the cooldown                 *)
  crossed,     (* history: read by one session before another marked it    *)
  worked,      (* history: when a ritual's work run ended                  *)
  hindered,    (* history: the last ritual failed, or one was overslept,   *)
               (* or due before the scheduler began                        *)
  ran,         (* history: the ritual's time the last ritual was for       *)
  reran        (* history: a ritual ran for the same time again            *)

clock == <<now, moves, faults, setup>>
board == <<task, announced, blinked>>
watch == <<wpc, current, inReview, listed, todo, inHand, announcing, retained,
           notified, file>>
script == <<spc, slisted, stodo, sinHand>>
triage == <<asked, batch>>
ritual == <<rpc, wake, looked, situation, written, worked, hindered, ran, reran>>
reminding == <<told, again, slips, byScript>>
telling == <<twice, forgot>>
showing == <<card, repeats, crossed>>
vars == <<clock, board, watch, script, triage, ritual, reminding, telling, showing,
          history>>

TypeOK ==
  /\ now \in Times /\ moves \in 0..MaxMoves /\ faults \in 0..MaxFaults
  /\ setup \in Installations
  /\ task \in [Tasks -> Row]
  /\ wpc \in {"sleep", "due", "remind", "stamp", "announce", "save"}
  /\ {current, listed, slisted} \subseteq 0..MaxTime
  /\ {inReview, todo, inHand, announcing, retained, notified, file, stodo, sinHand,
      again, slips, byScript, announced, twice, forgot, blinked, repeats, crossed}
       \subseteq SUBSET Tasks
  /\ spc \in {"idle", "notify", "stamp"}
  /\ asked \in [Triagers -> 0..MaxTime]
  /\ batch \in [Triagers -> SUBSET Tasks]
  /\ rpc \in {"nap", "fetch", "work", "refetch", "write", "notify"}
  /\ wake \in Nat /\ looked \in Times
  /\ {situation, written, worked} \subseteq 0..MaxTime
  /\ {hindered, reran} \subseteq BOOLEAN /\ ran \in Int
  /\ told \in [Tasks -> 0..MaxTime]
  /\ card \in [Tasks -> 0..MaxTime]
  /\ HistoryTypeOK

-----------------------------------------------------------------------------
InReview == {t \in Tasks : task[t].status = "waiting_review"}
Due == {t \in Tasks : ReminderDue(task[t], now)}

(* seconds_until_next_run; the ritual's time before that.                  *)
Left(n) == Day - ((n - RitualTime) % Day)
LastTarget(n) == n + Left(n) - Day

Nap(n) == IF Left(n) < MaxNap THEN Left(n) ELSE MaxNap

Init ==
  /\ now = 1 /\ moves = 0 /\ faults = 0
  /\ setup \in Installations
  /\ task = setup.board
  /\ wpc = "sleep" /\ current = 0 /\ listed = 0
  /\ inReview = {} /\ todo = {} /\ inHand = {} /\ announcing = {} /\ retained = {}
  /\ notified = {} /\ file = {}
  /\ spc = "idle" /\ slisted = 0 /\ stodo = {} /\ sinHand = {}
  /\ asked = [s \in Triagers |-> 0] /\ batch = [s \in Triagers |-> {}]
  /\ rpc = "nap" /\ wake = 1 + Nap(1) /\ looked = 1
  /\ situation = 0 /\ written = 0 /\ worked = 0
  /\ hindered \in BOOLEAN /\ (hindered <=> LastTarget(1) > 0) /\ ran = -Day /\ reran = FALSE
  /\ told = [t \in Tasks |-> 0]
  /\ again = {} /\ slips = {} /\ byScript = {}
  /\ announced = {} /\ twice = {} /\ forgot = {} /\ blinked = {}
  /\ card = [t \in Tasks |-> 0] /\ repeats = {} /\ crossed = {}
  /\ HistoryInit

Tick ==
  /\ now < setup.until
  /\ now' = now + 1
  /\ UNCHANGED <<moves, faults, setup, board, watch, script, triage, ritual, reminding,
                 telling, showing, history>>

Faulty ==
  /\ faults < MaxFaults
  /\ faults' = faults + 1
  /\ UNCHANGED <<now, moves, setup>>

(* What became of a message: delivered, delivered without our hearing of   *)
(* it, or not delivered; send_message is true for the first alone.         *)
Outcomes == {"sent", "unheard", "lost"}
Sends(outcome) == IF outcome = "sent" THEN UNCHANGED clock ELSE Faulty

(* PATCH of a task by others: the human in Telegram, an agent, the UI.     *)
(* A review begins when a task comes to waiting_review.                    *)
Remembered == notified \cup file \cup retained
Write(t, r) ==
  LET begins == {t} \cap {u \in Tasks : r.status = "waiting_review" /\ u \notin InReview}
  IN /\ task' = [task EXCEPT ![t] = r]
     /\ announced' = announced \ begins
     /\ blinked' = blinked \cup (begins \cap Remembered)

Stamp(t, time) ==
  /\ task' = [task EXCEPT ![t].sent = time]
  /\ UNCHANGED <<announced, blinked>>

Move(t, s) ==
  /\ moves < MaxMoves
  /\ moves' = moves + 1
  /\ Write(t, [task[t] EXCEPT !.status = s])
  /\ UNCHANGED <<now, faults, setup, watch, script, triage, ritual, reminding, telling,
                 showing, history>>

-----------------------------------------------------------------------------
(* The watch loop. A tick takes the time, then the list of tasks.          *)
WatchList ==
  /\ "watch" \in setup.rounds
  /\ wpc = "sleep"
  /\ wpc' = "due"
  /\ current' = now
  /\ inReview' = InReview
  /\ UNCHANGED <<clock, board, listed, todo, inHand, announcing, retained, notified, file,
                 script, triage, ritual, reminding, telling, showing, history>>

WatchDue ==
  /\ wpc = "due"
  /\ wpc' = "remind"
  /\ listed' = now
  /\ todo' = Due
  /\ slips' = slips \cup (Due \cap (stodo \cup sinHand))
  /\ UNCHANGED <<clock, board, current, inReview, inHand, announcing, retained, notified,
                 file, script, triage, ritual, told, again, byScript, telling, showing, history>>

(* A reminder of t, listed at time n, reaches the human.                   *)
Deliver(t, n) ==
  /\ told' = [told EXCEPT ![t] = IF n > @ THEN n ELSE @]
  /\ again' = IF told[t] = 0 \/ \E x \in Targets(task[t]) : told[t] < x /\ x <= n
              THEN again ELSE again \cup {t}

WatchRemind(t, outcome) ==
  /\ wpc = "remind"
  /\ t \in todo
  /\ todo' = todo \ {t}
  /\ Sends(outcome)
  /\ IF outcome = "sent" THEN wpc' = "stamp" /\ inHand' = {t} ELSE UNCHANGED <<wpc, inHand>>
  /\ IF outcome = "lost" THEN UNCHANGED <<told, again>> ELSE Deliver(t, listed)
  /\ slips' = IF \/ outcome = "unheard"
                 \/ \E x \in Targets(task[t]) : current < x /\ x <= listed
              THEN slips \cup {t} ELSE slips
  /\ UNCHANGED <<board, current, inReview, listed, announcing, retained, notified, file,
                 script, triage, ritual, byScript, telling, showing, history>>

(* Mutant: the stamp is the time of the PATCH.                             *)
StampTimeNow == now

(* reminder_last_sent_at is the time the tick began.                       *)
StampTime == current

WatchStamp ==
  /\ wpc = "stamp"
  /\ \E t \in inHand : Stamp(t, StampTime)
  /\ inHand' = {}
  /\ wpc' = "remind"
  /\ UNCHANGED <<clock, current, inReview, listed, todo, announcing, retained, notified,
                 file, script, triage, ritual, reminding, telling, showing, history>>

(* Mutant: what was announced before is forgotten.                         *)
PlanAfresh(reviews, seen) == [announce |-> reviews, retain |-> {}]

(* plan_review_notifications.                                              *)
Plan(reviews, seen) == [announce |-> reviews \ seen, retain |-> seen \cap reviews]

WatchPlan ==
  /\ wpc = "remind"
  /\ todo = {}
  /\ wpc' = "announce"
  /\ announcing' = Plan(inReview, notified).announce
  /\ retained' = Plan(inReview, notified).retain
  /\ UNCHANGED <<clock, board, current, inReview, listed, todo, inHand, notified, file,
                 script, triage, ritual, reminding, telling, showing, history>>

(* Mutant: an announcement is remembered whatever became of it.            *)
RememberAny(t, outcome) == retained \cup {t}

Remember(t, outcome) == IF outcome = "sent" THEN retained \cup {t} ELSE retained

WatchAnnounce(t, outcome) ==
  /\ wpc = "announce"
  /\ t \in announcing
  /\ announcing' = announcing \ {t}
  /\ Sends(outcome)
  /\ retained' = Remember(t, outcome)
  /\ IF outcome = "lost"
     THEN UNCHANGED <<announced, twice>>
     ELSE /\ announced' = announced \cup ({t} \cap InReview)
          /\ twice' = twice \cup ({t} \cap announced)
  /\ forgot' = IF outcome = "unheard" THEN forgot \cup {t} ELSE forgot
  /\ UNCHANGED <<task, blinked, wpc, current, inReview, listed, todo, inHand, notified,
                 file, script, triage, ritual, reminding, showing, history>>

(* state["review_notified"] = retained; the work run that may follow is    *)
(* module Worker's. An exception of it ends the process: WatchDies.        *)
WatchKeep ==
  /\ wpc = "announce"
  /\ announcing = {}
  /\ wpc' = "save"
  /\ notified' = retained
  /\ UNCHANGED <<clock, board, current, inReview, listed, todo, inHand, announcing,
                 retained, file, script, triage, ritual, reminding, telling, showing, history>>

Asleep ==
  /\ wpc' = "sleep" /\ current' = 0 /\ listed' = 0
  /\ inReview' = {} /\ todo' = {} /\ inHand' = {} /\ announcing' = {} /\ retained' = {}

WatchSave ==
  /\ wpc = "save"
  /\ file' = notified
  /\ Asleep
  /\ UNCHANGED <<clock, board, notified, script, triage, ritual, reminding, telling,
                 showing, history>>

(* main: a tracker that cannot be reached, here or in the work run, ends   *)
(* the tick without a save. The stamp may have been written all the same.  *)
TickFails ==
  /\ wpc \in {"due", "stamp", "save"}
  /\ Faulty
  /\ Asleep
  /\ slips' = slips \cup inHand
  /\ UNCHANGED board \/ \E t \in inHand : Stamp(t, StampTime)
  /\ UNCHANGED <<notified, file, script, triage, ritual, told, again, byScript, telling,
                 showing, history>>

(* The process dies and is started again; load_state takes a file that was *)
(* cut short for an empty one.                                             *)
WatchDies ==
  /\ wpc # "sleep"
  /\ Faulty
  /\ file' \in {file} \cup (IF wpc = "save" THEN {{}} ELSE {})
  /\ notified' = file'
  /\ Asleep
  /\ slips' = slips \cup inHand
  /\ forgot' = forgot \cup (announced \ file')
  /\ UNCHANGED <<board, script, triage, ritual, told, again, byScript, twice, showing, history>>

-----------------------------------------------------------------------------
(* The reminder script: list, then notify and stamp one after another.     *)
ScriptList ==
  /\ "script" \in setup.rounds
  /\ spc = "idle"
  /\ Due # {}
  /\ spc' = "notify"
  /\ slisted' = now
  /\ stodo' = Due
  /\ slips' = slips \cup (Due \cap (todo \cup inHand))
  /\ UNCHANGED <<clock, board, watch, sinHand, triage, ritual, told, again, byScript,
                 telling, showing, history>>

(* The exit status of the notification command is not looked at.           *)
ScriptNotify(t, outcome) ==
  /\ spc = "notify"
  /\ t \in stodo
  /\ spc' = "stamp"
  /\ stodo' = stodo \ {t}
  /\ sinHand' = {t}
  /\ Sends(outcome)
  /\ IF outcome = "lost" THEN UNCHANGED <<told, again>> ELSE Deliver(t, slisted)
  /\ UNCHANGED <<board, watch, slisted, triage, ritual, slips, byScript, telling, showing, history>>

ScriptRest == /\ spc' = IF stodo = {} THEN "idle" ELSE "notify"
              /\ slisted' = IF stodo = {} THEN 0 ELSE slisted

ScriptStamp ==
  /\ spc = "stamp"
  /\ \E t \in sinHand : Stamp(t, now)
  /\ byScript' = byScript \cup sinHand
  /\ sinHand' = {}
  /\ ScriptRest
  /\ UNCHANGED <<clock, watch, stodo, triage, ritual, told, again, slips, telling, showing,
                 history>>

(* A PATCH that fails, a command that is missing, a death.                 *)
ScriptStops ==
  /\ spc # "idle"
  /\ Faulty
  /\ spc' = "idle" /\ slisted' = 0 /\ stodo' = {} /\ sinHand' = {}
  /\ slips' = slips \cup sinHand
  /\ UNCHANGED <<board, watch, triage, ritual, told, again, byScript, telling, showing, history>>

-----------------------------------------------------------------------------
(* Mutant: the time a task was shown is not looked at.                     *)
EligibleAll(n) == {t \in Tasks : Active(task[t])}

(* triage_next: the active tasks not shown since the cutoff.               *)
Eligible(n) ==
  {t \in Tasks : Active(task[t]) /\ (task[t].shown = 0 \/ task[t].shown <= n - Cooldown)}

(* The first Limit of them in smart order.                                 *)
Batch(n) ==
  {b \in SUBSET Eligible(n) :
     /\ Cardinality(b) <= Limit
     /\ Cardinality(b) < Limit => b = Eligible(n)
     /\ \A t \in b, u \in Eligible(n) \ b : ~SmartBefore(task[u], task[t], n)}

OthersBatches(s) == UNION {batch[q] : q \in Triagers \ {s}}

TriageNext(s, b) ==
  /\ "triage" \in setup.rounds
  /\ asked[s] = 0
  /\ b \in Batch(now) \ {{}}
  /\ asked' = [asked EXCEPT ![s] = now]
  /\ batch' = [batch EXCEPT ![s] = b]
  /\ crossed' = crossed \cup (b \cap OthersBatches(s))
  /\ UNCHANGED <<clock, board, watch, script, ritual, reminding, telling, card, repeats, history>>

(* mark_shown, with the time of the request, and the cards are answered.   *)
TriageMark(s) ==
  LET n == asked[s]
  IN /\ n # 0
     /\ task' = [t \in Tasks |-> IF t \in batch[s] THEN [task[t] EXCEPT !.shown = n]
                                 ELSE task[t]]
     /\ repeats' = repeats \cup {t \in batch[s] : card[t] # 0 /\ card[t] > n - Cooldown}
     /\ card' = [t \in Tasks |-> IF t \in batch[s] /\ n > card[t] THEN n ELSE card[t]]
     /\ asked' = [asked EXCEPT ![s] = 0]
     /\ batch' = [batch EXCEPT ![s] = {}]
     /\ UNCHANGED <<clock, announced, blinked, watch, script, ritual, reminding, telling,
                    crossed, history>>

ForcedStatus(a) == CASE a = "done" -> "done"
                     [] a = "cancel" -> "cancelled"
                     [] a = "block" -> "blocked"
                     [] OTHER -> Unset

(* _resolution_to_update: what is refused, ...                             *)
Accepted(r) ==
  /\ r.action = "defer" => r.due # 0 \/ r.remind # 0
  /\ r.action = "assign" => r.assignee # Unset
  /\ \/ ForcedStatus(r.action) # Unset \/ r.status # Unset \/ r.assignee # Unset
     \/ r.priority # 0 \/ r.due # 0 \/ r.remind # 0 \/ r.note

(* ... and the row it makes; the action's status goes before the given one.*)
Field(new, old) == IF new = Unset THEN old ELSE new
Target(delay, old) == IF delay = 0 THEN old ELSE now + delay
Resolved(row, r) ==
  [status |-> Field(Field(ForcedStatus(r.action), Field(r.status, Unset)), row.status),
   assignee |-> Field(r.assignee, row.assignee),
   priority |-> IF r.priority = 0 THEN row.priority ELSE r.priority,
   due |-> Target(r.due, row.due),
   remind |-> Target(r.remind, row.remind),
   sent |-> row.sent, shown |-> row.shown]

TriageApply(t, r) ==
  /\ "resolve" \in setup.rounds
  /\ moves < MaxMoves
  /\ moves' = moves + 1
  /\ Accepted(r)
  /\ now + r.due <= MaxTime /\ now + r.remind <= MaxTime
  /\ Write(t, Resolved(task[t], r))
  /\ IF "history" \in setup.rounds THEN \E p \in Processes : Begin(moves', p)
                                     ELSE UNCHANGED history
  /\ slips' = slips \cup ({t} \cap (todo \cup stodo))
  /\ UNCHANGED <<now, faults, setup, watch, script, triage, ritual, told, again, byScript,
                 telling, showing>>

-----------------------------------------------------------------------------
(* The history records the events; a fault of it counts as one.            *)
Records ==
  /\ \/ HistoryStep /\ UNCHANGED clock
     \/ HistoryFault /\ Faulty
  /\ UNCHANGED <<board, watch, script, triage, ritual, reminding, telling, showing>>

-----------------------------------------------------------------------------
(* The scheduler. A nap may last longer than asked for.                    *)
Others == <<board, watch, script, triage, reminding, telling, showing, history>>
Crossed(left) == left > Flip
Sleeps == rpc' = "nap" /\ wake' = now + Nap(now) /\ looked' = now

SchedulerWakes ==
  /\ "ritual" \in setup.rounds
  /\ rpc = "nap"
  /\ now >= wake
  /\ IF Crossed(Left(now)) THEN rpc' = "fetch" /\ looked' = now /\ UNCHANGED wake ELSE Sleeps
  /\ reran' = (reran \/ (Crossed(Left(now)) /\ LastTarget(now) = ran))
  /\ hindered' = (hindered \/ now - wake >= Day - Flip)
  /\ UNCHANGED <<clock, situation, written, worked, ran, Others>>

(* The ritual reads the board. With work enabled it works and reads it     *)
(* again; the work run is module Worker's.                                 *)
RitualFetch ==
  /\ rpc \in {"fetch", "refetch"}
  /\ rpc' \in IF rpc = "fetch" THEN {"work", "write"} ELSE {"write"}
  /\ situation' = now
  /\ UNCHANGED <<clock, wake, looked, written, worked, hindered, ran, reran, Others>>

(* Mutant: the digest goes by the board read before the work.              *)
AfterWorkWrite == "write"

AfterWork == "refetch"

RitualWorks ==
  /\ rpc = "work"
  /\ rpc' = AfterWork
  /\ worked' = now
  /\ UNCHANGED <<clock, wake, looked, situation, written, hindered, ran, reran, Others>>

RitualWrite ==
  /\ rpc = "write"
  /\ rpc' = "notify"
  /\ written' = situation
  /\ UNCHANGED <<clock, wake, looked, situation, worked, hindered, ran, reran, Others>>

(* notify_digest never raises, whatever becomes of its messages; the       *)
(* ritual ends well and the scheduler naps.                                *)
RitualEnds ==
  /\ rpc = "notify"
  /\ Sleeps
  /\ ran' = LastTarget(looked)
  /\ hindered' = (LastTarget(now) > looked)
  /\ UNCHANGED <<clock, situation, written, worked, reran, Others>>

(* The tracker cannot be reached or the work run raises; the scheduler     *)
(* naps all the same.                                                      *)
RitualFails ==
  /\ rpc \in {"fetch", "work", "refetch"}
  /\ Faulty
  /\ Sleeps
  /\ hindered' = TRUE
  /\ UNCHANGED <<situation, written, worked, ran, reran, Others>>

(* The scheduler dies elsewhere, and is started again.                     *)
SchedulerDies ==
  /\ "ritual" \in setup.rounds
  /\ rpc \in {"nap", "write", "notify"}
  /\ Faulty
  /\ Sleeps
  /\ hindered' = TRUE
  /\ UNCHANGED <<situation, written, worked, ran, reran, Others>>

-----------------------------------------------------------------------------
Watch ==
  \/ WatchList \/ WatchDue \/ WatchStamp \/ WatchPlan \/ WatchKeep \/ WatchSave
  \/ TickFails \/ WatchDies
  \/ \E t \in Tasks, outcome \in Outcomes : WatchRemind(t, outcome) \/ WatchAnnounce(t, outcome)

Script ==
  \/ ScriptList \/ ScriptStamp \/ ScriptStops
  \/ \E t \in Tasks, outcome \in Outcomes : ScriptNotify(t, outcome)

Triage ==
  \/ \E s \in Triagers : TriageMark(s) \/ \E b \in SUBSET Tasks : TriageNext(s, b)
  \/ \E t \in Tasks, r \in Resolutions : TriageApply(t, r)

Scheduler ==
  \/ SchedulerWakes \/ SchedulerDies
  \/ RitualFetch \/ RitualWorks \/ RitualWrite \/ RitualEnds \/ RitualFails

Next ==
  \/ Tick \/ Watch \/ Script \/ Triage \/ Records \/ Scheduler
  \/ \E t \in Tasks, s \in MovedTo : Move(t, s)

Spec == Init /\ [][Next]_vars

-----------------------------------------------------------------------------
(* A target is stamped as reminded only when a reminder listed after it    *)
(* was delivered: the watch loop swallows none. The script, which stamps   *)
(* its own time and ignores the command's status, can (watch.py:7-10,192;  *)
(* scripts/reminders.py:37-48).                                            *)
StampedMeansTold ==
  \A t \in Tasks \ byScript : \A x \in Targets(task[t]) : x <= task[t].sent => x <= told[t]

(* A reminder comes again with no new target passed only after a stamp     *)
(* that failed, a delivery that was not heard of, a target that passed     *)
(* between the start of a tick and its listing, two senders at once, or a  *)
(* deferral of what was about to be sent (watch.py:189-195,                *)
(* store.py:442-460, main.py:549-552).                                     *)
RemindedAgainNeedsSlip == again \subseteq slips

(* In one review a task is announced again only after a death that lost    *)
(* what was not saved, or a delivery not heard of; a failed tick repeats   *)
(* nothing (watch.py:99-112,198-204,241-246).                              *)
AnnouncedTwiceNeedsDeath == twice \subseteq forgot

(* A review the watch loop believes announced was announced, unless the    *)
(* task left review and came back behind its back (watch.py:19-21).        *)
NotifiedMeansAnnounced == notified \cap InReview \subseteq announced \cup blinked

(* A triage session shows again, within the cooldown, only what another    *)
(* one had read and not marked yet when it read (main.py:424-437).         *)
ShownAgainNeedsCrossing == repeats \subseteq crossed

(* When the scheduler sleeps, the ritual's last time has had its digest,   *)
(* of a board read after it and after the ritual's own work, unless the    *)
(* scheduler died, the ritual failed, or a nap or a ritual took the half   *)
(* hour of grace too long (scheduler.py:59-68, daily_ritual.py:350-352).   *)
DigestNotMissed ==
  rpc = "nap" /\ ~hindered => written >= LastTarget(looked) /\ written >= worked

(* The scheduler sleeps until the ritual's time each day, runs the ritual  *)
(* and goes back to sleep (scheduler.py:4-8): once it has ended well it    *)
(* does not run again before the next day.                                 *)
RitualOncePerDay == ~reran
=============================================================================
