------------------------------ MODULE Business -------------------------------
(***************************************************************************)
(* Task candidates from the owner's private chats                          *)
(* (adapters/telegram_business.py), run by the main loop of the polling    *)
(* adapter: messages fill a buffer, a Claude session reads what is new in  *)
(* it, each candidate becomes a card in the owner's chat, and the owner's  *)
(* press on a card makes a task or a receipt.                              *)
(*                                                                         *)
(* The adapter works on a state in memory and saves it once per batch,     *)
(* after the offset was written for every update of the batch: a death in  *)
(* between loses what the updates did to the state. Each call to Telegram  *)
(* or to the task API may fail, and a failed call may have had its effect. *)
(*                                                                         *)
(* One chat is modelled; chats share nothing but the order in which they   *)
(* are analyzed. A text stands for its fingerprint and for the candidate   *)
(* that is found in it. Left out: _prune (candidates of two weeks ago),    *)
(* connection updates, whose only effect is a notice, group messages and   *)
(* ignored chats, the context given with the prompt, and the torn offset   *)
(* file, which TelegramPolling models.                                     *)
(***************************************************************************)
EXTENDS Naturals, Sequences, FiniteSets

CONSTANTS
  Msgs,       (* message ids, in order of sending                          *)
  Texts,      (* message texts                                             *)
  BufferLimit,(* BUSINESS_BUFFER_LIMIT                                     *)
  Updates,    (* the updates people cause: [kind, msg, text]               *)
  NoItem,
  MaxUpdates, (* bound: updates sent                                       *)
  MaxFaults,  (* bound: deaths, failed calls, lost state files             *)
  MaxMinutes  (* bound: minutes that pass                                  *)

Items == Msgs \X Texts

Update == [kind : {"message", "edited", "deleted", "take", "skip"},
           msg : Msgs, text : Texts]

ASSUME BusinessAssumption ==
  /\ Msgs \subseteq Nat \ {0}
  /\ BufferLimit \in Nat \ {0}
  /\ Updates \subseteq Update
  /\ NoItem \notin Items
  /\ MaxUpdates \in Nat
  /\ MaxFaults \in Nat
  /\ MaxMinutes \in Nat \ {0}

(* The state that is saved: messages and candidates by message id, the     *)
(* watermark analyzed_through, the failures in a row, the messages already *)
(* suggested (its last 200).                                               *)
State == [messages : SUBSET Items, through : Nat, failures : 0..2,
          suggested : SUBSET Msgs, candidates : SUBSET Items]

(* created and duplicate receipts are both "taken".                        *)
Decisions == {"none", "needs_review", "ignored", "taken"}

VARIABLES
  queue,      (* Telegram: updates the offset has not passed yet           *)
  latest,     (* Telegram: the latest message's id                         *)
  sends,      (* Telegram: updates sent so far                             *)
  minute,     (* the clock, as it was last looked at                       *)
  pc,         (* the adapter                                               *)
  state,      (* the adapter: its state in memory                          *)
  left,       (* the adapter: updates left in its batch                    *)
  item, todo, (* the adapter: the item in hand, candidates not handled yet *)
  disk,       (* the state file                                            *)
  receipts,   (* the server: the decision on each item                     *)
  tasks,      (* the server: <<item, minute>>, a task by external_id       *)
  cards,      (* history: cards shown for each item                        *)
  read,       (* history: items a session has read or three gave up on     *)
  slipped,    (* history: items whose card or receipt was hit by a fault   *)
  answered,   (* history: items the owner's press was handled for          *)
  faults      (* history: number of faults                                 *)

telegram == <<queue, latest, sends>>
adapter == <<pc, state, left, item, todo>>
server == <<receipts, tasks>>
history == <<cards, read, slipped, answered, faults>>
vars == <<telegram, minute, adapter, disk, server, history>>

TypeOK ==
  /\ queue \in Seq(Update) /\ Len(queue) <= MaxUpdates
  /\ latest \in Nat
  /\ sends \in 0..MaxUpdates
  /\ minute \in 1..MaxMinutes
  /\ pc \in {"down", "poll", "update", "take", "accept", "skip", "move",
             "analyze", "check", "card", "receipt", "save"}
  /\ state \in State
  /\ left \in 0..MaxUpdates
  /\ item \in Items \cup {NoItem}
  /\ todo \subseteq Items
  /\ disk \in State
  /\ receipts \in [Items -> Decisions]
  /\ tasks \subseteq Items \X (1..MaxMinutes)
  /\ cards \in [Items -> Nat]
  /\ read \subseteq Items /\ slipped \subseteq Items /\ answered \subseteq Items
  /\ faults \in 0..MaxFaults

Fresh == [messages |-> {}, through |-> 0, failures |-> 0,
          suggested |-> {}, candidates |-> {}]

Init ==
  /\ queue = << >> /\ latest = 0 /\ sends = 0
  /\ minute = 1
  /\ pc = "down" /\ state = Fresh /\ left = 0 /\ item = NoItem /\ todo = {}
  /\ disk = Fresh
  /\ receipts = [i \in Items |-> "none"]
  /\ tasks = {}
  /\ cards = [i \in Items |-> 0]
  /\ read = {} /\ slipped = {} /\ answered = {}
  /\ faults = 0
-----------------------------------------------------------------------------
(* What people do in the chats. Ids grow; an edit or a deletion is of a    *)
(* message sent before, a press is on a card shown before.                 *)
Send(u) ==
  /\ sends < MaxUpdates
  /\ CASE u.kind = "message"              -> u.msg = latest + 1
       [] u.kind \in {"edited", "deleted"} -> u.msg <= latest
       [] u.kind \in {"take", "skip"}      -> \E x \in Texts : cards[<<u.msg, x>>] > 0
  /\ latest' = IF u.kind = "message" THEN u.msg ELSE latest
  /\ queue' = Append(queue, u)
  /\ sends' = sends + 1
  /\ UNCHANGED <<minute, adapter, disk, server, history>>

Fault == faults < MaxFaults /\ faults' = faults + 1
NoFault == UNCHANGED faults

-----------------------------------------------------------------------------
(* load_state. The offset file decides where the queue begins.             *)
Start ==
  /\ pc = "down"
  /\ state' = disk
  /\ pc' = "poll"
  /\ UNCHANGED <<telegram, minute, left, item, todo, disk, server, history>>

(* getUpdates returns the updates there are, or none after a while.        *)
GetUpdates ==
  /\ pc = "poll"
  /\ left' = Len(queue)
  /\ pc' = "update"
  /\ UNCHANGED <<telegram, minute, state, item, todo, disk, server, history>>

(* One message record per id, the latest one.                              *)
Put(items, i) == {j \in items : j[1] # i[1]} \cup {i}

(* Messages are sorted by id and the last BufferLimit kept, analyzed or    *)
(* not.                                                                    *)
Trim(items) ==
  {i \in items : Cardinality({j \in items : j[1] > i[1]}) < BufferLimit}

(* Mutant of Reopens: an edit is buffered whatever was analyzed.           *)
NeverReopens(u) == FALSE

(* An edit of a message that was analyzed.                                 *)
Reopens(u) == u.kind = "edited" /\ u.msg <= state.through

(* _buffer_message                                                         *)
BufferMessage(u) ==
  /\ u.kind \in {"message", "edited"}
  /\ state' = IF Reopens(u) THEN state
              ELSE [state EXCEPT !.messages = Trim(Put(@, <<u.msg, u.text>>))]
  /\ pc' = "move"
  /\ UNCHANGED item

(* _drop_messages                                                          *)
DropMessages(u) ==
  /\ u.kind = "deleted"
  /\ state' = [state EXCEPT !.messages = {i \in @ : i[1] # u.msg}]
  /\ pc' = "move"
  /\ UNCHANGED item

(* handle_business_callback looks the candidate up; a card without one is  *)
(* stale.                                                                  *)
Press(u) ==
  /\ u.kind \in {"take", "skip"}
  /\ \/ \E i \in state.candidates :
          /\ i[1] = u.msg
          /\ item' = i
          /\ pc' = u.kind
     \/ /\ \A i \in state.candidates : i[1] # u.msg
        /\ pc' = "move"
        /\ UNCHANGED item
  /\ UNCHANGED state

ProcessUpdate ==
  LET u == Head(queue)
  IN /\ pc = "update"
     /\ left > 0
     /\ BufferMessage(u) \/ DropMessages(u) \/ Press(u)
     /\ UNCHANGED <<telegram, minute, left, todo, disk, server, history>>

(* _task_description holds the minute, and the external_id is a hash of    *)
(* the task with its description: the same candidate is the same task only *)
(* within the minute.                                                      *)
LookAtClock == minute' \in minute..MaxMinutes

Ingested == tasks \cup {<<item, minute'>>}

(* take: _ingest_candidate ...                                             *)
IngestCandidate ==
  /\ pc = "take"
  /\ LookAtClock
  /\ tasks' = Ingested
  /\ pc' = "accept"
  /\ UNCHANGED <<telegram, state, left, item, todo, disk, receipts, history>>

(* Mutant of Kept: a failed ingest uses the candidate up.                  *)
KeptNot == [state EXCEPT !.candidates = @ \ {item}]

(* The candidate whose ingest failed stays.                                *)
Kept == state

(* ... or it failed, perhaps after the task was created.                   *)
IngestFails ==
  /\ pc = "take"
  /\ Fault
  /\ LookAtClock
  /\ tasks' \in {tasks, Ingested}
  /\ state' = Kept
  /\ item' = NoItem
  /\ pc' = "move"
  /\ UNCHANGED <<telegram, left, todo, disk, receipts, cards, read, slipped, answered>>

(* The receipt of the owner's answer ...                                   *)
Answer == IF pc = "accept" THEN "taken" ELSE "ignored"

(* Mutant of Answered: the candidate stays.                                *)
AnsweredKept == state

(* ... and the candidate is popped, also when the receipt failed.          *)
Answered == [state EXCEPT !.candidates = @ \ {item}]

RecordAnswer ==
  /\ pc \in {"accept", "skip"}
  /\ \/ /\ receipts' = [receipts EXCEPT ![item] = Answer]
        /\ NoFault
     \/ /\ receipts' \in {receipts, [receipts EXCEPT ![item] = Answer]}
        /\ Fault
  /\ state' = Answered
  /\ answered' = answered \cup {item}
  /\ item' = NoItem
  /\ pc' = "move"
  /\ UNCHANGED <<telegram, minute, left, todo, disk, tasks, cards, read, slipped>>

(* main: the offset passes the update.                                     *)
WriteOffset ==
  /\ pc = "move"
  /\ queue' = Tail(queue)
  /\ left' = left - 1
  /\ pc' = "update"
  /\ UNCHANGED <<latest, sends, minute, state, item, todo, disk, server, history>>

EndOfBatch ==
  /\ pc = "update"
  /\ left = 0
  /\ pc' = "analyze"
  /\ UNCHANGED <<telegram, minute, state, left, item, todo, disk, server, history>>

-----------------------------------------------------------------------------
(* _unanalyzed                                                             *)
Pending(s) == {i \in s.messages : i[1] > s.through}

(* Mutant of PassPending: what was read counts as suggested at once.       *)
PassMarks ==
  /\ \E n \in Msgs :
       /\ \E i \in Pending(state) : i[1] = n
       /\ \A i \in Pending(state) : i[1] <= n
       /\ state' = [state EXCEPT !.through = n, !.failures = 0,
                     !.suggested = @ \cup {i[1] : i \in Pending(state)}]
  /\ read' = read \cup Pending(state)

(* The watermark moves to the last pending message.                        *)
PassPending ==
  /\ \E n \in Msgs :
       /\ \E i \in Pending(state) : i[1] = n
       /\ \A i \in Pending(state) : i[1] <= n
       /\ state' = [state EXCEPT !.through = n, !.failures = 0]
  /\ read' = read \cup Pending(state)

(* tick: nothing to read, or the chat is not quiet yet.                    *)
NotDue ==
  /\ pc = "analyze"
  /\ pc' = "save"
  /\ UNCHANGED <<telegram, minute, state, left, item, todo, disk, server, history>>

(* Mutant of Failures: only this session counts.                           *)
FailuresForgotten == 1

Failures == state.failures + 1

GivesUp == Failures >= 3

(* The session failed: the messages stay pending until it is the third     *)
(* failure in a row.                                                       *)
AnalysisFails ==
  /\ pc = "analyze"
  /\ Pending(state) # {}
  /\ \/ /\ GivesUp
        /\ PassPending
     \/ /\ ~ GivesUp
        /\ state' = [state EXCEPT !.failures = Failures]
        /\ UNCHANGED read
  /\ pc' = "save"
  /\ UNCHANGED <<telegram, minute, left, item, todo, disk, server,
                 cards, slipped, answered, faults>>

(* The session has read what is pending and found some candidates in it.   *)
(* The watermark moves before they are handled.                            *)
AnalysisReads ==
  /\ pc = "analyze"
  /\ Pending(state) # {}
  /\ todo' \in SUBSET Pending(state)
  /\ PassPending
  /\ pc' = "check"
  /\ UNCHANGED <<telegram, minute, left, item, disk, server,
                 cards, slipped, answered, faults>>

(* Mutant of ShouldProcess: cards that wait for an answer are sent again.  *)
ShouldProcessUnlessAnswered(i) == receipts[i] \notin {"ignored", "taken"}

(* Mutant of ShouldProcess: only the owner's refusal counts.               *)
ShouldProcessUnlessIgnored(i) == receipts[i] # "ignored"

(* _ledger_should_process                                                  *)
ShouldProcess(i) == receipts[i] = "none"

(* The next candidate, in the session's order. One that was suggested      *)
(* before, has a receipt, or cannot be checked is passed over.             *)
CheckCandidate(i) ==
  /\ pc = "check"
  /\ i \in todo
  /\ todo' = todo \ {i}
  /\ \/ /\ i[1] \in state.suggested
        /\ NoFault
        /\ UNCHANGED <<state, item, pc>>
     \/ /\ i[1] \notin state.suggested
        /\ ~ ShouldProcess(i)
        /\ NoFault
        /\ state' = [state EXCEPT !.suggested = @ \cup {i[1]}]
        /\ UNCHANGED <<item, pc>>
     \/ /\ i[1] \notin state.suggested
        /\ Fault
        /\ UNCHANGED <<state, item, pc>>
     \/ /\ i[1] \notin state.suggested
        /\ ShouldProcess(i)
        /\ NoFault
        /\ item' = i
        /\ pc' = "card"
        /\ UNCHANGED state
  /\ UNCHANGED <<telegram, minute, left, disk, server, cards, read, slipped, answered>>

CandidatesDone ==
  /\ pc = "check"
  /\ todo = {}
  /\ pc' = "save"
  /\ UNCHANGED <<telegram, minute, state, left, item, todo, disk, server, history>>

Shown == [cards EXCEPT ![item] = @ + 1]

(* _send_candidate_card, and the candidate is remembered ...               *)
SendCard ==
  /\ pc = "card"
  /\ cards' = Shown
  /\ state' = [state EXCEPT !.candidates = Put(@, item),
                            !.suggested = @ \cup {item[1]}]
  /\ pc' = "receipt"
  /\ UNCHANGED <<telegram, minute, left, item, todo, disk, server,
                 read, slipped, answered, faults>>

(* ... unless the call failed, perhaps after the card was shown.           *)
CardFails ==
  /\ pc = "card"
  /\ Fault
  /\ cards' \in {cards, Shown}
  /\ slipped' = slipped \cup {item}
  /\ item' = NoItem
  /\ pc' = "check"
  /\ UNCHANGED <<telegram, minute, state, left, todo, disk, server, read, answered>>

(* The receipt of the card. That it failed is only logged.                 *)
RecordReview ==
  /\ pc = "receipt"
  /\ \/ /\ receipts' = [receipts EXCEPT ![item] = "needs_review"]
        /\ NoFault
        /\ UNCHANGED slipped
     \/ /\ receipts' \in {receipts, [receipts EXCEPT ![item] = "needs_review"]}
        /\ Fault
        /\ slipped' = slipped \cup {item}
  /\ item' = NoItem
  /\ pc' = "check"
  /\ UNCHANGED <<telegram, minute, state, left, todo, disk, tasks, cards, read, answered>>

(* save_state writes a new file and renames it.                            *)
Save ==
  /\ pc = "save"
  /\ disk' = state
  /\ pc' = "poll"
  /\ UNCHANGED <<telegram, minute, state, left, item, todo, server, history>>

-----------------------------------------------------------------------------
(* The adapter dies, by a signal or an error of another part of the loop.  *)
Die ==
  /\ pc # "down"
  /\ Fault
  /\ slipped' = IF pc = "receipt" THEN slipped \cup {item} ELSE slipped
  /\ pc' = "down"
  /\ state' = Fresh /\ left' = 0 /\ item' = NoItem /\ todo' = {}
  /\ UNCHANGED <<telegram, minute, disk, server, cards, read, answered>>

(* The state file is wiped, or found unreadable by load_state.             *)
LoseFile ==
  /\ pc = "down"
  /\ Fault
  /\ disk' = Fresh
  /\ UNCHANGED <<telegram, minute, adapter, server, cards, read, slipped, answered>>

Analyze == AnalysisFails \/ AnalysisReads

AdapterStep ==
  \/ Start \/ GetUpdates \/ ProcessUpdate \/ IngestCandidate \/ IngestFails
  \/ RecordAnswer \/ WriteOffset \/ EndOfBatch \/ NotDue \/ Analyze
  \/ \E i \in todo : CheckCandidate(i)
  \/ CandidatesDone \/ SendCard \/ CardFails \/ RecordReview \/ Save

Next ==
  \/ \E u \in Updates : Send(u)
  \/ AdapterStep
  \/ Die
  \/ LoseFile

(* The supervisor restarts the adapter and the loop runs on. A chat with   *)
(* pending messages becomes due at the latest BUSINESS_ANALYZE_MAX_WAIT    *)
(* after the oldest of them, whatever is added, so a tick that may analyze *)
(* it again and again does so in the end. That takes an oldest that stays: *)
(* a flood that overflows the buffer keeps dropping it, and the fairness   *)
(* is the code's for the finitely many sends of the model.                 *)
Fairness == WF_vars(AdapterStep) /\ SF_vars(Analyze)

Spec == Init /\ [][Next]_vars /\ Fairness

-----------------------------------------------------------------------------
(* An item that has a receipt gets no card, whatever was lost or repeated  *)
(* since: a card that was answered or shown stays the only one (the        *)
(* docstring's "durable ignored decision", telegram_business.py 600-604).  *)
NoCardAfterReceipt ==
  [][\A i \in Items : cards'[i] > cards[i] => receipts[i] = "none"]_vars

(* An item is shown twice only when a fault hit its card or its receipt:   *)
(* a death anywhere else, a wiped state or a repeated analysis does not    *)
(* show it again (telegram_business.py 24-25 and 585-623).                 *)
CardTwiceNeedsSlip ==
  \A i \in Items : cards[i] > 1 => i \in slipped

(* The candidates of a session that still wait for their card or receipt.  *)
InHand == todo \cup (IF pc \in {"card", "receipt"} THEN {item} ELSE {})

(* The watermark has passed a candidate's message before the candidate is  *)
(* handled. Even so a candidate is let go without a fault in that very     *)
(* step only when the owner was shown a card of its message: what the      *)
(* state, the file or the ledger remember as suggested or decided, in any  *)
(* earlier life of the adapter, was shown (telegram_business.py 586-610).  *)
CandidateShown ==
  [][\A i \in InHand \ InHand' :
       (\E x \in Texts : cards'[<<i[1], x>>] > 0) \/ faults' > faults]_vars

(* A candidate becomes no task before its card was shown, and more tasks   *)
(* than one only by faults, one more for each: a second press finds no     *)
(* candidate (telegram_business.py 999-1003 and 1047).                     *)
TaskTwiceNeedsFault ==
  \A i \in Items :
    Cardinality({t \in tasks : t[1] = i}) <= IF cards[i] = 0 THEN 0 ELSE 1 + faults

(* What the watermark has passed in the buffer was read by a session in    *)
(* its present text, or given up on: an edit does not slip in below it     *)
(* (telegram_business.py 456-457 and 573-586).                             *)
ReadBeforePassed ==
  \A s \in {state, disk} : \A i \in s.messages : i[1] <= s.through => i \in read

(* A candidate that was saved stays answerable until the owner's press on  *)
(* it was handled, a failed one excepted, or the file is lost              *)
(* (telegram_business.py 1025-1032 and 1047).                              *)
CandidateWaits ==
  [][\A i \in disk.candidates \ disk'.candidates :
       i \in answered \/ disk' = Fresh]_vars

(* The adapter catches up with its chat again and again: neither failing   *)
(* sessions nor deaths nor edits keep a message pending for ever.          *)
CatchesUp ==
  []<>(pc = "poll" /\ Pending(state) = {})

-----------------------------------------------------------------------------
(* README.md 265-268: with external_id, ingest is idempotent: "replayed    *)
(* webhooks, lost adapter state, or retried polling runs report the        *)
(* existing task as a duplicate instead of creating a second copy". A      *)
(* candidate, accepted, is one task.                                       *)
CandidateIsOneTask ==
  \A i \in Items : Cardinality({t \in tasks : t[1] = i}) <= 1

=============================================================================
