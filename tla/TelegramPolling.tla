--------------------------- MODULE TelegramPolling ---------------------------
(***************************************************************************)
(* The Telegram adapter (adapters/telegram_polling_adapter.py) with the    *)
(* three calls it makes to the task API: the ingestion check, the context  *)
(* ingest and the decision receipt (src/app/main.py, ingestion_store.py).  *)
(*                                                                         *)
(* The adapter is one process that a supervisor restarts. It may die       *)
(* between any two steps, and so may the request it waits for: a request   *)
(* that timed out, or whose sender died, may still be carried out by the   *)
(* server later (an orphan). The update offset is kept in a file that is   *)
(* truncated and then written.                                             *)
(*                                                                         *)
(* A text is a value of its own and stands for its fingerprint; Parsed     *)
(* gives its task lines, and <<message, line>> is a task's external_id.    *)
(* Presses, replies and business updates only move the offset here. The    *)
(* dry-run and --once modes are left out.                                  *)
(***************************************************************************)
EXTENDS Naturals, Sequences, FiniteSets

CONSTANTS
  Messages,   (* (chat, message id) pairs                                  *)
  Texts,      (* message texts                                             *)
  Lines,      (* task lines                                                *)
  Parsed,     (* parse_tasks_from_text: the task lines of each text        *)
  Updates,    (* the updates people cause: [kind, msg, text]               *)
  NoJob,
  Torn,       (* the state file was truncated and not written              *)
  MaxUpdates, (* bound: updates sent                                       *)
  MaxFaults   (* bound: deaths of the adapter or of one of its requests    *)

Update == [kind : {"text", "voice", "other"}, msg : Messages, text : Texts]

ASSUME TelegramAssumption ==
  /\ Parsed \in [Texts -> SUBSET Lines]
  /\ Updates \subseteq Update
  /\ MaxUpdates \in Nat
  /\ MaxFaults \in Nat
  /\ Torn \notin Nat

(* A request as the server carries it out; todo: the lines not ingested    *)
(* yet; run: the deaths before it, which tells repeated requests apart.    *)
Job == [kind : {"ingest", "record", "voice"}, msg : Messages, text : Texts,
        todo : SUBSET Lines, run : 0..MaxFaults]

ASSUME NoJobAssumption == NoJob \notin Job

NoOffset == 0  (* no offset: there is no state file                        *)
Offsets == 1..(MaxUpdates + 1)

VARIABLES
  sent,       (* Telegram: every update so far; its index is its id        *)
  confirmed,  (* Telegram: the greatest offset it was asked for            *)
  file,       (* the state file                                            *)
  pc, offset, pos, end,  (* the adapter: main's offset, and its batch      *)
  call,       (* the request the adapter waits for                         *)
  orphans,    (* requests still running that nobody waits for              *)
  board,      (* the server: live tasks <<msg, line>> by external_id       *)
  receipts,   (* the server: decisions <<msg, text>>                       *)
  voices,     (* the server: tasks made of each voice message              *)
  made,       (* history: every <<msg, line>> that ever became a task      *)
  rejected,   (* history: <<task, text>>, the task was deleted when that   *)
              (* text had its receipt and no ingest of it was on its way   *)
  faults      (* history: number of deaths                                 *)

adapter == <<pc, offset, pos, end>>
server == <<board, receipts, voices, made>>
history == <<rejected, faults>>
vars == <<sent, confirmed, file, adapter, call, orphans, server, history>>

TypeOK ==
  /\ sent \in Seq(Update) /\ Len(sent) <= MaxUpdates
  /\ confirmed \in Offsets
  /\ file \in Offsets \cup {NoOffset, Torn}
  /\ pc \in {"down", "poll", "update", "ingest", "record", "voice", "truncate", "write"}
  /\ offset \in Offsets \cup {NoOffset}
  /\ pos \in Offsets
  /\ end \in 0..MaxUpdates
  /\ call \in Job \cup {NoJob}
  /\ orphans \subseteq Job
  /\ board \subseteq Messages \X Lines
  /\ receipts \subseteq Messages \X Texts
  /\ voices \in [Messages -> Nat]
  /\ made \subseteq Messages \X Lines
  /\ rejected \subseteq (Messages \X Lines) \X Texts
  /\ faults \in 0..MaxFaults

Init ==
  /\ sent = << >> /\ confirmed = 1
  /\ file = NoOffset
  /\ pc = "down" /\ offset = NoOffset /\ pos = 1 /\ end = 0
  /\ call = NoJob /\ orphans = {}
  /\ board = {} /\ receipts = {} /\ made = {}
  /\ voices = [m \in Messages |-> 0]
  /\ rejected = {} /\ faults = 0

-----------------------------------------------------------------------------
(* Somebody writes to a chat the bot reads, or edits a message: an edit    *)
(* has the message's id and another text.                                  *)
Send(u) ==
  /\ Len(sent) < MaxUpdates
  /\ sent' = Append(sent, u)
  /\ UNCHANGED <<confirmed, file, adapter, call, orphans, server, history>>

(* The requests that are on their way.                                     *)
Running == orphans \cup ({call} \ {NoJob})

(* The owner deletes a task on the board.                                  *)
DeleteTask(t) ==
  /\ t \in board
  /\ board' = board \ {t}
  /\ rejected' = rejected \cup
       {<<t, r[2]>> : r \in {r \in receipts :
          /\ r[1] = t[1]
          /\ \A j \in Running : j.kind = "ingest" => <<j.msg, j.text>> # r}}
  /\ UNCHANGED <<sent, confirmed, file, adapter, call, orphans,
                 receipts, voices, made, faults>>

(* The supervisor starts the adapter, which reads its offset. A truncated  *)
(* file is no JSON: the process exits again.                               *)
Start ==
  /\ pc = "down"
  /\ file # Torn
  /\ offset' = file
  /\ pc' = "poll"
  /\ UNCHANGED <<sent, confirmed, file, pos, end, call, orphans, server, history>>

(* Somebody removes the file that keeps the adapter from starting.         *)
RemoveFile ==
  /\ pc = "down"
  /\ file = Torn
  /\ file' = NoOffset
  /\ UNCHANGED <<sent, confirmed, adapter, call, orphans, server, history>>

(* Mutant of FirstUpdate: the offset is not passed on.                     *)
FirstUnconfirmed == confirmed

(* The first update getUpdates returns.                                    *)
FirstUpdate == IF offset = NoOffset THEN confirmed ELSE offset

(* getUpdates: the updates from the offset on, or, without one, from the   *)
(* offset last asked for; Telegram forgets the updates before it. A failed *)
(* call is repeated later.                                                 *)
GetUpdates ==
  /\ pc = "poll"
  /\ FirstUpdate <= Len(sent)
  /\ confirmed' = FirstUpdate
  /\ pos' = FirstUpdate
  /\ end' = Len(sent)
  /\ pc' = "update"
  /\ UNCHANGED <<sent, file, offset, call, orphans, server, history>>

(* The batch is done: report the source's health and poll again.           *)
EndOfBatch ==
  /\ pc = "update"
  /\ pos > end
  /\ pc' = "poll"
  /\ UNCHANGED <<sent, confirmed, file, offset, pos, end, call, orphans, server, history>>

Request(kind, u) ==
  /\ call' = [kind |-> kind, msg |-> u.msg, text |-> u.text,
              todo |-> Parsed[u.text], run |-> faults]
  /\ pc' = kind

(* Mutant of Suppressed: the ledger is not asked.                          *)
NeverSuppressed(u) == FALSE

(* should_process_item: the text of this message has a receipt.            *)
Suppressed(u) == <<u.msg, u.text>> \in receipts

(* process_update: a text message whose text has a receipt is skipped,     *)
(* one without task lines gets its receipt, any other is ingested. A voice *)
(* message that is too long or not understood makes no task.               *)
ProcessUpdate ==
  LET u == sent[pos]
  IN /\ pc = "update"
     /\ pos <= end
     /\ \/ /\ u.kind = "text" /\ ~ Suppressed(u) /\ Parsed[u.text] # {}
           /\ Request("ingest", u)
        \/ /\ u.kind = "text" /\ ~ Suppressed(u) /\ Parsed[u.text] = {}
           /\ Request("record", u)
        \/ /\ u.kind = "voice"
           /\ Request("voice", u)
        \/ /\ u.kind = "text" => Suppressed(u)
           /\ pc' = "truncate"
           /\ UNCHANGED call
     /\ UNCHANGED <<sent, confirmed, file, offset, pos, end, orphans, server, history>>

(* Mutant of RecordDecision: the answer is not waited for.                 *)
RecordUnanswered ==
  /\ pc = "ingest"
  /\ Request("record", sent[pos])
  /\ UNCHANGED <<sent, confirmed, file, offset, pos, end, orphans, server, history>>

(* The ingest was answered: record the decision ...                        *)
RecordDecision ==
  /\ pc = "ingest"
  /\ call = NoJob
  /\ Request("record", sent[pos])
  /\ UNCHANGED <<sent, confirmed, file, offset, pos, end, orphans, server, history>>

(* ... and with the last answer process_update returns.                    *)
UpdateDone ==
  /\ pc \in {"record", "voice"}
  /\ call = NoJob
  /\ pc' = "truncate"
  /\ UNCHANGED <<sent, confirmed, file, offset, pos, end, call, orphans, server, history>>

(* Mutant of NextOffset: the update is asked for again.                    *)
SameOffset == pos

(* main: offset = update_id + 1.                                           *)
NextOffset == pos + 1

(* write_offset opens the file for writing, which truncates it, ...        *)
Truncate ==
  /\ pc = "truncate"
  /\ offset' = NextOffset
  /\ file' = Torn
  /\ pc' = "write"
  /\ UNCHANGED <<sent, confirmed, pos, end, call, orphans, server, history>>

(* ... and then writes it. The next update of the batch follows.           *)
WriteOffset ==
  /\ pc = "write"
  /\ file' = offset
  /\ pos' = offset
  /\ pc' = "update"
  /\ UNCHANGED <<sent, confirmed, offset, end, call, orphans, server, history>>

-----------------------------------------------------------------------------
(* ingest_context: one line becomes a task unless its external_id is taken *)
(* (by the lookup or by the UNIQUE constraint).                            *)
IngestLine(j, l) ==
  /\ board' = board \cup {<<j.msg, l>>}
  /\ made' = made \cup {<<j.msg, l>>}
  /\ UNCHANGED <<receipts, voices>>

(* record_decision: the receipt of this text of the message.               *)
RecordReceipt(j) ==
  /\ receipts' = receipts \cup {<<j.msg, j.text>>}
  /\ UNCHANGED <<board, voices, made>>

(* POST /api/agent/tasks without an external_id: always a new task.        *)
CreateVoiceTask(j) ==
  /\ voices' = [voices EXCEPT ![j.msg] = @ + 1]
  /\ UNCHANGED <<board, receipts, made>>

(* What the server does next for request j: its effect, and what is left   *)
(* of the request.                                                         *)
Serve(j, left) ==
  \/ /\ j.kind = "ingest"
     /\ \E l \in j.todo :
          /\ IngestLine(j, l)
          /\ left = IF j.todo = {l} THEN NoJob ELSE [j EXCEPT !.todo = @ \ {l}]
  \/ /\ j.kind = "record"
     /\ RecordReceipt(j)
     /\ left = NoJob
  \/ /\ j.kind = "voice"
     /\ CreateVoiceTask(j)
     /\ left = NoJob

Remainders(j) == {NoJob} \cup {[j EXCEPT !.todo = @ \ {l}] : l \in j.todo}

ServeCall ==
  /\ call # NoJob
  /\ \E left \in Remainders(call) : Serve(call, left) /\ call' = left
  /\ UNCHANGED <<sent, confirmed, file, adapter, orphans, history>>

ServeOrphan(j) ==
  /\ \E left \in Remainders(j) :
       /\ Serve(j, left)
       /\ orphans' = (orphans \ {j}) \cup ({left} \ {NoJob})
  /\ UNCHANGED <<sent, confirmed, file, adapter, call, history>>

DropOrphan(j) ==
  /\ orphans' = orphans \ {j}
  /\ UNCHANGED <<sent, confirmed, file, adapter, call, server, history>>

(* The adapter dies: killed, or on an API error it does not catch. The     *)
(* request it waits for runs on or dies with the server.                   *)
Die ==
  /\ pc # "down"
  /\ faults < MaxFaults
  /\ faults' = faults + 1
  /\ pc' = "down"
  /\ offset' = NoOffset /\ pos' = 1 /\ end' = 0
  /\ call' = NoJob
  /\ orphans' \in {orphans, orphans \cup ({call} \ {NoJob})}
  /\ UNCHANGED <<sent, confirmed, file, server, rejected>>

(* Mutant of Catches: every request's error is caught.                     *)
CatchesAll(kind) == kind \in {"voice", "ingest", "record"}

(* The requests whose error the adapter survives.                          *)
Catches(kind) == kind = "voice"

(* handle_voice_message catches the error of its request, tells the user   *)
(* and goes on; the request may be carried out all the same.               *)
VoiceFails ==
  /\ Catches(pc)
  /\ call # NoJob
  /\ faults < MaxFaults
  /\ faults' = faults + 1
  /\ pc' = "truncate"
  /\ call' = NoJob
  /\ orphans' \in {orphans, orphans \cup {call}}
  /\ UNCHANGED <<sent, confirmed, file, offset, pos, end, server, rejected>>

AdapterStep ==
  \/ Start \/ GetUpdates \/ EndOfBatch \/ ProcessUpdate \/ RecordDecision
  \/ UpdateDone \/ Truncate \/ WriteOffset

Next ==
  \/ \E u \in Updates : Send(u)
  \/ \E t \in board : DeleteTask(t)
  \/ AdapterStep
  \/ RemoveFile
  \/ ServeCall
  \/ \E j \in orphans : ServeOrphan(j) \/ DropOrphan(j)
  \/ Die
  \/ VoiceFails

(* The adapter is restarted and keeps running, and the server answers.     *)
(* Nobody has to send, delete, or repair anything.                         *)
Fairness == WF_vars(AdapterStep) /\ WF_vars(ServeCall)

Spec == Init /\ [][Next]_vars /\ Fairness

-----------------------------------------------------------------------------
(* An update is behind the adapter when it will not be asked for again.    *)
Behind(i) ==
  \/ i < confirmed
  \/ i < offset
  \/ file # Torn /\ i < file

(* Every line of a text message the adapter has left behind became a task: *)
(* the offset moves only after the ingest was answered, an API error stops *)
(* the adapter before it moves, and a receipt that skips a message stands  *)
(* for its lines (telegram_polling_adapter.py 1015-1052 and 1090-1094).    *)
NothingLost ==
  \A i \in 1..Len(sent) :
    Behind(i) /\ sent[i].kind = "text"
      => \A l \in Parsed[sent[i].text] : <<sent[i].msg, l>> \in made

(* The receipt of a message is recorded only after all its lines became    *)
(* tasks, also when the ingest failed between two lines and was repeated.  *)
ReceiptsAreEarned ==
  \A r \in receipts : \A l \in Parsed[r[2]] : <<r[1], l>> \in made

(* A task the owner deleted does not come back from a text that had its    *)
(* receipt by then, however often Telegram hands it out again: only        *)
(* another text of the message brings it back (ingestion_store.py 294).    *)
ReceiptsKeepDeleted ==
  [][\A t \in board' \ board :
       \E j \in Running :
         /\ j.kind = "ingest" /\ j.msg = t[1] /\ t[2] \in j.todo
         /\ <<t, j.text>> \notin rejected]_vars

(* How often voice message m was sent.                                     *)
TimesSent(m) ==
  Cardinality({i \in 1..Len(sent) : sent[i].kind = "voice" /\ sent[i].msg = m})

(* A voice message makes more than one task only when the adapter or a     *)
(* request died, one more for each death at most: the offset is all that   *)
(* keeps it from being processed again (1090-1094), and a message sent     *)
(* earlier can be repeated only when the offset was lost.                  *)
VoiceDuplicatesNeedFaults ==
  \A m \in Messages : voices[m] <= TimesSent(m) * (1 + faults)

(* The adapter and the server, with deaths, retries and requests that      *)
(* outlive their sender, implement the intake the contract describes: no   *)
(* task without a message, no receipt without its tasks, and the offset    *)
(* Telegram was asked for never goes back.                                 *)
Contract == INSTANCE Intake WITH passed <- confirmed, tasks <- board

ImplementsIntake == Contract!Spec

(* Every update is left behind in the end, unless a death left the state   *)
(* file truncated and nobody removes it.                                   *)
EveryUpdateIsHandled ==
  []<>(\/ sent = << >>
       \/ file = Torn /\ pc = "down"
       \/ file # Torn /\ file > Len(sent))
=============================================================================
