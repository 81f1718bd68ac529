----------------------- MODULE TelegramPolling_proofs ------------------------
(***************************************************************************)
(* Theorems about TelegramPolling, for any number of messages, texts,      *)
(* updates and deaths.                                                     *)
(***************************************************************************)
EXTENDS TelegramPolling, FiniteSetTheorems, TLAPS

-----------------------------------------------------------------------------
(* The inductive invariant. NothingLost speaks of the three offsets; what  *)
(* makes it inductive is that the current update of the batch is settled   *)
(* by the time the offset moves (PhaseOK), and that whatever request of    *)
(* this or an earlier life of the adapter is still on its way has put on   *)
(* the board what it no longer has to do (JobsOK).                         *)

InMade(m, x) == \A l \in Parsed[x] : <<m, l>> \in made

Handled(u) == u.kind = "text" => InMade(u.msg, u.text)

Done(n) ==
  /\ n <= Len(sent) + 1
  /\ \A i \in 1..Len(sent) : i < n => Handled(sent[i])

PhaseOK ==
  /\ end <= Len(sent)
  /\ pc \in {"ingest", "record", "voice", "truncate"} => pos <= end
  /\ pc \in {"ingest", "record", "voice"} /\ call # NoJob =>
       call.kind = pc /\ call.msg = sent[pos].msg /\ call.text = sent[pos].text
  /\ pc \in {"down", "poll", "update", "truncate", "write"} => call = NoJob
  /\ pc = "ingest" => sent[pos].kind = "text"
  /\ pc = "voice" => sent[pos].kind = "voice"
  /\ pc = "ingest" /\ call = NoJob => InMade(sent[pos].msg, sent[pos].text)
  /\ pc \in {"record", "truncate"} => Handled(sent[pos])
  /\ pc = "write" => offset = pos + 1

OffsetsOK ==
  /\ Done(confirmed)
  /\ Done(offset)
  /\ file # Torn => Done(file)
  /\ Done(pos)

JobOK(j) ==
  /\ j.kind = "ingest" => \A l \in Parsed[j.text] \ j.todo : <<j.msg, l>> \in made
  /\ j.kind = "record" => InMade(j.msg, j.text)

JobsOK == \A j \in Running : JobOK(j)

RejectedOK ==
  /\ \A x \in rejected : <<x[1][1], x[2]>> \in receipts
  /\ \A j \in Running : j.kind = "ingest" =>
       \A x \in rejected : x[1][1] = j.msg => x[2] # j.text

IInv ==
  /\ TypeOK
  /\ PhaseOK
  /\ OffsetsOK
  /\ JobsOK
  /\ ReceiptsAreEarned
  /\ RejectedOK

-----------------------------------------------------------------------------
(* The types of what the actions build. *)
LEMMA RequestType ==
  ASSUME TypeOK, NEW kind \in {"ingest", "record", "voice"}, NEW u \in Update,
         Request(kind, u)
  PROVE  /\ call' \in Job /\ call' # NoJob
         /\ call'.kind = kind /\ call'.msg = u.msg /\ call'.text = u.text
         /\ call'.todo = Parsed[u.text]
         /\ pc' = kind
<1>1. u.msg \in Messages /\ u.text \in Texts  BY DEF Update
<1>2. Parsed[u.text] \in SUBSET Lines  BY <1>1, TelegramAssumption
<1>3. faults \in 0..MaxFaults  BY DEF TypeOK
<1> QED  BY <1>1, <1>2, <1>3, NoJobAssumption DEF Request, Job

LEMMA ServeType ==
  ASSUME TypeOK, NEW j \in Job, NEW left \in Remainders(j), Serve(j, left)
  PROVE  /\ left \in Job \cup {NoJob}
         /\ left # NoJob => left.kind = "ingest" /\ j.kind = "ingest"
                             /\ left.msg = j.msg /\ left.text = j.text
         /\ board' \subseteq Messages \X Lines
         /\ receipts' \subseteq Messages \X Texts
         /\ voices' \in [Messages -> Nat]
         /\ made' \subseteq Messages \X Lines
<1>1. left \in Job \cup {NoJob}  BY DEF Remainders, Job
<1>2. left # NoJob => left.kind = "ingest" /\ j.kind = "ingest" /\ left.msg = j.msg /\ left.text = j.text
  BY DEF Serve, Job
<1>3. j.msg \in Messages /\ j.text \in Texts /\ j.todo \subseteq Lines  BY DEF Job
<1> QED  BY <1>1, <1>2, <1>3 DEF Serve, IngestLine, RecordReceipt, CreateVoiceTask, TypeOK

LEMMA CurrentType ==
  ASSUME TypeOK, PhaseOK, pos <= end
  PROVE  /\ pos \in 1..Len(sent) /\ sent[pos] \in Update
         /\ sent[pos].msg \in Messages /\ sent[pos].text \in Texts
<1>1. pos \in 1..Len(sent)  BY DEF TypeOK, PhaseOK, Offsets
<1>2. sent[pos] \in Update  BY <1>1 DEF TypeOK
<1> QED  BY <1>1, <1>2 DEF Update

LEMMA RunningAreJobs == TypeOK => Running \subseteq Job
  BY DEF TypeOK, Running

LEMMA TypeInv == TypeOK /\ PhaseOK /\ [Next]_vars => TypeOK'
<1> SUFFICES ASSUME TypeOK, PhaseOK, [Next]_vars PROVE TypeOK'
  OBVIOUS
<1> USE TelegramAssumption
<1>1. ASSUME NEW u \in Updates, Send(u) PROVE TypeOK'
  <2>1. u \in Update  OBVIOUS
  <2>2. sent' \in Seq(Update) /\ Len(sent') <= MaxUpdates
    BY <1>1, <2>1 DEF Send, TypeOK
  <2> QED  BY <1>1, <2>2 DEF Send, TypeOK, adapter, server, history
<1>2. ASSUME NEW t \in board, DeleteTask(t) PROVE TypeOK'
  <2>1. rejected' \subseteq (Messages \X Lines) \X Texts
    BY <1>2 DEF DeleteTask, TypeOK
  <2> QED  BY <1>2, <2>1 DEF DeleteTask, TypeOK, adapter
<1>3. CASE AdapterStep
  <2>1. CASE Start  BY <2>1 DEF Start, TypeOK, Offsets, server, history
  <2>2. CASE GetUpdates
    <3>1. FirstUpdate \in Offsets  BY DEF FirstUpdate, TypeOK
    <3>2. Len(sent) \in 0..MaxUpdates  BY DEF TypeOK
    <3> QED  BY <2>2, <3>1, <3>2 DEF GetUpdates, TypeOK, server, history
  <2>3. CASE EndOfBatch  BY <2>3 DEF EndOfBatch, TypeOK, server, history
  <2>4. CASE ProcessUpdate
    <3>1. pos <= end  BY <2>4 DEF ProcessUpdate
    <3>2. sent[pos] \in Update  BY <3>1, CurrentType
    <3>3. \/ \E kind \in {"ingest", "record", "voice"} : Request(kind, sent[pos])
          \/ pc' = "truncate" /\ call' = call
      BY <2>4 DEF ProcessUpdate
    <3>4. call' \in Job \cup {NoJob} /\ pc' \in {"ingest", "record", "voice", "truncate"}
      BY <3>2, <3>3, RequestType DEF TypeOK
    <3> QED  BY <2>4, <3>4 DEF ProcessUpdate, TypeOK, server, history
  <2>5. CASE RecordDecision
    <3>1. sent[pos] \in Update  BY <2>5, CurrentType DEF RecordDecision, PhaseOK
    <3>2. Request("record", sent[pos])  BY <2>5 DEF RecordDecision
    <3>3. call' \in Job /\ pc' = "record"  BY <3>1, <3>2, RequestType
    <3> QED  BY <2>5, <3>3 DEF RecordDecision, TypeOK, server, history
  <2>6. CASE UpdateDone  BY <2>6 DEF UpdateDone, TypeOK, server, history
  <2>7. CASE Truncate
    <3>1. pos + 1 \in Offsets  BY <2>7 DEF Truncate, PhaseOK, TypeOK, Offsets
    <3> QED  BY <2>7, <3>1 DEF Truncate, NextOffset, TypeOK, server, history
  <2>8. CASE WriteOffset
    <3>1. offset \in Offsets  BY <2>8 DEF WriteOffset, PhaseOK, TypeOK, Offsets, NoOffset
    <3> QED  BY <2>8, <3>1 DEF WriteOffset, TypeOK, server, history
  <2> QED  BY <1>3, <2>1, <2>2, <2>3, <2>4, <2>5, <2>6, <2>7, <2>8 DEF AdapterStep
<1>4. CASE RemoveFile  BY <1>4 DEF RemoveFile, TypeOK, adapter, server, history
<1>5. CASE ServeCall
  <2>1. PICK left \in Remainders(call) : Serve(call, left) /\ call' = left
    BY <1>5 DEF ServeCall
  <2>2. call \in Job  BY <1>5 DEF ServeCall, TypeOK
  <2> QED  BY <1>5, <2>1, <2>2, ServeType DEF ServeCall, TypeOK, adapter, history
<1>6. ASSUME NEW j \in orphans, ServeOrphan(j) PROVE TypeOK'
  <2>1. PICK left \in Remainders(j) :
          /\ Serve(j, left)
          /\ orphans' = (orphans \ {j}) \cup ({left} \ {NoJob})
    BY <1>6 DEF ServeOrphan
  <2>2. j \in Job  BY DEF TypeOK
  <2>3. left \in Job \cup {NoJob}  BY <2>1, <2>2, ServeType
  <2>4. orphans' \subseteq Job  BY <2>1, <2>3 DEF TypeOK
  <2> QED  BY <1>6, <2>1, <2>2, <2>4, ServeType DEF ServeOrphan, TypeOK, adapter, history
<1>7. ASSUME NEW j \in orphans, DropOrphan(j) PROVE TypeOK'
  BY <1>7 DEF DropOrphan, TypeOK, adapter, server, history
<1>8. CASE Die
  <2>1. orphans' \subseteq Job  BY <1>8 DEF Die, TypeOK
  <2> QED  BY <1>8, <2>1 DEF Die, TypeOK, Offsets, NoOffset, server
<1>9. CASE VoiceFails
  <2>1. orphans' \subseteq Job  BY <1>9 DEF VoiceFails, TypeOK
  <2> QED  BY <1>9, <2>1 DEF VoiceFails, TypeOK, server
<1>10. CASE UNCHANGED vars
  BY <1>10 DEF vars, TypeOK, adapter, server, history
<1> QED  BY <1>1, <1>2, <1>3, <1>4, <1>5, <1>6, <1>7, <1>8, <1>9, <1>10 DEF Next

-----------------------------------------------------------------------------
(* Nothing is taken back: what was sent stays sent, what became a task     *)
(* stays in the history, and receipts are kept.                            *)
LEMMA Grows ==
  ASSUME TypeOK, [Next]_vars
  PROVE  /\ made \subseteq made'
         /\ receipts \subseteq receipts'
         /\ Len(sent) <= Len(sent')
         /\ \A i \in 1..Len(sent) : sent'[i] = sent[i]
<1> USE TelegramAssumption
<1>1. ASSUME NEW u \in Updates, Send(u)
      PROVE  /\ Len(sent) <= Len(sent')
             /\ \A i \in 1..Len(sent) : sent'[i] = sent[i]
  <2>1. u \in Update  OBVIOUS
  <2> QED  BY <1>1, <2>1 DEF Send, TypeOK
<1>2. ~ (\E u \in Updates : Send(u)) => sent' = sent
  BY DEF Next, AdapterStep, Start, GetUpdates, EndOfBatch, ProcessUpdate, RecordDecision,
         UpdateDone, Truncate, WriteOffset, RemoveFile, ServeCall, ServeOrphan, DropOrphan,
         Die, VoiceFails, DeleteTask, vars
<1>3. \A j, left : Serve(j, left) => made \subseteq made' /\ receipts \subseteq receipts'
  BY DEF Serve, IngestLine, RecordReceipt, CreateVoiceTask
<1>4. made \subseteq made' /\ receipts \subseteq receipts'
  BY <1>3 DEF Next, AdapterStep, Start, GetUpdates, EndOfBatch, ProcessUpdate, RecordDecision,
         UpdateDone, Truncate, WriteOffset, RemoveFile, ServeCall, ServeOrphan, DropOrphan,
         Die, VoiceFails, DeleteTask, Send, vars, server
<1>5. Len(sent) \in Nat  BY DEF TypeOK
<1> QED  BY <1>1, <1>2, <1>4, <1>5

HandledAfter(u) == u.kind = "text" => \A l \in Parsed[u.text] : <<u.msg, l>> \in made'

DoneAfter(n) ==
  /\ n <= Len(sent') + 1
  /\ \A i \in 1..Len(sent') : i < n => HandledAfter(sent'[i])

LEMMA HandledKept ==
  ASSUME TypeOK, [Next]_vars, NEW u, Handled(u)
  PROVE  HandledAfter(u)
  BY Grows DEF Handled, HandledAfter, InMade

LEMMA DoneKept ==
  ASSUME TypeOK, TypeOK', [Next]_vars, NEW n \in Nat, Done(n)
  PROVE  DoneAfter(n)
<1>1. Len(sent) \in Nat /\ Len(sent') \in Nat  BY DEF TypeOK
<1>2. n <= Len(sent') + 1  BY <1>1, Grows DEF Done
<1>3. ASSUME NEW i \in 1..Len(sent'), i < n PROVE HandledAfter(sent'[i])
  <2>1. i \in 1..Len(sent)  BY <1>1, <1>3 DEF Done
  <2>2. sent'[i] = sent[i]  BY <2>1, Grows
  <2>3. Handled(sent[i])  BY <2>1, <1>3 DEF Done
  <2> QED  BY <2>2, <2>3, HandledKept
<1> QED  BY <1>2, <1>3 DEF DoneAfter

(* The update of the batch that was just settled. *)
LEMMA DoneNext ==
  ASSUME TypeOK, PhaseOK, Done(pos), pos <= end, Handled(sent[pos])
  PROVE  Done(pos + 1)
<1>1. pos \in 1..Len(sent)  BY CurrentType
<1>2. Len(sent) \in Nat  BY DEF TypeOK
<1> QED  BY <1>1, <1>2 DEF Done

LEMMA OffsetsInv == IInv /\ [Next]_vars => OffsetsOK'
<1> SUFFICES ASSUME IInv, [Next]_vars PROVE OffsetsOK'
  OBVIOUS
<1>1. TypeOK /\ TypeOK' /\ PhaseOK /\ OffsetsOK  BY TypeInv DEF IInv
<1>2. \A n \in Nat : Done(n) => DoneAfter(n)  BY <1>1, DoneKept
<1>3. Len(sent) \in Nat  BY <1>1 DEF TypeOK
<1>4. Done(0) /\ Done(1)  BY <1>3 DEF Done
<1>5. confirmed \in Nat /\ offset \in Nat /\ pos \in Nat /\ (file # Torn => file \in Nat)
  BY <1>1, TelegramAssumption DEF TypeOK, Offsets, NoOffset
<1>6. DoneAfter(0) /\ DoneAfter(1)  BY <1>2, <1>4
<1>7. DoneAfter(confirmed) /\ DoneAfter(offset) /\ DoneAfter(pos) /\ (file # Torn => DoneAfter(file))
  BY <1>1, <1>2, <1>5 DEF OffsetsOK
<1>8. pc = "truncate" => DoneAfter(pos + 1)
  <2> SUFFICES ASSUME pc = "truncate" PROVE DoneAfter(pos + 1)
    OBVIOUS
  <2>1. pos <= end /\ Handled(sent[pos])  BY <1>1 DEF PhaseOK
  <2>2. Done(pos + 1)  BY <1>1, <2>1, DoneNext DEF OffsetsOK
  <2> QED  BY <1>2, <1>5, <2>2
<1>9. Len(sent) + 1 \in Nat /\ (FirstUpdate = confirmed \/ FirstUpdate = offset)
  BY <1>3 DEF FirstUpdate
<1>10. /\ confirmed' \in {confirmed, offset}
       /\ \/ offset' \in {0, offset}
          \/ offset' = file /\ file # Torn
          \/ offset' = pos + 1 /\ pc = "truncate"
       /\ file' # Torn => file' = 0 \/ file' = offset \/ (file' = file /\ file # Torn)
       /\ pos' \in {1, pos, confirmed, offset}
  BY <1>9 DEF Next, AdapterStep, Start, GetUpdates, EndOfBatch, ProcessUpdate, RecordDecision,
         UpdateDone, Truncate, NextOffset, WriteOffset, RemoveFile, ServeCall, ServeOrphan,
         DropOrphan, Die, VoiceFails, DeleteTask, Send, vars, adapter, NoOffset
<1>11. DoneAfter(confirmed')  BY <1>7, <1>10
<1>12. DoneAfter(offset')  BY <1>6, <1>7, <1>8, <1>10
<1>13. file' # Torn => DoneAfter(file')  BY <1>6, <1>7, <1>10
<1>14. DoneAfter(pos')  BY <1>6, <1>7, <1>10
<1> QED  BY <1>11, <1>12, <1>13, <1>14 DEF OffsetsOK, Done, DoneAfter, Handled, HandledAfter, InMade

-----------------------------------------------------------------------------
(* What the server did for a request is on the board. *)
JobAfter(j) ==
  /\ j.kind = "ingest" => \A l \in Parsed[j.text] \ j.todo : <<j.msg, l>> \in made'
  /\ j.kind = "record" => \A l \in Parsed[j.text] : <<j.msg, l>> \in made'

LEMMA ServedJob ==
  ASSUME TypeOK, NEW j \in Job, JobOK(j), NEW left \in Remainders(j), Serve(j, left)
  PROVE  /\ left # NoJob => JobAfter(left)
         /\ left = NoJob /\ j.kind = "ingest" => \A l \in Parsed[j.text] : <<j.msg, l>> \in made'
<1>1. CASE j.kind = "ingest"
  <2>1. PICK l \in j.todo :
          /\ made' = made \cup {<<j.msg, l>>}
          /\ left = IF j.todo = {l} THEN NoJob ELSE [j EXCEPT !.todo = @ \ {l}]
    BY <1>1 DEF Serve, IngestLine, RecordReceipt, CreateVoiceTask
  <2>2. \A k \in Parsed[j.text] \ j.todo : <<j.msg, k>> \in made  BY <1>1 DEF JobOK
  <2>3. CASE j.todo = {l}
    <3>1. left = NoJob  BY <2>1, <2>3
    <3> QED  BY <2>1, <2>2, <2>3, <3>1
  <2>4. CASE j.todo # {l}
    <3>1. left = [j EXCEPT !.todo = @ \ {l}]  BY <2>1, <2>4
    <3>2. /\ left.kind = j.kind /\ left.msg = j.msg /\ left.text = j.text
          /\ left.todo = j.todo \ {l}
      BY <3>1 DEF Job
    <3>3. left \in Job  BY <3>1 DEF Job
    <3>4. left # NoJob  BY <3>3, NoJobAssumption
    <3> QED  BY <1>1, <2>1, <2>2, <3>2, <3>4 DEF JobAfter
  <2> QED  BY <2>3, <2>4
<1>2. CASE j.kind # "ingest"
  <2>1. left = NoJob  BY <1>2 DEF Serve
  <2> QED  BY <1>2, <2>1
<1> QED  BY <1>1, <1>2

(* The requests on their way after a step were on their way before, are    *)
(* what the server left of one, or are the one the adapter just made.      *)
Remaining(j) == \E k \in Running : j # NoJob /\ j \in Remainders(k) /\ Serve(k, j)

(* Somebody sent the message a request is for. *)
Source(j) ==
  \E i \in 1..Len(sent) :
    /\ sent[i].msg = j.msg /\ sent[i].text = j.text
    /\ sent[i].kind = IF j.kind = "voice" THEN "voice" ELSE "text"

Made(j) ==
  /\ Source(j)
  /\ j.todo = Parsed[j.text]
  /\ j.kind = "ingest" => <<j.msg, j.text>> \notin receipts
  /\ j.kind = "record" => InMade(j.msg, j.text)

LEMMA RunningNext ==
  ASSUME IInv, [Next]_vars, NEW j \in Running'
  PROVE  j \in Running \/ Remaining(j) \/ Made(j)
<1>0. TypeOK /\ PhaseOK  BY DEF IInv
<1>1. j \in orphans' \/ (j = call' /\ j # NoJob)  BY DEF Running
<1>2. CASE call' = call /\ orphans' \subseteq Running
  BY <1>1, <1>2 DEF Running
<1>3. CASE call' = NoJob /\ orphans' \subseteq Running
  BY <1>1, <1>3
<1>4. CASE ProcessUpdate
  <2>1. pos <= end  BY <1>4 DEF ProcessUpdate
  <2>2. sent[pos] \in Update /\ pos \in 1..Len(sent)  BY <1>0, <2>1, CurrentType
  <2>3. orphans' = orphans  BY <1>4 DEF ProcessUpdate
  <2>4. CASE /\ Request("ingest", sent[pos]) /\ ~ Suppressed(sent[pos])
             /\ sent[pos].kind = "text"
    <3>1. call'.kind = "ingest" /\ call'.msg = sent[pos].msg /\ call'.text = sent[pos].text
          /\ call'.todo = Parsed[sent[pos].text]
      BY <1>0, <2>2, <2>4, RequestType
    <3>2. Source(call')  BY <2>2, <2>4, <3>1 DEF Source
    <3> QED  BY <1>1, <2>3, <2>4, <3>1, <3>2 DEF Running, Made, Suppressed
  <2>5. CASE /\ Request("record", sent[pos]) /\ Parsed[sent[pos].text] = {}
             /\ sent[pos].kind = "text"
    <3>1. call'.kind = "record" /\ call'.msg = sent[pos].msg /\ call'.text = sent[pos].text
          /\ call'.todo = Parsed[sent[pos].text]
      BY <1>0, <2>2, <2>5, RequestType
    <3>2. Source(call')  BY <2>2, <2>5, <3>1 DEF Source
    <3> QED  BY <1>1, <2>3, <2>5, <3>1, <3>2 DEF Running, Made, InMade
  <2>6. CASE Request("voice", sent[pos]) /\ sent[pos].kind = "voice"
    <3>1. call'.kind = "voice" /\ call'.msg = sent[pos].msg /\ call'.text = sent[pos].text
          /\ call'.todo = Parsed[sent[pos].text]
      BY <1>0, <2>2, <2>6, RequestType
    <3>2. Source(call')  BY <2>2, <2>6, <3>1 DEF Source
    <3> QED  BY <1>1, <2>3, <3>1, <3>2 DEF Running, Made
  <2>7. CASE call' = call  BY <1>1, <2>3, <2>7 DEF Running
  <2> QED  BY <1>4, <2>4, <2>5, <2>6, <2>7 DEF ProcessUpdate
<1>5. CASE RecordDecision
  <2>1. /\ pos <= end /\ InMade(sent[pos].msg, sent[pos].text)
        /\ sent[pos].kind = "text"
    BY <1>0, <1>5 DEF RecordDecision, PhaseOK
  <2>2. sent[pos] \in Update /\ pos \in 1..Len(sent)  BY <1>0, <2>1, CurrentType
  <2>3. orphans' = orphans /\ Request("record", sent[pos])  BY <1>5 DEF RecordDecision
  <2>4. call'.kind = "record" /\ call'.msg = sent[pos].msg /\ call'.text = sent[pos].text
        /\ call'.todo = Parsed[sent[pos].text]
    BY <1>0, <2>2, <2>3, RequestType
  <2>5. Source(call')  BY <2>1, <2>2, <2>4 DEF Source
  <2> QED  BY <1>1, <2>1, <2>3, <2>4, <2>5 DEF Running, Made
<1>6. CASE ServeCall
  <2>1. PICK left \in Remainders(call) : Serve(call, left) /\ call' = left
    BY <1>6 DEF ServeCall
  <2>2. call \in Running /\ orphans' = orphans  BY <1>6 DEF ServeCall, Running
  <2> QED  BY <1>1, <2>1, <2>2 DEF Running, Remaining
<1>7. ASSUME NEW k \in orphans, ServeOrphan(k) PROVE j \in Running \/ Remaining(j)
  <2>1. PICK left \in Remainders(k) :
          Serve(k, left) /\ orphans' = (orphans \ {k}) \cup ({left} \ {NoJob})
    BY <1>7 DEF ServeOrphan
  <2>2. k \in Running /\ call' = call  BY <1>7 DEF ServeOrphan, Running
  <2> QED  BY <1>1, <2>1, <2>2 DEF Running, Remaining
<1>8. CASE Die  BY <1>3, <1>8 DEF Die, Running
<1>9. CASE VoiceFails  BY <1>3, <1>9 DEF VoiceFails, Running
<1>10. CASE UNCHANGED <<call, orphans>>  BY <1>2, <1>10 DEF Running
<1>11. \/ ProcessUpdate \/ RecordDecision \/ ServeCall \/ (\E k \in orphans : ServeOrphan(k))
       \/ Die \/ VoiceFails \/ UNCHANGED <<call, orphans>>
       \/ \E k \in orphans : DropOrphan(k)
  BY DEF Next, AdapterStep, Start, GetUpdates, EndOfBatch, UpdateDone, Truncate, WriteOffset,
         RemoveFile, DeleteTask, Send, vars
<1>12. CASE \E k \in orphans : DropOrphan(k)  BY <1>2, <1>12 DEF DropOrphan, Running
<1> QED  BY <1>4, <1>5, <1>6, <1>7, <1>8, <1>9, <1>10, <1>11, <1>12

LEMMA JobsInv == IInv /\ [Next]_vars => JobsOK'
<1> SUFFICES ASSUME IInv, [Next]_vars, NEW j \in Running' PROVE JobAfter(j)
  BY DEF JobsOK, JobOK, JobAfter, InMade
<1>1. TypeOK /\ JobsOK  BY DEF IInv
<1>2. CASE j \in Running  BY <1>1, <1>2, Grows DEF JobsOK, JobOK, JobAfter, InMade
<1>3. CASE Remaining(j)
  <2>1. PICK k \in Running : j # NoJob /\ j \in Remainders(k) /\ Serve(k, j)
    BY <1>3 DEF Remaining
  <2>2. k \in Job /\ JobOK(k)  BY <1>1, RunningAreJobs DEF JobsOK
  <2> QED  BY <1>1, <2>1, <2>2, ServedJob
<1>4. CASE Made(j)  BY <1>1, <1>4, Grows DEF Made, JobAfter, InMade
<1> QED  BY <1>2, <1>3, <1>4, RunningNext

-----------------------------------------------------------------------------
(* Who changes the receipts and the deletions on record. *)
LEMMA NewReceipt ==
  ASSUME TypeOK, [Next]_vars
  PROVE  \/ receipts' = receipts
         \/ \E j \in Running : j.kind = "record" /\ receipts' = receipts \cup {<<j.msg, j.text>>}
<1>1. CASE ServeCall
  <2>1. call \in Running  BY <1>1 DEF ServeCall, Running
  <2>2. PICK left : Serve(call, left)  BY <1>1 DEF ServeCall
  <2> QED  BY <2>1, <2>2 DEF Serve, IngestLine, RecordReceipt, CreateVoiceTask
<1>2. ASSUME NEW k \in orphans, ServeOrphan(k)
      PROVE  \/ receipts' = receipts
             \/ \E j \in Running : j.kind = "record" /\ receipts' = receipts \cup {<<j.msg, j.text>>}
  <2>1. k \in Running  BY DEF Running
  <2>2. PICK left : Serve(k, left)  BY <1>2 DEF ServeOrphan
  <2> QED  BY <2>1, <2>2 DEF Serve, IngestLine, RecordReceipt, CreateVoiceTask
<1>3. ServeCall \/ (\E k \in orphans : ServeOrphan(k)) \/ receipts' = receipts
  BY DEF Next, AdapterStep, Start, GetUpdates, EndOfBatch, ProcessUpdate, RecordDecision,
         UpdateDone, Truncate, WriteOffset, RemoveFile, DropOrphan, Die, VoiceFails, DeleteTask,
         Send, vars, server
<1> QED  BY <1>1, <1>2, <1>3

LEMMA ReceiptsInv == IInv /\ [Next]_vars => ReceiptsAreEarned'
<1> SUFFICES ASSUME IInv, [Next]_vars PROVE ReceiptsAreEarned'
  OBVIOUS
<1>1. TypeOK /\ JobsOK /\ ReceiptsAreEarned  BY DEF IInv
<1>2. made \subseteq made'  BY <1>1, Grows
<1>3. CASE receipts' = receipts  BY <1>1, <1>2, <1>3 DEF ReceiptsAreEarned
<1>4. ASSUME NEW j \in Running, j.kind = "record", receipts' = receipts \cup {<<j.msg, j.text>>}
      PROVE  ReceiptsAreEarned'
  <2>1. InMade(j.msg, j.text)  BY <1>1, <1>4 DEF JobsOK, JobOK
  <2>2. ASSUME NEW r \in receipts', NEW l \in Parsed[r[2]] PROVE <<r[1], l>> \in made'
    <3>1. CASE r \in receipts  BY <1>1, <1>2, <2>2, <3>1 DEF ReceiptsAreEarned
    <3>2. CASE r = <<j.msg, j.text>>
      <4>1. r[1] = j.msg /\ r[2] = j.text  BY <3>2
      <4> QED  BY <1>2, <2>1, <2>2, <4>1 DEF InMade
    <3> QED  BY <1>4, <3>1, <3>2
  <2> QED  BY <2>2 DEF ReceiptsAreEarned
<1> QED  BY <1>1, <1>3, <1>4, NewReceipt

LEMMA RejectedInv == IInv /\ [Next]_vars => RejectedOK'
<1> SUFFICES ASSUME IInv, [Next]_vars PROVE RejectedOK'
  OBVIOUS
<1>1. TypeOK /\ RejectedOK  BY DEF IInv
<1>2. receipts \subseteq receipts'  BY <1>1, Grows
<1>3. ASSUME NEW t \in board, DeleteTask(t) PROVE RejectedOK'
  <2>1. /\ receipts' = receipts /\ Running' = Running
        /\ \A x \in rejected' \ rejected :
             /\ x[1] = t /\ <<x[1][1], x[2]>> \in receipts
             /\ \A j \in Running : j.kind = "ingest" => <<j.msg, j.text>> # <<x[1][1], x[2]>>
    <3>1. receipts' = receipts /\ Running' = Running  BY <1>3 DEF DeleteTask, Running
    <3>2. ASSUME NEW x \in rejected' \ rejected
          PROVE  /\ x[1] = t /\ <<x[1][1], x[2]>> \in receipts
                 /\ \A j \in Running : j.kind = "ingest" => <<j.msg, j.text>> # <<x[1][1], x[2]>>
      <4>1. PICK r \in receipts :
              /\ x = <<t, r[2]>> /\ r[1] = t[1]
              /\ \A j \in Running : j.kind = "ingest" => <<j.msg, j.text>> # r
        BY <1>3 DEF DeleteTask
      <4>2. r = <<t[1], r[2]>>  BY <1>1, <4>1 DEF TypeOK
      <4> QED  BY <4>1, <4>2
    <3> QED  BY <3>1, <3>2
  <2> QED  BY <1>1, <2>1 DEF RejectedOK
<1>4. CASE rejected' = rejected
  <2>1. \A x \in rejected' : <<x[1][1], x[2]>> \in receipts'
    BY <1>1, <1>2, <1>4 DEF RejectedOK
  <2>2. ASSUME NEW j \in Running', j.kind = "ingest", NEW x \in rejected', x[1][1] = j.msg
        PROVE  x[2] # j.text
    <3>1. CASE j \in Running  BY <1>1, <1>4, <2>2, <3>1 DEF RejectedOK
    <3>2. CASE Remaining(j)
      <4>1. PICK k \in Running : j # NoJob /\ j \in Remainders(k) /\ Serve(k, j)
        BY <3>2 DEF Remaining
      <4>2. k.kind = "ingest" /\ j.msg = k.msg /\ j.text = k.text
        BY <1>1, <4>1, RunningAreJobs, ServeType
      <4> QED  BY <1>1, <1>4, <2>2, <4>2 DEF RejectedOK
    <3>3. CASE Made(j)  BY <1>1, <1>4, <2>2, <3>3 DEF RejectedOK, Made
    <3> QED  BY <3>1, <3>2, <3>3, RunningNext
  <2> QED  BY <2>1, <2>2 DEF RejectedOK
<1>5. (\E t \in board : DeleteTask(t)) \/ rejected' = rejected
  BY DEF Next, AdapterStep, Start, GetUpdates, EndOfBatch, ProcessUpdate, RecordDecision,
         UpdateDone, Truncate, WriteOffset, RemoveFile, DropOrphan, Die, VoiceFails, ServeCall,
         ServeOrphan, Send, vars, history
<1> QED  BY <1>3, <1>4, <1>5

-----------------------------------------------------------------------------
LEMMA PhaseInv == IInv /\ [Next]_vars => PhaseOK'
<1> SUFFICES ASSUME IInv, [Next]_vars PROVE PhaseOK'
  OBVIOUS
<1>1. TypeOK /\ PhaseOK /\ JobsOK /\ ReceiptsAreEarned  BY DEF IInv
<1>2. Len(sent) \in Nat /\ pos \in Nat /\ pos >= 1 /\ end \in Nat
  BY <1>1 DEF TypeOK, Offsets
<1>3. ASSUME NEW u \in Updates, Send(u) PROVE PhaseOK'
  <2>1. /\ Len(sent) <= Len(sent') /\ \A i \in 1..Len(sent) : sent'[i] = sent[i]
        /\ Len(sent') \in Nat
    BY <1>1, Grows, TypeInv DEF TypeOK
  <2>2. pos <= end => sent'[pos] = sent[pos]
    BY <1>1, <1>2, <2>1 DEF PhaseOK
  <2>3. /\ pc' = pc /\ offset' = offset /\ pos' = pos /\ end' = end /\ call' = call /\ made' = made
    BY <1>3 DEF Send, adapter, server
  <2>4. end <= Len(sent')  BY <1>1, <1>2, <2>1 DEF PhaseOK
  <2> QED  BY <1>1, <2>2, <2>3, <2>4 DEF PhaseOK, InMade, Handled
<1>4. CASE Start  BY <1>1, <1>4 DEF Start, PhaseOK
<1>5. CASE GetUpdates  BY <1>1, <1>2, <1>5 DEF GetUpdates, PhaseOK
<1>6. CASE EndOfBatch  BY <1>1, <1>6 DEF EndOfBatch, PhaseOK
<1>7. CASE ProcessUpdate
  <2>1. pos <= end /\ pc = "update" /\ call = NoJob  BY <1>1, <1>7 DEF ProcessUpdate, PhaseOK
  <2>2. sent[pos] \in Update  BY <1>1, <2>1, CurrentType
  <2>3. UNCHANGED <<sent, pos, end, offset, made>>  BY <1>7 DEF ProcessUpdate, server
  <2>4. CASE Request("ingest", sent[pos]) /\ sent[pos].kind = "text"
    <3>1. /\ call' # NoJob /\ call'.kind = "ingest" /\ pc' = "ingest"
          /\ call'.msg = sent[pos].msg /\ call'.text = sent[pos].text
      BY <1>1, <2>2, <2>4, RequestType
    <3> QED  BY <1>1, <2>1, <2>3, <2>4, <3>1 DEF PhaseOK
  <2>5. CASE Request("record", sent[pos]) /\ Parsed[sent[pos].text] = {}
    <3>1. /\ call' # NoJob /\ call'.kind = "record" /\ pc' = "record"
          /\ call'.msg = sent[pos].msg /\ call'.text = sent[pos].text
      BY <1>1, <2>2, <2>5, RequestType
    <3> QED  BY <1>1, <2>1, <2>3, <2>5, <3>1 DEF PhaseOK, Handled, InMade
  <2>6. CASE Request("voice", sent[pos]) /\ sent[pos].kind = "voice"
    <3>1. /\ call' # NoJob /\ call'.kind = "voice" /\ pc' = "voice"
          /\ call'.msg = sent[pos].msg /\ call'.text = sent[pos].text
      BY <1>1, <2>2, <2>6, RequestType
    <3> QED  BY <1>1, <2>1, <2>3, <2>6, <3>1 DEF PhaseOK
  <2>7. CASE pc' = "truncate" /\ call' = call /\ (sent[pos].kind = "text" => Suppressed(sent[pos]))
    <3>1. Handled(sent[pos])
      <4>1. Suppressed(sent[pos]) => InMade(sent[pos].msg, sent[pos].text)
        BY <1>1 DEF Suppressed, InMade, ReceiptsAreEarned
      <4> QED  BY <2>7, <4>1 DEF Handled
    <3>2. Handled(sent[pos])'  BY <2>3, <3>1 DEF Handled, InMade
    <3> QED  BY <1>1, <2>1, <2>3, <2>7, <3>2 DEF PhaseOK
  <2> QED  BY <1>7, <2>4, <2>5, <2>6, <2>7 DEF ProcessUpdate
<1>8. CASE RecordDecision
  <2>1. pc = "ingest" /\ call = NoJob /\ UNCHANGED <<sent, pos, end, offset, made>>
    BY <1>8 DEF RecordDecision, server
  <2>2. pos <= end /\ InMade(sent[pos].msg, sent[pos].text)  BY <1>1, <2>1 DEF PhaseOK
  <2>3. sent[pos] \in Update  BY <1>1, <2>2, CurrentType
  <2>4. Request("record", sent[pos])  BY <1>8 DEF RecordDecision
  <2>5. /\ call' # NoJob /\ call'.kind = "record" /\ pc' = "record"
        /\ call'.msg = sent[pos].msg /\ call'.text = sent[pos].text
    BY <1>1, <2>3, <2>4, RequestType
  <2>6. Handled(sent[pos])'  BY <2>1, <2>2 DEF Handled, InMade
  <2> QED  BY <1>1, <2>1, <2>2, <2>5, <2>6 DEF PhaseOK
<1>9. CASE UpdateDone
  <2>1. UNCHANGED <<sent, pos, end, offset, call, made>> /\ call = NoJob /\ pc' = "truncate"
        /\ pc \in {"record", "voice"}
    BY <1>9 DEF UpdateDone, server
  <2>2. pos <= end /\ Handled(sent[pos])  BY <1>1, <2>1 DEF PhaseOK, Handled
  <2>3. Handled(sent[pos])'  BY <2>1, <2>2 DEF Handled, InMade
  <2> QED  BY <1>1, <2>1, <2>2, <2>3 DEF PhaseOK
<1>10. CASE Truncate  BY <1>1, <1>10 DEF Truncate, NextOffset, PhaseOK
<1>11. CASE WriteOffset  BY <1>1, <1>11 DEF WriteOffset, PhaseOK
<1>12. CASE RemoveFile
  <2>1. UNCHANGED <<sent, pc, pos, end, offset, call, made>>
    BY <1>12 DEF RemoveFile, adapter, server
  <2> QED  BY <1>1, <2>1 DEF PhaseOK, Handled, InMade
<1>13. CASE ServeCall
  <2>1. PICK left \in Remainders(call) : Serve(call, left) /\ call' = left
    BY <1>13 DEF ServeCall
  <2>2. call # NoJob /\ call \in Job /\ call \in Running
    BY <1>1, <1>13 DEF ServeCall, Running, TypeOK
  <2>3. UNCHANGED <<sent, pc, pos, end, offset>>  BY <1>13 DEF ServeCall, adapter
  <2>4. pc \in {"ingest", "record", "voice"} /\ pos <= end
        /\ call.kind = pc /\ call.msg = sent[pos].msg /\ call.text = sent[pos].text
    BY <1>1, <2>2 DEF PhaseOK, TypeOK
  <2>5. call' # NoJob => call'.kind = pc /\ call'.msg = sent[pos].msg /\ call'.text = sent[pos].text
    BY <1>1, <2>1, <2>2, <2>4, ServeType
  <2>6. JobOK(call)  BY <1>1, <2>2 DEF JobsOK
  <2>7. pc = "ingest" /\ call' = NoJob => InMade(sent[pos].msg, sent[pos].text)'
    BY <1>1, <2>1, <2>2, <2>3, <2>4, <2>6, ServedJob DEF InMade
  <2>8. Handled(sent[pos]) => Handled(sent[pos])'
    BY <1>1, <2>3, Grows DEF Handled, InMade
  <2> QED  BY <1>1, <2>3, <2>4, <2>5, <2>7, <2>8 DEF PhaseOK
<1>14. CASE UNCHANGED <<sent, pc, pos, end, offset, call>>
  <2>1. InMade(sent[pos].msg, sent[pos].text) => InMade(sent[pos].msg, sent[pos].text)'
    BY <1>1, <1>14, Grows DEF InMade
  <2>2. Handled(sent[pos]) => Handled(sent[pos])'
    BY <1>1, <1>14, Grows DEF Handled, InMade
  <2> QED  BY <1>1, <1>14, <2>1, <2>2 DEF PhaseOK
<1>15. CASE Die  BY <1>1, <1>2, <1>15 DEF Die, PhaseOK
<1>16. CASE VoiceFails
  <2>1. /\ UNCHANGED <<sent, pos, end, offset, made>> /\ pc = "voice"
        /\ pc' = "truncate" /\ call' = NoJob
    BY <1>16 DEF VoiceFails, Catches, server
  <2>2. pos <= end /\ Handled(sent[pos])'  BY <1>1, <2>1 DEF PhaseOK, Handled
  <2> QED  BY <1>1, <2>1, <2>2 DEF PhaseOK
<1>17. \/ \E u \in Updates : Send(u)
       \/ AdapterStep \/ RemoveFile \/ ServeCall \/ Die \/ VoiceFails
       \/ UNCHANGED <<sent, pc, pos, end, offset, call>>
  BY DEF Next, DeleteTask, ServeOrphan, DropOrphan, vars, adapter
<1> QED  BY <1>3, <1>4, <1>5, <1>6, <1>7, <1>8, <1>9, <1>10, <1>11, <1>12, <1>13, <1>14, <1>15,
            <1>16, <1>17 DEF AdapterStep

-----------------------------------------------------------------------------
LEMMA Inductive == IInv /\ [Next]_vars => IInv'
  BY TypeInv, PhaseInv, OffsetsInv, JobsInv, ReceiptsInv, RejectedInv DEF IInv

LEMMA Initially == Init => IInv
<1> SUFFICES ASSUME Init PROVE IInv
  OBVIOUS
<1> USE TelegramAssumption DEF Init
<1>1. TypeOK
  <2>1. 1 \in Offsets  BY DEF Offsets
  <2> QED  BY <2>1 DEF TypeOK, NoOffset
<1>2. Len(sent) = 0  OBVIOUS
<1>3. PhaseOK  BY <1>2 DEF PhaseOK
<1>4. OffsetsOK  BY <1>2 DEF OffsetsOK, Done, NoOffset
<1>5. Running = {}  BY DEF Running
<1>6. JobsOK /\ ReceiptsAreEarned /\ RejectedOK
  BY <1>5 DEF JobsOK, ReceiptsAreEarned, RejectedOK
<1> QED  BY <1>1, <1>3, <1>4, <1>6 DEF IInv

LEMMA Invariance == Spec => []IInv
  BY Initially, Inductive, PTL DEF Spec

-----------------------------------------------------------------------------
(* What the refinement needs besides: every request on its way is for a    *)
(* message somebody sent, and none of the adapter's offsets is behind the  *)
(* one Telegram was asked for.                                             *)
SourcesOK == \A j \in Running : Source(j) /\ j.todo \subseteq Parsed[j.text]

OrderOK ==
  /\ pc \notin {"down", "write"} => file = offset
  /\ pc = "write" => file = Torn
  /\ file \notin {Torn, NoOffset} => confirmed <= file
  /\ offset # NoOffset => confirmed <= offset
  /\ pc \notin {"down", "poll"} => confirmed <= pos

SourceAfter(j) ==
  \E i \in 1..Len(sent') :
    /\ sent'[i].msg = j.msg /\ sent'[i].text = j.text
    /\ sent'[i].kind = IF j.kind = "voice" THEN "voice" ELSE "text"

LEMMA SourceKept ==
  ASSUME TypeOK, TypeOK', [Next]_vars, NEW j, Source(j)
  PROVE  SourceAfter(j)
<1>1. PICK i \in 1..Len(sent) :
        /\ sent[i].msg = j.msg /\ sent[i].text = j.text
        /\ sent[i].kind = IF j.kind = "voice" THEN "voice" ELSE "text"
  BY DEF Source
<1>2. sent'[i] = sent[i] /\ i \in 1..Len(sent')  BY Grows DEF TypeOK
<1> QED  BY <1>1, <1>2 DEF SourceAfter

(* What is left of a request is for the same message. *)
LEMMA RemainderSource ==
  ASSUME TypeOK, NEW k \in Job, NEW left \in Remainders(k), left # NoJob, Serve(k, left),
         Source(k), k.todo \subseteq Parsed[k.text]
  PROVE  Source(left) /\ left.todo \subseteq Parsed[left.text]
<1>1. PICK l \in k.todo : left = [k EXCEPT !.todo = @ \ {l}]  BY DEF Remainders
<1>2. /\ left.kind = k.kind /\ left.msg = k.msg /\ left.text = k.text
      /\ left.todo = k.todo \ {l}
  BY <1>1 DEF Job
<1> QED  BY <1>2 DEF Source

LEMMA SourcesInv == IInv /\ SourcesOK /\ [Next]_vars => SourcesOK'
<1> SUFFICES ASSUME IInv, SourcesOK, [Next]_vars, NEW j \in Running'
             PROVE  SourceAfter(j) /\ j.todo \subseteq Parsed[j.text]
  BY DEF SourcesOK, Source, SourceAfter
<1>1. TypeOK /\ TypeOK'  BY Inductive DEF IInv
<1>2. CASE j \in Running  BY <1>1, <1>2, SourceKept DEF SourcesOK
<1>3. CASE Remaining(j)
  <2>1. PICK k \in Running : j # NoJob /\ j \in Remainders(k) /\ Serve(k, j)
    BY <1>3 DEF Remaining
  <2>2. k \in Job /\ Source(k) /\ k.todo \subseteq Parsed[k.text]
    BY <1>1, RunningAreJobs DEF SourcesOK
  <2> QED  BY <1>1, <2>1, <2>2, RemainderSource, SourceKept
<1>4. CASE Made(j)  BY <1>1, <1>4, SourceKept DEF Made
<1> QED  BY <1>2, <1>3, <1>4, RunningNext

LEMMA OrderInv == IInv /\ OrderOK /\ [Next]_vars => OrderOK'
<1> SUFFICES ASSUME IInv, OrderOK, [Next]_vars PROVE OrderOK'
  OBVIOUS
<1>1. TypeOK /\ PhaseOK  BY DEF IInv
<1>2. /\ confirmed \in Nat /\ offset \in Nat /\ pos \in Nat /\ (file # Torn => file \in Nat)
      /\ Torn \notin Nat
  BY <1>1, TelegramAssumption DEF TypeOK, Offsets, NoOffset
<1>3. CASE Start  BY <1>2, <1>3 DEF Start, OrderOK
<1>4. CASE GetUpdates  BY <1>2, <1>4 DEF GetUpdates, FirstUpdate, OrderOK
<1>5. CASE EndOfBatch  BY <1>5 DEF EndOfBatch, OrderOK
<1>6. CASE ProcessUpdate
  <2>1. pc = "update" /\ pc' \in {"ingest", "record", "voice", "truncate"}
        /\ UNCHANGED <<confirmed, file, offset, pos>>
    BY <1>6 DEF ProcessUpdate, Request
  <2> QED  BY <2>1 DEF OrderOK
<1>7. CASE RecordDecision  BY <1>7 DEF RecordDecision, Request, OrderOK
<1>8. CASE UpdateDone  BY <1>8 DEF UpdateDone, OrderOK
<1>9. CASE Truncate  BY <1>2, <1>9 DEF Truncate, NextOffset, OrderOK
<1>10. CASE WriteOffset
  <2>1. offset = pos + 1  BY <1>1, <1>10 DEF WriteOffset, PhaseOK
  <2> QED  BY <1>2, <1>10, <2>1 DEF WriteOffset, OrderOK
<1>11. CASE RemoveFile  BY <1>2, <1>11 DEF RemoveFile, OrderOK, adapter
<1>12. CASE Die  BY <1>12 DEF Die, OrderOK
<1>13. CASE VoiceFails
  BY <1>13 DEF VoiceFails, Catches, OrderOK
<1>14. CASE UNCHANGED <<pc, confirmed, file, offset, pos>>  BY <1>14 DEF OrderOK
<1>15. \/ AdapterStep \/ RemoveFile \/ Die \/ VoiceFails
       \/ UNCHANGED <<pc, confirmed, file, offset, pos>>
  BY DEF Next, Send, DeleteTask, ServeCall, ServeOrphan, DropOrphan, vars, adapter
<1> QED  BY <1>3, <1>4, <1>5, <1>6, <1>7, <1>8, <1>9, <1>10, <1>11, <1>12, <1>13, <1>14, <1>15
         DEF AdapterStep

LEMMA Provenance == Spec => [](SourcesOK /\ OrderOK)
<1>1. Init => SourcesOK /\ OrderOK
  BY DEF Init, SourcesOK, OrderOK, Running, NoOffset
<1> QED  BY <1>1, SourcesInv, OrderInv, Invariance, PTL DEF Spec

-----------------------------------------------------------------------------
(* The tasks of a voice message m: those made, those that requests on      *)
(* their way will make, and those of the updates that this life of the     *)
(* adapter has ahead of it. A death gives it all updates anew, once for    *)
(* each time m was sent; nothing else makes the sum greater but sending m  *)
(* once more.                                                              *)
Voiced(m, n) ==
  {i \in 1..Len(sent) : sent[i].kind = "voice" /\ sent[i].msg = m /\ n <= i}

(* The next update to be processed. *)
Ahead ==
  IF pc = "down" THEN 1
  ELSE IF pc = "poll" THEN FirstUpdate
  ELSE IF pc = "update" THEN pos
  ELSE pos + 1

Coming(m) == Voiced(m, Ahead)

VoiceOrphans(m) == {j \in orphans : j.kind = "voice" /\ j.msg = m}

Asked(m) == call # NoJob /\ call.kind = "voice" /\ call.msg = m

Waiting(m) == IF Asked(m) THEN 1 ELSE 0

Sum(m) == voices[m] + Cardinality(VoiceOrphans(m)) + Waiting(m) + Cardinality(Coming(m))

VoiceOK ==
  /\ IsFiniteSet(orphans)
  /\ pc = "update" => FirstUpdate = pos
  /\ \A m \in Messages : Sum(m) <= TimesSent(m) * (1 + faults)

VoiceTyped ==
  /\ Ahead \in Nat \ {0} /\ faults \in Nat
  /\ \A m \in Messages :
       /\ voices[m] \in Nat /\ Waiting(m) \in 0..1
       /\ IsFiniteSet(VoiceOrphans(m)) /\ Cardinality(VoiceOrphans(m)) \in Nat
       /\ IsFiniteSet(Coming(m)) /\ Cardinality(Coming(m)) \in Nat
       /\ \A n \in Nat : IsFiniteSet(Voiced(m, n))
       /\ TimesSent(m) = Cardinality(Voiced(m, 1)) /\ TimesSent(m) \in Nat

LEMMA VoiceTypes == TypeOK /\ IsFiniteSet(orphans) => VoiceTyped
<1> SUFFICES ASSUME TypeOK, IsFiniteSet(orphans) PROVE VoiceTyped
  OBVIOUS
<1>1. Ahead \in Nat \ {0} /\ faults \in Nat /\ Len(sent) \in Nat
  BY TelegramAssumption DEF TypeOK, Offsets, NoOffset, Ahead, FirstUpdate
<1>2. ASSUME NEW m \in Messages
      PROVE  /\ voices[m] \in Nat /\ Waiting(m) \in 0..1
             /\ IsFiniteSet(VoiceOrphans(m)) /\ Cardinality(VoiceOrphans(m)) \in Nat
             /\ IsFiniteSet(Coming(m)) /\ Cardinality(Coming(m)) \in Nat
             /\ \A n \in Nat : IsFiniteSet(Voiced(m, n))
             /\ TimesSent(m) = Cardinality(Voiced(m, 1)) /\ TimesSent(m) \in Nat
  <2>1. voices[m] \in Nat /\ Waiting(m) \in 0..1
    BY DEF TypeOK, Waiting
  <2>2. IsFiniteSet(VoiceOrphans(m))
    BY FS_Subset DEF VoiceOrphans
  <2>3. IsFiniteSet(1..Len(sent))
    BY <1>1, FS_Interval
  <2>4. \A n : IsFiniteSet(Voiced(m, n))
    BY <2>3, FS_Subset DEF Voiced
  <2>5. Voiced(m, 1) = {i \in 1..Len(sent) : sent[i].kind = "voice" /\ sent[i].msg = m}
    BY <1>1 DEF Voiced
  <2>6. TimesSent(m) = Cardinality(Voiced(m, 1))
    BY <2>5 DEF TimesSent
  <2>7. IsFiniteSet(Coming(m))
    BY <2>4 DEF Coming
  <2> QED
    BY <2>1, <2>2, <2>4, <2>6, <2>7, FS_CardinalityType
<1> QED
  BY <1>1, <1>2 DEF VoiceTyped

LEMMA VoiceTypesNext == (TypeOK /\ IsFiniteSet(orphans))' => VoiceTyped'
  BY VoiceTypes, PTL

LEMMA AtMostOneMore ==
  ASSUME NEW S, NEW x, IsFiniteSet(S)
  PROVE  /\ IsFiniteSet(S \cup {x})
         /\ Cardinality(S) \in Nat /\ Cardinality(S \cup {x}) \in Nat
         /\ Cardinality(S \cup {x}) <= Cardinality(S) + 1
<1>1. IsFiniteSet(S \cup {x})
  BY FS_AddElement
<1>2. Cardinality(S) \in Nat /\ Cardinality(S \cup {x}) \in Nat
  BY <1>1, FS_CardinalityType
<1>3. CASE x \in S
  <2>1. Cardinality(S \cup {x}) = Cardinality(S)
    BY <1>3, FS_AddElement
  <2> QED
    BY <1>1, <1>2, <2>1
<1>4. CASE x \notin S
  BY <1>1, <1>2, <1>4, FS_AddElement
<1> QED
  BY <1>3, <1>4

(* What is ahead is among what was ahead, or among all there is. *)
LEMMA ComingShrinks ==
  ASSUME VoiceTyped, VoiceTyped', sent' = sent, NEW m \in Messages
  PROVE  /\ Ahead <= Ahead' => Cardinality(Coming(m)') <= Cardinality(Coming(m))
         /\ Cardinality(Coming(m)') <= TimesSent(m)
<1>1. Coming(m)' = {i \in 1..Len(sent) : sent[i].kind = "voice" /\ sent[i].msg = m /\ Ahead' <= i}
  BY DEF Coming, Voiced
<1>2. Coming(m) = {i \in 1..Len(sent) : sent[i].kind = "voice" /\ sent[i].msg = m /\ Ahead <= i}
  BY DEF Coming, Voiced
<1>3. Ahead \in Nat /\ Ahead' \in Nat /\ Ahead' >= 1
  BY DEF VoiceTyped
<1>4. Ahead <= Ahead' => Coming(m)' \subseteq Coming(m)
  BY <1>1, <1>2, <1>3
<1>5. Coming(m)' \subseteq Voiced(m, 1)
  BY <1>1, <1>3 DEF Voiced
<1>6. IsFiniteSet(Coming(m)) /\ IsFiniteSet(Voiced(m, 1)) /\ TimesSent(m) = Cardinality(Voiced(m, 1))
  BY DEF VoiceTyped
<1> QED
  BY <1>4, <1>5, <1>6, FS_Subset

(* The step of a death, and of one more time that m is sent. *)
LEMMA Products ==
  ASSUME NEW t \in Nat, NEW f \in Nat
  PROVE  /\ t * (1 + f) \in Nat
         /\ t * (1 + (f + 1)) = t * (1 + f) + t
         /\ (t + 1) * (1 + f) = t * (1 + f) + 1 + f
  OBVIOUS

LEMMA TimesStay ==
  ASSUME sent' = sent, NEW m
  PROVE  TimesSent(m)' = TimesSent(m)
  BY DEF TimesSent

(* Steps that neither make a task nor ask for one. *)
LEMMA VoiceStays ==
  ASSUME TypeOK, TypeOK', VoiceOK, UNCHANGED <<sent, voices, faults>>,
         orphans' \subseteq orphans, Ahead <= Ahead',
         \A m \in Messages : Asked(m)' => Asked(m),
         pc' = "update" => (FirstUpdate = pos)'
  PROVE  VoiceOK'
<1>1. IsFiniteSet(orphans')
  BY FS_Subset DEF VoiceOK
<1>2. VoiceTyped /\ VoiceTyped'
  BY <1>1, VoiceTypes, VoiceTypesNext DEF VoiceOK
<1>3. ASSUME NEW m \in Messages
      PROVE  (Sum(m) <= TimesSent(m) * (1 + faults))'
  <2>1. /\ Cardinality(Coming(m)') <= Cardinality(Coming(m))
        /\ TimesSent(m)' = TimesSent(m)
    BY <1>2, ComingShrinks, TimesStay
  <2>2. VoiceOrphans(m)' \subseteq VoiceOrphans(m)
    BY DEF VoiceOrphans
  <2>3. Cardinality(VoiceOrphans(m)') <= Cardinality(VoiceOrphans(m))
    BY <1>2, <2>2, FS_Subset DEF VoiceTyped
  <2>4. Waiting(m)' <= Waiting(m)
    BY DEF Waiting
  <2>5. Sum(m)' <= Sum(m)
    BY <1>2, <2>1, <2>3, <2>4 DEF Sum, VoiceTyped
  <2>6. Sum(m) \in Nat /\ Sum(m)' \in Nat
    BY <1>2 DEF Sum, VoiceTyped
  <2>7. Sum(m) <= TimesSent(m) * (1 + faults) /\ TimesSent(m) * (1 + faults) \in Nat
    BY <1>2, Products DEF VoiceOK, VoiceTyped
  <2> QED
    BY <2>1, <2>5, <2>6, <2>7
<1> QED
  BY <1>1, <1>3 DEF VoiceOK

LEMMA VoiceSent ==
  ASSUME TypeOK, TypeOK', VoiceOK, NEW u \in Updates, Send(u)
  PROVE  VoiceOK'
<1>1. /\ UNCHANGED <<confirmed, offset, pos, pc, call, orphans, voices, faults>>
      /\ sent' = Append(sent, u)
  BY DEF Send, adapter, server, history
<1>2. VoiceTyped /\ VoiceTyped'
  BY <1>1, VoiceTypes, VoiceTypesNext DEF VoiceOK
<1>3. /\ Len(sent) \in Nat /\ Len(sent') = Len(sent) + 1 /\ sent'[Len(sent) + 1] = u
      /\ \A i \in 1..Len(sent) : sent'[i] = sent[i]
  BY <1>1, TelegramAssumption DEF TypeOK
<1>4. Ahead' = Ahead
  BY <1>1 DEF Ahead, FirstUpdate
<1>5. ASSUME NEW m \in Messages
      PROVE  (Sum(m) <= TimesSent(m) * (1 + faults))'
  <2> DEFINE new == Len(sent) + 1
             count == u.kind = "voice" /\ u.msg = m
  <2>1. /\ Coming(m)' \subseteq Coming(m) \cup {new}
        /\ ~ count => Coming(m)' = Coming(m)
    BY <1>3, <1>4 DEF Coming, Voiced
  <2>2. /\ count => Voiced(m, 1)' = Voiced(m, 1) \cup {new}
        /\ ~ count => Voiced(m, 1)' = Voiced(m, 1)
        /\ new \notin Voiced(m, 1)
    BY <1>3 DEF Voiced
  <2>3. /\ IsFiniteSet(Coming(m)) /\ IsFiniteSet(Voiced(m, 1))
        /\ TimesSent(m) = Cardinality(Voiced(m, 1))
        /\ TimesSent(m)' = Cardinality(Voiced(m, 1)')
    BY <1>2 DEF VoiceTyped
  <2>4. VoiceOrphans(m)' = VoiceOrphans(m) /\ Waiting(m)' = Waiting(m)
    BY <1>1 DEF VoiceOrphans, Waiting, Asked
  <2>5. Sum(m) \in Nat /\ faults \in Nat /\ TimesSent(m) \in Nat /\ Sum(m)' \in Nat
    BY <1>2 DEF Sum, VoiceTyped
  <2>6. Sum(m) <= TimesSent(m) * (1 + faults)
    BY DEF VoiceOK
  <2>7. CASE count
    <3>1. TimesSent(m)' = TimesSent(m) + 1
      BY <2>2, <2>3, <2>7, FS_AddElement
    <3>2. /\ IsFiniteSet(Coming(m) \cup {new})
          /\ Cardinality(Coming(m) \cup {new}) <= Cardinality(Coming(m)) + 1
      BY <2>3, AtMostOneMore
    <3>3. Cardinality(Coming(m)') <= Cardinality(Coming(m) \cup {new})
      BY <2>1, <3>2, FS_Subset
    <3>4. Cardinality(Coming(m) \cup {new}) \in Nat
      BY <3>2, FS_CardinalityType
    <3>5. Sum(m)' <= Sum(m) + 1
      <4>1. Cardinality(Coming(m)') <= Cardinality(Coming(m)) + 1
        BY <1>2, <3>2, <3>3, <3>4 DEF VoiceTyped
      <4>2. voices'[m] = voices[m] /\ Cardinality(VoiceOrphans(m)') = Cardinality(VoiceOrphans(m))
        BY <1>1, <2>4
      <4>3. /\ voices[m] \in Nat /\ Waiting(m) \in 0..1 /\ Cardinality(VoiceOrphans(m)) \in Nat
            /\ Cardinality(Coming(m)) \in Nat /\ Cardinality(Coming(m)') \in Nat
        BY <1>2 DEF VoiceTyped
      <4> QED
        BY <2>4, <4>1, <4>2, <4>3 DEF Sum
    <3>6. TimesSent(m)' * (1 + faults) = TimesSent(m) * (1 + faults) + 1 + faults
      BY <2>5, <3>1, Products
    <3>7. TimesSent(m) * (1 + faults) \in Nat
      BY <2>5, Products
    <3> QED
      BY <1>1, <2>5, <2>6, <3>5, <3>6, <3>7
  <2>8. CASE ~ count
    <3>1. TimesSent(m)' = TimesSent(m)
      BY <2>2, <2>3, <2>8
    <3>2. Sum(m)' = Sum(m)
      BY <1>1, <2>1, <2>4, <2>8 DEF Sum
    <3> QED
      BY <1>1, <2>6, <3>1, <3>2
  <2> QED
    BY <2>7, <2>8
<1> QED
  BY <1>1, <1>5 DEF VoiceOK, FirstUpdate

(* The adapter asks for the task of the update it is at. *)
LEMMA VoiceAsked ==
  ASSUME TypeOK, TypeOK', PhaseOK, VoiceOK, ProcessUpdate
  PROVE  VoiceOK'
<1> DEFINE u == sent[pos]
<1>1. /\ pc = "update" /\ pos <= end /\ call = NoJob
      /\ UNCHANGED <<sent, confirmed, offset, pos, orphans, voices, faults>>
  BY DEF ProcessUpdate, PhaseOK, server, history
<1>2. pos \in 1..Len(sent) /\ u \in Update
  BY <1>1, CurrentType
<1>3. VoiceTyped /\ VoiceTyped'
  BY <1>1, VoiceTypes, VoiceTypesNext DEF VoiceOK
<1>4. CASE u.kind = "voice" /\ Request("voice", u)
  <2>1. pc' = "voice" /\ call'.kind = "voice" /\ call'.msg = u.msg
    BY <1>2, <1>4, RequestType
  <2>2. Ahead = pos /\ Ahead' = pos + 1
    BY <1>1, <2>1 DEF Ahead
  <2>3. ASSUME NEW m \in Messages
        PROVE  (Sum(m) <= TimesSent(m) * (1 + faults))'
    <3>1. TimesSent(m)' = TimesSent(m) /\ VoiceOrphans(m)' = VoiceOrphans(m) /\ Waiting(m) = 0
      BY <1>1, TimesStay DEF VoiceOrphans, Waiting, Asked
    <3>2. CASE m = u.msg
      <4>1. pos \in Coming(m) /\ Coming(m)' = Coming(m) \ {pos}
        BY <1>1, <1>2, <1>4, <2>2, <3>2 DEF Coming, Voiced
      <4>2. Cardinality(Coming(m)') = Cardinality(Coming(m)) - 1
        BY <1>3, <4>1, FS_RemoveElement DEF VoiceTyped
      <4>3. Waiting(m)' <= 1
        BY <1>3 DEF VoiceTyped
      <4>4. Sum(m)' <= Sum(m) /\ Sum(m) \in Nat /\ Sum(m)' \in Nat
        BY <1>1, <1>3, <3>1, <4>2, <4>3 DEF Sum, VoiceTyped
      <4>5. Sum(m) <= TimesSent(m) * (1 + faults) /\ TimesSent(m) * (1 + faults) \in Nat
        BY <1>3, Products DEF VoiceOK, VoiceTyped
      <4> QED
        BY <1>1, <3>1, <4>4, <4>5
    <3>3. CASE m # u.msg
      <4>1. Waiting(m)' = 0
        BY <2>1, <3>3 DEF Waiting, Asked
      <4>2. Cardinality(Coming(m)') <= Cardinality(Coming(m))
        BY <1>1, <1>3, <2>2, ComingShrinks DEF VoiceTyped
      <4>3. Sum(m)' <= Sum(m) /\ Sum(m) \in Nat /\ Sum(m)' \in Nat
        BY <1>1, <1>3, <3>1, <4>1, <4>2 DEF Sum, VoiceTyped
      <4>4. Sum(m) <= TimesSent(m) * (1 + faults) /\ TimesSent(m) * (1 + faults) \in Nat
        BY <1>3, Products DEF VoiceOK, VoiceTyped
      <4> QED
        BY <1>1, <3>1, <4>3, <4>4
    <3> QED
      BY <3>2, <3>3
  <2> QED
    BY <1>1, <2>1, <2>3 DEF VoiceOK
<1>5. ASSUME NEW kind \in {"ingest", "record"}, Request(kind, u)
      PROVE  VoiceOK'
  <2>1. pc' = kind /\ call'.kind = kind
    BY <1>2, <1>5, RequestType
  <2>2. pc' # "down" /\ pc' # "poll" /\ pc' # "update"
    BY <1>5, <2>1
  <2>3. Ahead = pos /\ Ahead' = pos + 1 /\ pos \in Nat
    <3>1. Ahead = pos
      BY <1>1 DEF Ahead
    <3>2. Ahead' = pos + 1
      BY <1>1, <2>2 DEF Ahead
    <3> QED
      BY <1>2, <3>1, <3>2
  <2>4. \A m \in Messages : ~ Asked(m)'
    BY <2>1 DEF Asked
  <2> QED
    BY <1>1, <1>5, <2>1, <2>2, <2>3, <2>4, VoiceStays
<1>6. CASE pc' = "truncate" /\ call' = call
  <2>1. Ahead = pos /\ Ahead' = pos + 1 /\ pos \in Nat
    BY <1>1, <1>2, <1>6 DEF Ahead
  <2>2. \A m \in Messages : Asked(m)' => Asked(m)
    BY <1>6 DEF Asked
  <2> QED
    BY <1>1, <1>6, <2>1, <2>2, VoiceStays
<1> QED
  BY <1>4, <1>5, <1>6 DEF ProcessUpdate

(* The server makes the task of a request, which is then done. *)
LEMMA VoiceServed ==
  ASSUME TypeOK, VoiceOK, NEW j \in Job, NEW left \in Remainders(j), Serve(j, left)
  PROVE  /\ left # NoJob => left.kind = "ingest"
         /\ j.kind # "voice" => voices' = voices
         /\ j.kind = "voice" =>
              left = NoJob /\ \A m \in Messages :
                voices'[m] = IF m = j.msg THEN voices[m] + 1 ELSE voices[m]
<1>1. left # NoJob => left.kind = "ingest"
  BY ServeType
<1>2. j.kind # "voice" => voices' = voices
  BY DEF Serve, IngestLine, RecordReceipt, CreateVoiceTask
<1>3. j.kind = "voice" => left = NoJob /\ voices' = [voices EXCEPT ![j.msg] = @ + 1]
  BY DEF Serve, CreateVoiceTask
<1> QED
  BY <1>1, <1>2, <1>3 DEF TypeOK

LEMMA VoiceCallServed ==
  ASSUME TypeOK, TypeOK', PhaseOK, VoiceOK, ServeCall
  PROVE  VoiceOK'
<1>1. PICK left \in Remainders(call) : Serve(call, left) /\ call' = left
  BY DEF ServeCall
<1>2. /\ call \in Job /\ call # NoJob
      /\ UNCHANGED <<sent, confirmed, pc, offset, pos, orphans, faults>>
  BY DEF ServeCall, TypeOK, adapter, history
<1>3. /\ call' # NoJob => call'.kind = "ingest"
      /\ call.kind # "voice" => voices' = voices
      /\ call.kind = "voice" =>
           call' = NoJob /\ \A m \in Messages :
             voices'[m] = IF m = call.msg THEN voices[m] + 1 ELSE voices[m]
  BY <1>1, <1>2, VoiceServed
<1>4. Ahead' = Ahead /\ \A m \in Messages : ~ Asked(m)'
  BY <1>2, <1>3 DEF Ahead, FirstUpdate, Asked
<1>5. VoiceTyped /\ VoiceTyped'
  BY <1>2, VoiceTypes, VoiceTypesNext DEF VoiceOK
<1>6. ASSUME NEW m \in Messages
      PROVE  (Sum(m) <= TimesSent(m) * (1 + faults))'
  <2>1. /\ TimesSent(m)' = TimesSent(m) /\ VoiceOrphans(m)' = VoiceOrphans(m)
        /\ Cardinality(Coming(m)') <= Cardinality(Coming(m)) /\ Waiting(m)' = 0
    BY <1>2, <1>4, <1>5, TimesStay, ComingShrinks DEF VoiceOrphans, Waiting, VoiceTyped
  <2>2. voices'[m] <= voices[m] + Waiting(m)
    BY <1>2, <1>3, <1>5 DEF Waiting, Asked, VoiceTyped
  <2>3. Sum(m)' <= Sum(m) /\ Sum(m) \in Nat /\ Sum(m)' \in Nat
    BY <1>5, <2>1, <2>2 DEF Sum, VoiceTyped
  <2>4. Sum(m) <= TimesSent(m) * (1 + faults) /\ TimesSent(m) * (1 + faults) \in Nat
    BY <1>5, Products DEF VoiceOK, VoiceTyped
  <2> QED
    BY <1>2, <2>1, <2>3, <2>4
<1> QED
  BY <1>2, <1>6 DEF VoiceOK, FirstUpdate

LEMMA VoiceOrphanServed ==
  ASSUME TypeOK, TypeOK', VoiceOK, NEW j \in orphans, ServeOrphan(j)
  PROVE  VoiceOK'
<1>1. PICK left \in Remainders(j) :
        Serve(j, left) /\ orphans' = (orphans \ {j}) \cup ({left} \ {NoJob})
  BY DEF ServeOrphan
<1>2. j \in Job /\ UNCHANGED <<sent, confirmed, pc, offset, pos, call, faults>>
  BY DEF ServeOrphan, TypeOK, adapter, history
<1>3. /\ left # NoJob => left.kind = "ingest"
      /\ j.kind # "voice" => voices' = voices
      /\ j.kind = "voice" =>
           left = NoJob /\ \A m \in Messages :
             voices'[m] = IF m = j.msg THEN voices[m] + 1 ELSE voices[m]
  BY <1>1, <1>2, VoiceServed
<1>4. IsFiniteSet(orphans')
  <2>1. IsFiniteSet(orphans \ {j})
    BY FS_RemoveElement DEF VoiceOK
  <2>2. IsFiniteSet((orphans \ {j}) \cup {left})
    BY <2>1, FS_AddElement
  <2>3. orphans' \subseteq (orphans \ {j}) \cup {left}
    BY <1>1
  <2> QED
    BY <2>2, <2>3, FS_Subset
<1>5. VoiceTyped /\ VoiceTyped'
  BY <1>4, VoiceTypes, VoiceTypesNext DEF VoiceOK
<1>6. Ahead' = Ahead
  BY <1>2 DEF Ahead, FirstUpdate
<1>7. ASSUME NEW m \in Messages
      PROVE  (Sum(m) <= TimesSent(m) * (1 + faults))'
  <2>1. /\ TimesSent(m)' = TimesSent(m) /\ Waiting(m)' = Waiting(m)
        /\ Cardinality(Coming(m)') <= Cardinality(Coming(m))
    BY <1>2, <1>5, <1>6, TimesStay, ComingShrinks DEF Waiting, Asked, VoiceTyped
  <2>2. voices'[m] + Cardinality(VoiceOrphans(m)') <= voices[m] + Cardinality(VoiceOrphans(m))
    <3>1. CASE j.kind = "voice" /\ j.msg = m
      <4>1. j \in VoiceOrphans(m) /\ VoiceOrphans(m)' = VoiceOrphans(m) \ {j}
        BY <1>1, <1>3, <3>1 DEF VoiceOrphans
      <4>2. Cardinality(VoiceOrphans(m)') = Cardinality(VoiceOrphans(m)) - 1
        BY <1>5, <4>1, FS_RemoveElement DEF VoiceTyped
      <4>3. voices'[m] = voices[m] + 1
        BY <1>3, <3>1
      <4> QED
        BY <1>5, <4>2, <4>3 DEF VoiceTyped
    <3>2. CASE ~ (j.kind = "voice" /\ j.msg = m)
      <4>1. VoiceOrphans(m)' = VoiceOrphans(m) /\ voices'[m] = voices[m]
        BY <1>1, <1>3, <3>2 DEF VoiceOrphans
      <4> QED
        BY <1>5, <4>1 DEF VoiceTyped
    <3> QED
      BY <3>1, <3>2
  <2>3. Sum(m)' <= Sum(m) /\ Sum(m) \in Nat /\ Sum(m)' \in Nat
    BY <1>5, <2>1, <2>2 DEF Sum, VoiceTyped
  <2>4. Sum(m) <= TimesSent(m) * (1 + faults) /\ TimesSent(m) * (1 + faults) \in Nat
    BY <1>5, Products DEF VoiceOK, VoiceTyped
  <2> QED
    BY <1>2, <2>1, <2>3, <2>4
<1> QED
  BY <1>2, <1>4, <1>7 DEF VoiceOK, FirstUpdate

(* The request that nobody waits for any more counts as one of the others. *)
LEMMA VoiceLetGo ==
  ASSUME TypeOK, TypeOK', VoiceOK, call' = NoJob,
         orphans' \subseteq orphans \cup ({call} \ {NoJob})
  PROVE  /\ IsFiniteSet(orphans')
         /\ \A m \in Messages :
              Cardinality(VoiceOrphans(m)') + Waiting(m)'
                <= Cardinality(VoiceOrphans(m)) + Waiting(m)
<1>1. IsFiniteSet(orphans')
  <2>1. IsFiniteSet(orphans \cup {call})
    BY FS_AddElement DEF VoiceOK
  <2> QED
    BY <2>1, FS_Subset
<1>2. VoiceTyped /\ VoiceTyped'
  BY <1>1, VoiceTypes, VoiceTypesNext DEF VoiceOK
<1>3. ASSUME NEW m \in Messages
      PROVE  Cardinality(VoiceOrphans(m)') + Waiting(m)'
               <= Cardinality(VoiceOrphans(m)) + Waiting(m)
  <2>1. Waiting(m)' = 0
    BY DEF Waiting, Asked
  <2>2. CASE Asked(m)
    <3>1. VoiceOrphans(m)' \subseteq VoiceOrphans(m) \cup {call}
      BY DEF VoiceOrphans
    <3>2. /\ IsFiniteSet(VoiceOrphans(m) \cup {call})
          /\ Cardinality(VoiceOrphans(m) \cup {call}) <= Cardinality(VoiceOrphans(m)) + 1
      BY <1>2, AtMostOneMore DEF VoiceTyped
    <3>3. Cardinality(VoiceOrphans(m)') <= Cardinality(VoiceOrphans(m) \cup {call})
      BY <3>1, <3>2, FS_Subset
    <3>4. Cardinality(VoiceOrphans(m) \cup {call}) \in Nat /\ Waiting(m) = 1
      BY <2>2, <3>2, FS_CardinalityType DEF Waiting
    <3> QED
      BY <1>2, <2>1, <3>2, <3>3, <3>4 DEF VoiceTyped
  <2>3. CASE ~ Asked(m)
    <3>1. VoiceOrphans(m)' \subseteq VoiceOrphans(m)
      BY <2>3 DEF VoiceOrphans, Asked
    <3>2. Cardinality(VoiceOrphans(m)') <= Cardinality(VoiceOrphans(m))
      BY <1>2, <3>1, FS_Subset DEF VoiceTyped
    <3> QED
      BY <1>2, <2>1, <3>2 DEF VoiceTyped
  <2> QED
    BY <2>2, <2>3
<1> QED
  BY <1>1, <1>3

(* A death: all the updates there are may be ahead again. *)
LEMMA VoiceFault ==
  ASSUME TypeOK, TypeOK', VoiceOK, Die \/ VoiceFails
  PROVE  VoiceOK'
<1>1. /\ UNCHANGED <<sent, voices>> /\ faults' = faults + 1
      /\ call' = NoJob /\ orphans' \subseteq orphans \cup ({call} \ {NoJob})
      /\ pc' # "update"
  BY DEF Die, VoiceFails, server
<1>2. /\ IsFiniteSet(orphans')
      /\ \A m \in Messages :
           Cardinality(VoiceOrphans(m)') + Waiting(m)'
             <= Cardinality(VoiceOrphans(m)) + Waiting(m)
  BY <1>1, VoiceLetGo
<1>3. VoiceTyped /\ VoiceTyped'
  BY <1>2, VoiceTypes, VoiceTypesNext DEF VoiceOK
<1>4. ASSUME NEW m \in Messages
      PROVE  (Sum(m) <= TimesSent(m) * (1 + faults))'
  <2>1. /\ TimesSent(m)' = TimesSent(m)
        /\ Cardinality(Coming(m)') <= TimesSent(m)
    BY <1>1, <1>3, TimesStay, ComingShrinks
  <2>2. Sum(m)' <= Sum(m) + TimesSent(m) /\ Sum(m) \in Nat /\ Sum(m)' \in Nat
    BY <1>1, <1>2, <1>3, <2>1 DEF Sum, VoiceTyped
  <2>3. /\ Sum(m) <= TimesSent(m) * (1 + faults) /\ TimesSent(m) * (1 + faults) \in Nat
        /\ TimesSent(m) * (1 + (faults + 1)) = TimesSent(m) * (1 + faults) + TimesSent(m)
        /\ TimesSent(m) \in Nat
    BY <1>3, Products DEF VoiceOK, VoiceTyped
  <2> QED
    BY <1>1, <2>1, <2>2, <2>3
<1> QED
  BY <1>1, <1>2, <1>4 DEF VoiceOK

LEMMA VoiceInv == IInv /\ VoiceOK /\ [Next]_vars => VoiceOK'
<1> SUFFICES ASSUME IInv, VoiceOK, [Next]_vars PROVE VoiceOK'
  OBVIOUS
<1>1. TypeOK /\ PhaseOK /\ TypeOK'
  BY TypeInv DEF IInv
<1>2. Ahead \in Nat \ {0} /\ pos \in Nat \ {0} /\ FirstUpdate \in Nat \ {0}
  <2>1. Ahead \in Nat \ {0}
    BY <1>1, VoiceTypes DEF VoiceOK, VoiceTyped
  <2>2. pos \in Nat \ {0} /\ FirstUpdate \in Nat \ {0}
    BY <1>1, TelegramAssumption DEF TypeOK, Offsets, NoOffset, FirstUpdate
  <2> QED
    BY <2>1, <2>2
<1>3. CASE (\E u \in Updates : Send(u)) \/ ProcessUpdate \/ ServeCall \/ Die \/ VoiceFails
            \/ \E j \in orphans : ServeOrphan(j)
  BY <1>1, <1>3, VoiceSent, VoiceAsked, VoiceCallServed, VoiceOrphanServed, VoiceFault
<1>4. CASE Start
  <2>1. /\ UNCHANGED <<sent, voices, faults, orphans, call>> /\ pc = "down" /\ pc' = "poll"
    BY <1>4 DEF Start, server, history
  <2>2. Ahead = 1 /\ Ahead' \in Nat \ {0}
    <3>1. IsFiniteSet(orphans')
      BY <2>1 DEF VoiceOK
    <3> QED
      BY <1>1, <2>1, <3>1, VoiceTypesNext DEF VoiceTyped, Ahead
  <2> QED
    BY <1>1, <2>1, <2>2, VoiceStays DEF Asked
<1>5. CASE GetUpdates
  <2>1. /\ UNCHANGED <<sent, voices, faults, orphans, call, offset>>
        /\ pc = "poll" /\ pc' = "update" /\ pos' = FirstUpdate /\ confirmed' = FirstUpdate
    BY <1>5 DEF GetUpdates, server, history
  <2>2. Ahead = FirstUpdate /\ Ahead' = FirstUpdate /\ FirstUpdate' = FirstUpdate
    BY <2>1 DEF Ahead, FirstUpdate
  <2> QED
    BY <1>1, <1>2, <2>1, <2>2, VoiceStays DEF Asked
<1>6. CASE EndOfBatch
  <2>1. /\ UNCHANGED <<sent, voices, faults, orphans, call, offset, confirmed>>
        /\ pc = "update" /\ pc' = "poll"
    BY <1>6 DEF EndOfBatch, server, history
  <2>2. Ahead = pos /\ Ahead' = pos
    BY <2>1 DEF Ahead, FirstUpdate, VoiceOK
  <2> QED
    BY <1>1, <1>2, <2>1, <2>2, VoiceStays DEF Asked
<1>7. CASE RecordDecision
  <2>1. /\ UNCHANGED <<sent, voices, faults, orphans, pos>> /\ pc = "ingest"
        /\ Request("record", sent[pos])
    BY <1>7 DEF RecordDecision, server, history
  <2>2. sent[pos] \in Update
    BY <1>1, <2>1, CurrentType DEF PhaseOK
  <2>3. pc' = "record" /\ call'.kind = "record"
    BY <1>1, <2>1, <2>2, RequestType
  <2>4. Ahead = pos + 1 /\ Ahead' = pos + 1
    BY <2>1, <2>3 DEF Ahead
  <2>5. \A m \in Messages : ~ Asked(m)'
    BY <2>3 DEF Asked
  <2> QED
    BY <1>1, <1>2, <2>1, <2>3, <2>4, <2>5, VoiceStays
<1>8. CASE UpdateDone \/ Truncate
  <2>1. /\ UNCHANGED <<sent, voices, faults, orphans, pos, call>>
        /\ pc \in {"record", "voice", "truncate"} /\ pc' \in {"truncate", "write"}
    BY <1>8 DEF UpdateDone, Truncate, server, history
  <2>2. Ahead = pos + 1 /\ Ahead' = pos + 1
    BY <2>1 DEF Ahead
  <2> QED
    BY <1>1, <1>2, <2>1, <2>2, VoiceStays DEF Asked
<1>9. CASE WriteOffset
  <2>1. /\ UNCHANGED <<sent, voices, faults, orphans, offset, call>>
        /\ pc = "write" /\ pc' = "update" /\ pos' = offset /\ offset = pos + 1
    BY <1>1, <1>9 DEF WriteOffset, PhaseOK, server, history
  <2>2. Ahead = pos + 1 /\ Ahead' = pos + 1 /\ FirstUpdate' = pos'
    BY <1>2, <2>1 DEF Ahead, FirstUpdate, NoOffset
  <2> QED
    BY <1>1, <1>2, <2>1, <2>2, VoiceStays DEF Asked
<1>10. CASE /\ UNCHANGED <<sent, voices, faults, call, pc, offset, confirmed, pos>>
            /\ orphans' \subseteq orphans
  <2>1. Ahead' = Ahead /\ FirstUpdate' = FirstUpdate
    BY <1>10 DEF Ahead, FirstUpdate
  <2> QED
    BY <1>1, <1>2, <1>10, <2>1, VoiceStays DEF Asked, VoiceOK
<1> QED
  BY <1>3, <1>4, <1>5, <1>6, <1>7, <1>8, <1>9, <1>10
     DEF Next, AdapterStep, DeleteTask, RemoveFile, DropOrphan, vars, adapter, server, history

LEMMA VoiceInitially == Init => VoiceOK
<1> SUFFICES ASSUME Init PROVE VoiceOK
  OBVIOUS
<1>1. IsFiniteSet(orphans) /\ Len(sent) = 0
  BY FS_EmptySet DEF Init
<1>2. ASSUME NEW m \in Messages
      PROVE  Sum(m) <= TimesSent(m) * (1 + faults)
  <2>1. VoiceOrphans(m) = {} /\ Coming(m) = {} /\ Waiting(m) = 0 /\ voices[m] = 0
    BY <1>1 DEF Init, VoiceOrphans, Coming, Voiced, Waiting, Asked
  <2>2. {i \in 1..Len(sent) : sent[i].kind = "voice" /\ sent[i].msg = m} = {}
    BY <1>1
  <2>3. TimesSent(m) = 0
    BY <2>2, FS_EmptySet DEF TimesSent
  <2>4. Cardinality(VoiceOrphans(m)) = 0 /\ Cardinality(Coming(m)) = 0
    BY <2>1, FS_EmptySet
  <2>5. Sum(m) = 0
    BY <2>1, <2>4 DEF Sum
  <2> QED
    BY <2>3, <2>5 DEF Init
<1> QED
  BY <1>1, <1>2 DEF VoiceOK, Init

-----------------------------------------------------------------------------
(* Every reachable state of the adapter, the server and Telegram is well   *)
(* typed: in particular the adapter never starts from a truncated file.    *)
THEOREM AdapterTypeCorrect == Spec => []TypeOK
  BY Invariance, PTL DEF IInv

(* No text message is left behind before all its lines became tasks, for   *)
(* any number of messages, edits, deaths and requests that outlive them.   *)
THEOREM NoMessageIsLost == Spec => []NothingLost
<1>1. IInv => NothingLost
  <2> SUFFICES ASSUME IInv, NEW i \in 1..Len(sent), Behind(i), sent[i].kind = "text",
                      NEW l \in Parsed[sent[i].text]
               PROVE  <<sent[i].msg, l>> \in made
    BY DEF NothingLost
  <2>1. Handled(sent[i])  BY DEF IInv, OffsetsOK, Done, Behind
  <2> QED  BY <2>1 DEF Handled, InMade
<1> QED  BY <1>1, Invariance, PTL

(* A receipt stands for tasks that were made.                              *)
THEOREM ReceiptsEarned == Spec => []ReceiptsAreEarned
<1>1. IInv => ReceiptsAreEarned  BY DEF IInv
<1> QED  BY <1>1, Invariance, PTL

(* Deleted tasks do not return from a text that had its receipt.           *)
THEOREM DeletedStaysDeleted == Spec => ReceiptsKeepDeleted
<1>1. ASSUME IInv, [Next]_vars, NEW t \in board' \ board
      PROVE  \E j \in Running :
               /\ j.kind = "ingest" /\ j.msg = t[1] /\ t[2] \in j.todo
               /\ <<t, j.text>> \notin rejected
  <2>1. TypeOK /\ RejectedOK  BY <1>1 DEF IInv
  <2>2. PICK j \in Running : j \in Job /\ \E left : Serve(j, left)
    <3>1. ServeCall \/ (\E k \in orphans : ServeOrphan(k))
      BY <1>1 DEF Next, AdapterStep, Start, GetUpdates, EndOfBatch, ProcessUpdate,
           RecordDecision, UpdateDone, Truncate, WriteOffset, RemoveFile, DropOrphan, Die,
           VoiceFails, DeleteTask, Send, vars, server
    <3> QED  BY <2>1, <3>1, RunningAreJobs DEF ServeCall, ServeOrphan, Running
  <2>3. j.kind = "ingest" /\ \E l \in j.todo : board' = board \cup {<<j.msg, l>>}
    BY <1>1, <2>2 DEF Serve, IngestLine, RecordReceipt, CreateVoiceTask
  <2>4. t[1] = j.msg /\ t[2] \in j.todo  BY <1>1, <2>3
  <2>5. <<t, j.text>> \notin rejected  BY <2>1, <2>2, <2>3, <2>4 DEF RejectedOK
  <2> QED  BY <2>2, <2>3, <2>4, <2>5
<1>2. IInv /\ [Next]_vars =>
       [\A t \in board' \ board :
          \E j \in Running :
               /\ j.kind = "ingest" /\ j.msg = t[1] /\ t[2] \in j.todo
               /\ <<t, j.text>> \notin rejected]_vars
  BY <1>1
<1> QED  BY <1>2, Invariance, PTL DEF Spec, ReceiptsKeepDeleted

(* A voice message makes at most one task for each time it was sent and    *)
(* for each life of the adapter or of one of its requests, for any number  *)
(* of messages, updates and deaths (telegram_polling_adapter.py 1090-1094).*)
THEOREM VoiceTasksAreBounded == Spec => []VoiceDuplicatesNeedFaults
<1>1. IInv /\ VoiceOK => VoiceDuplicatesNeedFaults
  <2> SUFFICES ASSUME IInv, VoiceOK, NEW m \in Messages
               PROVE  voices[m] <= TimesSent(m) * (1 + faults)
    BY DEF VoiceDuplicatesNeedFaults
  <2>1. VoiceTyped
    BY VoiceTypes DEF IInv, VoiceOK
  <2>2. voices[m] <= Sum(m) /\ voices[m] \in Nat /\ Sum(m) \in Nat
    BY <2>1 DEF Sum, VoiceTyped
  <2>3. Sum(m) <= TimesSent(m) * (1 + faults) /\ TimesSent(m) * (1 + faults) \in Nat
    BY <2>1, Products DEF VoiceOK, VoiceTyped
  <2> QED
    BY <2>2, <2>3
<1>2. Spec => []VoiceOK
  BY VoiceInitially, VoiceInv, Invariance, PTL DEF Spec
<1> QED
  BY <1>1, <1>2, Invariance, PTL

(* What the server does for a request is a step of Intake. *)
LEMMA ServedIsIntake ==
  ASSUME TypeOK, NEW j \in Job, NEW left, Serve(j, left), JobOK(j), Source(j),
         j.todo \subseteq Parsed[j.text], UNCHANGED <<sent, confirmed>>
  PROVE  Contract!Next
<1>1. PICK i \in 1..Len(sent) :
        /\ sent[i].msg = j.msg /\ sent[i].text = j.text
        /\ sent[i].kind = IF j.kind = "voice" THEN "voice" ELSE "text"
  BY DEF Source
<1>2. CASE j.kind = "ingest"
  <2>1. PICK l \in j.todo : IngestLine(j, l)  BY <1>2 DEF Serve
  <2>2. l \in Lines /\ l \in Parsed[sent[i].text]  BY <1>1 DEF Job
  <2>3. Contract!MakeTask(sent[i], l)
    BY <1>1, <1>2, <2>1, <2>2 DEF IngestLine, Contract!MakeTask
  <2> QED  BY <2>2, <2>3 DEF Contract!Next
<1>3. CASE j.kind = "record"
  <2>1. RecordReceipt(j)  BY <1>3 DEF Serve
  <2>2. Contract!Settled(sent[i])  BY <1>1, <1>3 DEF JobOK, InMade, Contract!Settled
  <2>3. Contract!GiveReceipt(sent[i])
    BY <1>1, <1>3, <2>1, <2>2 DEF RecordReceipt, Contract!GiveReceipt
  <2> QED  BY <2>3 DEF Contract!Next
<1>4. CASE j.kind = "voice"
  <2>1. CreateVoiceTask(j)  BY <1>4 DEF Serve
  <2>2. Contract!MakeVoiceTask(sent[i])
    BY <1>1, <1>4, <2>1 DEF CreateVoiceTask, Contract!MakeVoiceTask
  <2> QED  BY <2>2 DEF Contract!Next
<1> QED  BY <1>2, <1>3, <1>4 DEF Job

(* The adapter and the server implement the intake that the contract       *)
(* describes (docs/ADAPTER_CONTRACT.md 149-178), for any number of         *)
(* messages, edits, deaths, retries and requests that outlive their        *)
(* sender: each of their steps is a step of Intake, or none.               *)
THEOREM AdapterImplementsIntake == Spec => ImplementsIntake
<1>1. Init => Contract!Init  BY DEF Init, Contract!Init
<1>2. IInv /\ SourcesOK /\ OrderOK /\ [Next]_vars => [Contract!Next]_(Contract!vars)
  <2> SUFFICES ASSUME IInv, SourcesOK, OrderOK, [Next]_vars
               PROVE  Contract!Next \/ UNCHANGED Contract!vars
    OBVIOUS
  <2>1. TypeOK /\ JobsOK /\ OffsetsOK  BY DEF IInv
  <2>2. ASSUME NEW u \in Updates, Send(u) PROVE Contract!Next
    BY <2>2 DEF Send, server, Contract!Arrive, Contract!Next
  <2>3. ASSUME NEW t \in board, DeleteTask(t) PROVE Contract!Next
    BY <2>3 DEF DeleteTask, Contract!DeleteTask, Contract!Next
  <2>4. CASE GetUpdates
    <3>1. UNCHANGED <<sent, board, made, receipts, voices>>  BY <2>4 DEF GetUpdates, server
    <3>2. CASE confirmed' = confirmed  BY <3>1, <3>2 DEF Contract!vars
    <3>3. CASE confirmed' # confirmed
      <4>1. confirmed' = offset /\ offset # NoOffset  BY <2>4, <3>3 DEF GetUpdates, FirstUpdate
      <4>2. /\ offset \in Nat /\ confirmed \in Nat /\ confirmed >= 1 /\ Len(sent) \in Nat
            /\ confirmed < offset
        BY <2>1, <3>3, <4>1, TelegramAssumption DEF TypeOK, Offsets, NoOffset, OrderOK
      <4>3. Done(offset)  BY <2>1 DEF OffsetsOK
      <4>4. \A i \in 1..(offset - 1) : Contract!Settled(sent[i])
        BY <4>2, <4>3 DEF Done, Handled, InMade, Contract!Settled
      <4>5. offset - 1 \in 1..Len(sent) /\ (offset - 1) + 1 = offset  BY <4>2, <4>3 DEF Done
      <4>6. Contract!Pass(offset)  BY <3>1, <4>1, <4>2, <4>4 DEF Contract!Pass
      <4> QED  BY <4>5, <4>6 DEF Contract!Next
    <3> QED  BY <3>2, <3>3
  <2>5. CASE ServeCall
    <3>1. PICK left \in Remainders(call) : Serve(call, left)  BY <2>5 DEF ServeCall
    <3>2. call \in Running /\ call \in Job  BY <2>1, <2>5 DEF ServeCall, Running, TypeOK
    <3>3. UNCHANGED <<sent, confirmed>>  BY <2>5 DEF ServeCall
    <3> QED  BY <2>1, <3>1, <3>2, <3>3, ServedIsIntake DEF JobsOK, SourcesOK
  <2>6. ASSUME NEW j \in orphans, ServeOrphan(j) PROVE Contract!Next
    <3>1. PICK left \in Remainders(j) : Serve(j, left)  BY <2>6 DEF ServeOrphan
    <3>2. j \in Running /\ j \in Job  BY <2>1 DEF Running, TypeOK
    <3>3. UNCHANGED <<sent, confirmed>>  BY <2>6 DEF ServeOrphan
    <3> QED  BY <2>1, <3>1, <3>2, <3>3, ServedIsIntake DEF JobsOK, SourcesOK
  <2>7. CASE UNCHANGED <<sent, confirmed, board, made, receipts, voices>>
    BY <2>7 DEF Contract!vars
  <2>8. \/ \E u \in Updates : Send(u)
        \/ \E t \in board : DeleteTask(t)
        \/ GetUpdates \/ ServeCall \/ \E j \in orphans : ServeOrphan(j)
        \/ UNCHANGED <<sent, confirmed, board, made, receipts, voices>>
    BY DEF Next, AdapterStep, Start, EndOfBatch, ProcessUpdate, RecordDecision, UpdateDone,
         Truncate, WriteOffset, RemoveFile, DropOrphan, Die, VoiceFails, vars, server
  <2> QED  BY <2>2, <2>3, <2>4, <2>5, <2>6, <2>7, <2>8
<1> QED  BY <1>1, <1>2, Invariance, Provenance, PTL DEF Spec, ImplementsIntake, Contract!Spec

=============================================================================
