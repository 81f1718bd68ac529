--------------------------- MODULE Business_proofs ---------------------------
(***************************************************************************)
(* Theorems about Business, for any number of messages, updates, faults    *)
(* and minutes.                                                            *)
(***************************************************************************)
EXTENDS Business, FiniteSetTheorems, SequenceTheorems, TLAPS

-----------------------------------------------------------------------------
(* Which items the adapter has in hand at each step of its loop. *)

PhaseOK ==
  /\ pc \in {"take", "accept", "skip", "card", "receipt"} => item \in Items
  /\ left <= Len(queue) /\ Len(queue) <= sends
  /\ pc \in {"take", "accept", "skip", "move"} => left > 0

(* A card is on its way only to an item without a receipt, and an item     *)
(* that was shown has its receipt unless a fault hit it.                   *)
CardsOK ==
  /\ pc = "card" => receipts[item] = "none"
  /\ \A i \in Items : cards[i] > 0 =>
       \/ receipts[i] # "none"
       \/ i \in slipped
       \/ pc = "receipt" /\ item = i
-----------------------------------------------------------------------------
(* New messages have greater ids than everything that was sent before:     *)
(* those in the queue are above all that the state and the file hold, and  *)
(* above the updates before them. The update that was just processed is    *)
(* the one exception, it is in the state and still in the queue.           *)
Above(n, s) == s.through < n /\ \A i \in s.messages : i[1] < n

Texted(u) == u.kind \in {"message", "edited"}

QueueOK ==
  /\ Above(latest + 1, state) /\ Above(latest + 1, disk)
  /\ \A k \in 1..Len(queue) : Texted(queue[k]) => queue[k].msg < latest + 1
  /\ \A k \in 1..Len(queue) : queue[k].kind = "message" =>
       /\ Above(queue[k].msg, disk)
       /\ (k = 1 /\ pc = "move") \/ Above(queue[k].msg, state)
       /\ \A j \in 1..(k - 1) : Texted(queue[j]) => queue[j].msg < queue[k].msg

-----------------------------------------------------------------------------
(* The types of what the actions build. *)
LEMMA FieldTypes ==
  ASSUME NEW s \in State
  PROVE  /\ s.messages \subseteq Items /\ s.through \in Nat /\ s.failures \in 0..2
         /\ s.suggested \subseteq Msgs /\ s.candidates \subseteq Items
  BY DEF State

LEMMA WithMessages ==
  ASSUME NEW s \in State, NEW x \in SUBSET Items, NEW t, t = [s EXCEPT !.messages = x]
  PROVE  /\ t \in State
         /\ t.messages = x /\ t.through = s.through /\ t.failures = s.failures
         /\ t.suggested = s.suggested /\ t.candidates = s.candidates
  BY DEF State

LEMMA WithFailures ==
  ASSUME NEW s \in State, NEW x \in 0..2, NEW t, t = [s EXCEPT !.failures = x]
  PROVE  /\ t \in State
         /\ t.messages = s.messages /\ t.through = s.through
         /\ t.suggested = s.suggested /\ t.candidates = s.candidates
  BY DEF State

LEMMA WithThrough ==
  ASSUME NEW s \in State, NEW x \in Nat, NEW t,
         t = [s EXCEPT !.through = x, !.failures = 0]
  PROVE  /\ t \in State
         /\ t.messages = s.messages /\ t.through = x
         /\ t.suggested = s.suggested /\ t.candidates = s.candidates
  <1>1. t = [messages |-> s.messages, through |-> x, failures |-> 0,
             suggested |-> s.suggested, candidates |-> s.candidates]
    BY DEF State
  <1>2. QED
    BY <1>1 DEF State

LEMMA WithSuggested ==
  ASSUME NEW s \in State, NEW x \in SUBSET Msgs, NEW t, t = [s EXCEPT !.suggested = x]
  PROVE  /\ t \in State
         /\ t.messages = s.messages /\ t.through = s.through
         /\ t.candidates = s.candidates /\ t.suggested = x
  BY DEF State

LEMMA WithCandidates ==
  ASSUME NEW s \in State, NEW x \in SUBSET Items, NEW t, t = [s EXCEPT !.candidates = x]
  PROVE  /\ t \in State
         /\ t.messages = s.messages /\ t.through = s.through
         /\ t.candidates = x /\ t.suggested = s.suggested
  BY DEF State

LEMMA WithCard ==
  ASSUME NEW s \in State, NEW x \in SUBSET Items, NEW y \in SUBSET Msgs, NEW t,
         t = [s EXCEPT !.candidates = x, !.suggested = y]
  PROVE  /\ t \in State
         /\ t.messages = s.messages /\ t.through = s.through
         /\ t.candidates = x
  BY DEF State

LEMMA FreshType == Fresh \in State
  BY DEF Fresh, State

LEMMA ItemParts ==
  ASSUME NEW i \in Items
  PROVE  i[1] \in Msgs /\ i[1] \in Nat
  BY BusinessAssumption DEF Items

LEMMA HeadType ==
  ASSUME TypeOK, queue # << >>
  PROVE  /\ Head(queue) \in Update
         /\ <<Head(queue).msg, Head(queue).text>> \in Items
         /\ Tail(queue) \in Seq(Update) /\ Len(Tail(queue)) = Len(queue) - 1
  <1>1. queue \in Seq(Update)
    BY DEF TypeOK
  <1>2. Head(queue) \in Update /\ Tail(queue) \in Seq(Update) /\ Len(Tail(queue)) = Len(queue) - 1
    BY <1>1, HeadTailProperties
  <1>3. QED
    BY <1>2 DEF Update, Items

LEMMA HaveUpdate ==
  ASSUME TypeOK, PhaseOK, left > 0
  PROVE  queue # << >>
  BY BusinessAssumption DEF TypeOK, PhaseOK

LEMMA AllFaults ==
  ASSUME TypeOK, Fault \/ NoFault
  PROVE  faults' \in 0..MaxFaults
  BY BusinessAssumption DEF TypeOK, Fault, NoFault

LEMMA PassType ==
  ASSUME TypeOK, PassPending
  PROVE  /\ state' \in State /\ read' \subseteq Items
         /\ \E n \in Nat : /\ \A i \in Pending(state) : i[1] <= n
                           /\ state' = [state EXCEPT !.through = n, !.failures = 0]
  <1>1. PICK n \in Msgs : /\ \A i \in Pending(state) : i[1] <= n
                          /\ state' = [state EXCEPT !.through = n, !.failures = 0]
    BY DEF PassPending
  <1>2. n \in Nat
    BY BusinessAssumption
  <1>3. state \in State /\ state' \in State
    BY <1>1, <1>2, WithThrough DEF TypeOK
  <1>4. read' \subseteq Items
    BY <1>3, FieldTypes DEF PassPending, TypeOK, Pending
  <1>5. QED
    BY <1>1, <1>2, <1>3, <1>4

-----------------------------------------------------------------------------
LEMMA ProcessTyped ==
  ASSUME TypeOK, PhaseOK, ProcessUpdate
  PROVE  /\ state' \in State
         /\ item' \in Items \cup {NoItem}
         /\ pc' \in {"move", "take", "skip"}
         /\ pc' \in {"take", "skip"} => item' \in Items
  <1> DEFINE u == Head(queue)
  <1>1. u \in Update /\ <<u.msg, u.text>> \in Items
    BY HaveUpdate, HeadType DEF ProcessUpdate, TypeOK, PhaseOK
  <1>2. /\ state \in State /\ item \in Items \cup {NoItem}
        /\ state.messages \subseteq Items /\ state.candidates \subseteq Items
    BY FieldTypes DEF TypeOK
  <1>3. CASE BufferMessage(u)
    <2>1. Trim(Put(state.messages, <<u.msg, u.text>>)) \subseteq Items
      BY <1>1, <1>2 DEF Trim, Put
    <2>2. state' \in State
      BY <1>2, <1>3, <2>1, WithMessages DEF BufferMessage
    <2>3. QED
      BY <1>2, <1>3, <2>2 DEF BufferMessage
  <1>4. CASE DropMessages(u)
    <2>1. {i \in state.messages : i[1] # u.msg} \subseteq Items
      BY <1>2
    <2>2. state' \in State
      BY <1>2, <1>4, <2>1, WithMessages DEF DropMessages
    <2>3. QED
      BY <1>2, <1>4, <2>2 DEF DropMessages
  <1>5. CASE Press(u)
    BY <1>2, <1>5 DEF Press
  <1>6. QED
    BY <1>3, <1>4, <1>5 DEF ProcessUpdate

LEMMA CheckTyped ==
  ASSUME TypeOK, NEW i \in todo, CheckCandidate(i)
  PROVE  /\ state' \in State
         /\ i \in Items
         /\ item' \in Items \cup {NoItem}
         /\ pc' \in {"check", "card"}
         /\ pc' = "card" => item' = i
         /\ Fault \/ NoFault
  <1>1. i \in Items /\ i[1] \in Msgs /\ state \in State /\ item \in Items \cup {NoItem}
    BY ItemParts DEF TypeOK
  <1>2. state.suggested \cup {i[1]} \subseteq Msgs
    BY <1>1, FieldTypes
  <1>3. state' \in State
    BY <1>1, <1>2, WithSuggested DEF CheckCandidate
  <1>4. QED
    BY <1>1, <1>3 DEF CheckCandidate

LEMMA NextTyped ==
  ASSUME TypeOK, PhaseOK, [Next]_vars
  PROVE  TypeOK'
<1> USE DEF telegram, adapter, server, history
<1>1. ASSUME NEW u \in Updates, Send(u) PROVE TypeOK'
  <2>1. u \in Update /\ u.msg \in Nat
    BY BusinessAssumption DEF Update
  <2>2. queue' \in Seq(Update) /\ Len(queue') = Len(queue) + 1 /\ latest' \in Nat
    BY <1>1, <2>1 DEF Send, TypeOK
  <2>3. sends' \in 0..MaxUpdates /\ Len(queue') <= MaxUpdates
    BY <1>1, <2>2, BusinessAssumption DEF Send, TypeOK, PhaseOK
  <2>4. QED
    BY <1>1, <2>2, <2>3 DEF Send, TypeOK
<1>2. CASE Start
  BY <1>2 DEF Start, TypeOK
<1>3. CASE GetUpdates
  <2>1. Len(queue) \in 0..MaxUpdates
    BY BusinessAssumption DEF TypeOK
  <2>2. QED
    BY <1>3, <2>1 DEF GetUpdates, TypeOK
<1>4. CASE ProcessUpdate
  BY <1>4, ProcessTyped DEF ProcessUpdate, TypeOK
<1>5. CASE IngestCandidate \/ IngestFails
  <2>1. item \in Items /\ minute' \in 1..MaxMinutes
    BY <1>5, BusinessAssumption DEF IngestCandidate, IngestFails, LookAtClock, TypeOK, PhaseOK
  <2>2. tasks' \subseteq Items \X (1..MaxMinutes)
    BY <1>5, <2>1 DEF IngestCandidate, IngestFails, Ingested, TypeOK
  <2>3. faults' \in 0..MaxFaults
    BY <1>5, AllFaults DEF IngestCandidate, IngestFails, NoFault
  <2>4. QED
    BY <1>5, <2>1, <2>2, <2>3 DEF IngestCandidate, IngestFails, Kept, TypeOK
<1>6. CASE RecordAnswer
  <2>1. item \in Items /\ Answer \in Decisions
    BY <1>6 DEF RecordAnswer, PhaseOK, Answer, Decisions
  <2>2. receipts' \in [Items -> Decisions]
    BY <1>6, <2>1 DEF RecordAnswer, TypeOK
  <2>3. state' \in State
    BY <1>6, FieldTypes, WithCandidates DEF RecordAnswer, Answered, TypeOK
  <2>4. faults' \in 0..MaxFaults
    BY <1>6, AllFaults DEF RecordAnswer
  <2>5. QED
    BY <1>6, <2>1, <2>2, <2>3, <2>4 DEF RecordAnswer, TypeOK
<1>7. CASE WriteOffset
  <2>1. left > 0 /\ left' \in 0..MaxUpdates
    BY <1>7, BusinessAssumption DEF WriteOffset, PhaseOK, TypeOK
  <2>2. queue' \in Seq(Update) /\ Len(queue') <= MaxUpdates
    BY <1>7, <2>1, HaveUpdate, HeadType, BusinessAssumption DEF WriteOffset, TypeOK
  <2>3. QED
    BY <1>7, <2>1, <2>2 DEF WriteOffset, TypeOK
<1>8. CASE EndOfBatch \/ NotDue \/ CandidatesDone
  BY <1>8 DEF EndOfBatch, NotDue, CandidatesDone, TypeOK
<1>9. CASE AnalysisFails
  <2>1. CASE GivesUp
    BY <1>9, <2>1, PassType DEF AnalysisFails, TypeOK
  <2>2. CASE ~ GivesUp
    <3>1. Failures \in 0..2 /\ state \in State
      BY <2>2, FieldTypes DEF GivesUp, Failures, TypeOK
    <3>2. state' \in State
      BY <1>9, <2>2, <3>1, WithFailures DEF AnalysisFails
    <3>3. QED
      BY <1>9, <2>2, <3>2 DEF AnalysisFails, TypeOK
  <2>3. QED
    BY <2>1, <2>2
<1>10. CASE AnalysisReads
  <2>1. state' \in State /\ read' \subseteq Items
    BY <1>10, PassType DEF AnalysisReads
  <2>2. todo' \subseteq Items
    BY <1>10, FieldTypes DEF AnalysisReads, Pending, TypeOK
  <2>3. QED
    BY <1>10, <2>1, <2>2 DEF AnalysisReads, TypeOK
<1>11. ASSUME NEW i \in todo, CheckCandidate(i) PROVE TypeOK'
  <2>1. faults' \in 0..MaxFaults
    BY <1>11, CheckTyped, AllFaults
  <2>2. QED
    BY <1>11, <2>1, CheckTyped DEF CheckCandidate, TypeOK
<1>12. CASE SendCard
  <2>1. item \in Items /\ item[1] \in Msgs
    BY <1>12, ItemParts DEF SendCard, PhaseOK
  <2>2. cards' \in [Items -> Nat]
    BY <1>12, <2>1 DEF SendCard, Shown, TypeOK
  <2>3. Put(state.candidates, item) \subseteq Items /\ state.suggested \cup {item[1]} \subseteq Msgs
    BY <2>1, FieldTypes DEF Put, TypeOK
  <2>4. state' \in State
    BY <1>12, <2>3, WithCard DEF SendCard, TypeOK
  <2>5. QED
    BY <1>12, <2>1, <2>2, <2>4 DEF SendCard, TypeOK
<1>13. CASE CardFails
  <2>1. item \in Items
    BY <1>13 DEF CardFails, PhaseOK
  <2>2. cards' \in [Items -> Nat]
    BY <1>13, <2>1 DEF CardFails, Shown, TypeOK
  <2>3. faults' \in 0..MaxFaults
    BY <1>13, AllFaults DEF CardFails
  <2>4. QED
    BY <1>13, <2>1, <2>2, <2>3 DEF CardFails, TypeOK
<1>14. CASE RecordReview
  <2>1. item \in Items
    BY <1>14 DEF RecordReview, PhaseOK
  <2>2. receipts' \in [Items -> Decisions]
    BY <1>14, <2>1 DEF RecordReview, Decisions, TypeOK
  <2>3. faults' \in 0..MaxFaults
    BY <1>14, AllFaults DEF RecordReview
  <2>4. QED
    BY <1>14, <2>1, <2>2, <2>3 DEF RecordReview, TypeOK
<1>15. CASE Save
  BY <1>15 DEF Save, TypeOK
<1>16. CASE Die
  <2>1. faults' \in 0..MaxFaults /\ 0 \in 0..MaxUpdates
    BY <1>16, AllFaults, BusinessAssumption DEF Die
  <2>2. slipped' \subseteq Items
    BY <1>16 DEF Die, PhaseOK, TypeOK
  <2>3. QED
    BY <1>16, <2>1, <2>2, FreshType DEF Die, TypeOK
<1>17. CASE LoseFile
  <2>1. faults' \in 0..MaxFaults
    BY <1>17, AllFaults DEF LoseFile
  <2>2. QED
    BY <1>17, <2>1, FreshType DEF LoseFile, TypeOK
<1>18. CASE UNCHANGED vars
  BY <1>18 DEF vars, TypeOK
<1>19. QED
  BY <1>1, <1>2, <1>3, <1>4, <1>5, <1>6, <1>7, <1>8, <1>9, <1>10, <1>11, <1>12,
     <1>13, <1>14, <1>15, <1>16, <1>17, <1>18 DEF Next, AdapterStep, Analyze

LEMMA NextPhase ==
  ASSUME TypeOK, TypeOK', PhaseOK, [Next]_vars
  PROVE  PhaseOK'
<1> USE DEF telegram, adapter, server, history
<1>0. queue \in Seq(Update) /\ Len(queue) \in Nat /\ left \in Nat /\ sends \in Nat
  BY BusinessAssumption DEF TypeOK
<1>1. ASSUME NEW u \in Updates, Send(u) PROVE PhaseOK'
  <2>1. Len(queue') = Len(queue) + 1 /\ sends' = sends + 1
    BY <1>1, <1>0 DEF Send
  <2>2. UNCHANGED <<pc, item, left>>
    BY <1>1 DEF Send
  <2>3. QED
    BY <1>0, <2>1, <2>2 DEF PhaseOK
<1>2. CASE Start
  BY <1>2 DEF Start, PhaseOK
<1>3. CASE GetUpdates
  BY <1>3, <1>0 DEF GetUpdates, PhaseOK
<1>4. CASE ProcessUpdate
  BY <1>4, ProcessTyped DEF ProcessUpdate, PhaseOK
<1>5. CASE IngestCandidate \/ IngestFails
  BY <1>5 DEF IngestCandidate, IngestFails, PhaseOK
<1>6. CASE RecordAnswer
  BY <1>6 DEF RecordAnswer, PhaseOK
<1>7. CASE WriteOffset
  <2>1. left > 0 /\ Len(queue') = Len(queue) - 1
    BY <1>7, HaveUpdate, HeadType DEF WriteOffset, PhaseOK
  <2>2. QED
    BY <1>0, <1>7, <2>1 DEF WriteOffset, PhaseOK
<1>8. CASE EndOfBatch \/ NotDue \/ CandidatesDone
  BY <1>8 DEF EndOfBatch, NotDue, CandidatesDone, PhaseOK
<1>9. CASE AnalysisFails \/ AnalysisReads
  BY <1>9 DEF AnalysisFails, AnalysisReads, PhaseOK
<1>11. ASSUME NEW i \in todo, CheckCandidate(i) PROVE PhaseOK'
  <2>1. queue' = queue /\ left' = left /\ sends' = sends
    BY <1>11 DEF CheckCandidate
  <2>2. QED
    BY <1>11, <2>1, CheckTyped DEF PhaseOK
<1>12. CASE SendCard \/ CardFails \/ RecordReview
  BY <1>12 DEF SendCard, CardFails, RecordReview, PhaseOK
<1>15. CASE Save
  BY <1>15 DEF Save, PhaseOK
<1>16. CASE Die
  BY <1>16, <1>0 DEF Die, PhaseOK
<1>17. CASE LoseFile
  BY <1>17 DEF LoseFile, PhaseOK
<1>18. CASE UNCHANGED vars
  BY <1>18 DEF vars, PhaseOK
<1>19. QED
  BY <1>1, <1>2, <1>3, <1>4, <1>5, <1>6, <1>7, <1>8, <1>9, <1>11, <1>12,
     <1>15, <1>16, <1>17, <1>18 DEF Next, AdapterStep, Analyze

-----------------------------------------------------------------------------
(* Receipts stay, and a card is counted when it is sent. *)
LEMMA CardStep ==
  ASSUME TypeOK, PhaseOK, [Next]_vars
  PROVE  /\ \A i \in Items : receipts[i] # "none" => receipts'[i] # "none"
         /\ \A i \in Items : cards'[i] # cards[i] =>
              pc = "card" /\ i = item /\ cards'[i] = cards[i] + 1
         /\ slipped \subseteq slipped'
<1> USE DEF telegram, adapter, server, history
<1>1. CASE RecordAnswer
  <2>1. item \in Items /\ Answer # "none"
    BY <1>1 DEF RecordAnswer, PhaseOK, Answer
  <2>2. QED
    BY <1>1, <2>1 DEF RecordAnswer, TypeOK
<1>2. CASE RecordReview
  <2>1. item \in Items
    BY <1>2 DEF RecordReview, PhaseOK
  <2>2. QED
    BY <1>2, <2>1 DEF RecordReview, TypeOK
<1>3. CASE SendCard \/ CardFails
  <2>1. item \in Items
    BY <1>3 DEF SendCard, CardFails, PhaseOK
  <2>2. QED
    BY <1>3, <2>1 DEF SendCard, CardFails, Shown, TypeOK
<1>4. CASE Die
  BY <1>4 DEF Die
<1>5. CASE UNCHANGED <<receipts, cards, slipped>>
  BY <1>5
<1>6. QED
  BY <1>1, <1>2, <1>3, <1>4, <1>5 DEF Next, AdapterStep, Analyze, Send, Start,
     GetUpdates, ProcessUpdate, IngestCandidate, IngestFails, WriteOffset, EndOfBatch,
     NotDue, AnalysisFails, AnalysisReads, CheckCandidate, CandidatesDone, Save,
     LoseFile, vars

LEMMA NextCards ==
  ASSUME TypeOK, TypeOK', PhaseOK, CardsOK, [Next]_vars
  PROVE  CardsOK'
<1> USE DEF telegram, adapter, server, history
<1>1. ASSUME pc' = "card" PROVE receipts'[item'] = "none"
  <2>1. CASE pc = "card" /\ UNCHANGED <<pc, item, receipts>>
    BY <2>1 DEF CardsOK
  <2>2. CASE \E i \in todo : CheckCandidate(i)
    BY <1>1, <2>2 DEF CheckCandidate, ShouldProcess, CardsOK
  <2>3. QED
    BY <1>1, <2>1, <2>2, ProcessTyped DEF Next, AdapterStep, Analyze, Send, Start, GetUpdates,
       ProcessUpdate, IngestCandidate, IngestFails, RecordAnswer, WriteOffset, EndOfBatch,
       NotDue, AnalysisFails, AnalysisReads, CandidatesDone, SendCard, CardFails,
       RecordReview, Save, Die, LoseFile, vars
<1>2. ASSUME NEW i \in Items, cards'[i] > 0
      PROVE  receipts'[i] # "none" \/ i \in slipped' \/ (pc' = "receipt" /\ item' = i)
  <2>1. CASE receipts[i] # "none" \/ i \in slipped
    BY <2>1, CardStep
  <2>2. CASE pc = "card" /\ i = item
    BY <1>2, <2>2 DEF Next, AdapterStep, Analyze, Send, Start, GetUpdates, ProcessUpdate,
       IngestCandidate, IngestFails, RecordAnswer, WriteOffset, EndOfBatch, NotDue,
       AnalysisFails, AnalysisReads, CheckCandidate, CandidatesDone, SendCard, CardFails,
       RecordReview, Save, Die, LoseFile, vars, CardsOK
  <2>3. CASE pc = "receipt" /\ i = item
    BY <1>2, <2>3 DEF Next, AdapterStep, Analyze, Send, Start, GetUpdates, ProcessUpdate,
       IngestCandidate, IngestFails, RecordAnswer, WriteOffset, EndOfBatch, NotDue,
       AnalysisFails, AnalysisReads, CheckCandidate, CandidatesDone, SendCard, CardFails,
       RecordReview, Save, Die, LoseFile, vars, TypeOK
  <2>4. CASE cards'[i] = cards[i]
    BY <1>2, <2>1, <2>3, <2>4 DEF CardsOK
  <2>5. QED
    BY <2>2, <2>4, CardStep
<1>3. QED
  BY <1>1, <1>2 DEF CardsOK

LEMMA NextCardTwice ==
  ASSUME TypeOK, PhaseOK, CardsOK, CardTwiceNeedsSlip, [Next]_vars
  PROVE  CardTwiceNeedsSlip'
<1>1. SUFFICES ASSUME NEW i \in Items, cards'[i] > 1 PROVE i \in slipped'
  BY DEF CardTwiceNeedsSlip
<1>2. CASE cards'[i] = cards[i]
  BY <1>1, <1>2, CardStep DEF CardTwiceNeedsSlip
<1>3. CASE cards'[i] # cards[i]
  <2>1. pc = "card" /\ i = item /\ cards'[i] = cards[i] + 1 /\ cards[i] \in Nat
    BY <1>3, CardStep DEF TypeOK
  <2>2. cards[i] > 0
    BY <1>1, <2>1
  <2>3. QED
    BY <2>1, <2>2, CardStep DEF CardsOK
<1>4. QED
  BY <1>2, <1>3

-----------------------------------------------------------------------------
(* A state that holds no id above those of another one. *)
Within(s, t) == \A n \in Nat : Above(n, t) => Above(n, s)

LEMMA QueueTypes ==
  ASSUME TypeOK, NEW k \in 1..Len(queue)
  PROVE  queue[k] \in Update /\ queue[k].msg \in Nat \ {0}
<1>1. queue[k] \in Update
  BY ElementOfSeq DEF TypeOK
<1>2. QED
  BY <1>1, BusinessAssumption DEF Update

LEMMA FreshWithin ==
  ASSUME NEW n \in Nat \ {0}
  PROVE  Above(n, Fresh)
  BY DEF Above, Fresh

(* The state and the file change without a new id, between two updates. *)
LEMMA QueueStays ==
  ASSUME TypeOK, QueueOK, UNCHANGED <<queue, latest>>, pc # "move",
         Within(state', state), disk' \in {disk, state}
  PROVE  QueueOK'
<1>1. \A n \in Nat : Above(n, state) => Above(n, state')
  BY DEF Within
<1>2. Above(latest' + 1, state') /\ Above(latest' + 1, disk')
  BY <1>1 DEF QueueOK, TypeOK
<1>3. ASSUME NEW k \in 1..Len(queue), queue[k].kind = "message"
      PROVE  Above(queue[k].msg, state') /\ Above(queue[k].msg, disk')
  BY <1>1, <1>3, QueueTypes DEF QueueOK
<1>4. QED
  BY <1>2, <1>3 DEF QueueOK, Above, Texted

(* The state starts from nothing, or the file does. *)
LEMMA QueueRestarts ==
  ASSUME TypeOK, QueueOK, UNCHANGED <<queue, latest>>,
         \/ state' = Fresh /\ disk' = disk
         \/ state' = state /\ disk' = Fresh /\ pc' = pc
  PROVE  QueueOK'
<1>1. Above(latest' + 1, state') /\ Above(latest' + 1, disk')
  BY FreshWithin DEF QueueOK, TypeOK
<1>2. ASSUME NEW k \in 1..Len(queue), queue[k].kind = "message"
      PROVE  /\ Above(queue[k].msg, disk')
             /\ (k = 1 /\ pc' = "move") \/ Above(queue[k].msg, state')
  BY <1>2, QueueTypes, FreshWithin DEF QueueOK
<1>3. QED
  BY <1>1, <1>2 DEF QueueOK, Above, Texted

LEMMA QueueUnchanged ==
  ASSUME QueueOK, UNCHANGED <<queue, latest, state, disk>>, pc = "move" => pc' = "move"
  PROVE  QueueOK'
  BY DEF QueueOK, Above, Texted

LEMMA ProcessQueue ==
  ASSUME TypeOK, PhaseOK, QueueOK, ProcessUpdate
  PROVE  QueueOK'
<1> DEFINE u == Head(queue)
<1> USE DEF telegram, server, history
<1>1. queue # << >> /\ u = queue[1] /\ 1 \in 1..Len(queue)
  BY HaveUpdate DEF ProcessUpdate, TypeOK, PhaseOK
<1>2. /\ state \in State /\ UNCHANGED <<queue, latest, disk>> /\ pc # "move"
      /\ u \in Update /\ <<u.msg, u.text>> \in Items
  BY <1>1, HeadType DEF ProcessUpdate, TypeOK
<1>3. CASE BufferMessage(u) /\ ~ Reopens(u)
  <2> DEFINE after == Trim(Put(state.messages, <<u.msg, u.text>>))
  <2>1. after \subseteq Items
    BY <1>2, FieldTypes DEF Trim, Put
  <2>2. state'.messages = after /\ state'.through = state.through
    BY <1>2, <1>3, <2>1, WithMessages DEF BufferMessage
  <2>3. after \subseteq state.messages \cup {<<u.msg, u.text>>}
    BY DEF Trim, Put
  <2>4. \A n \in Nat : Above(n, state) /\ u.msg < n => Above(n, state')
    BY <2>2, <2>3 DEF Above
  <2>5. u.msg < latest + 1
    BY <1>1, <1>3 DEF QueueOK, BufferMessage, Texted
  <2>6. Above(latest' + 1, state') /\ Above(latest' + 1, disk')
    BY <1>2, <2>4, <2>5 DEF QueueOK, TypeOK
  <2>7. ASSUME NEW k \in 1..Len(queue), queue[k].kind = "message", k # 1
        PROVE  Above(queue[k].msg, state')
    <3>1. 1 \in 1..(k - 1) /\ u.msg < queue[k].msg
      BY <1>1, <1>3, <2>7 DEF QueueOK, BufferMessage, Texted
    <3>2. Above(queue[k].msg, state)
      BY <2>7 DEF QueueOK
    <3>3. QED
      BY <2>4, <3>1, <3>2, QueueTypes
  <2>8. pc' = "move"
    BY <1>3 DEF BufferMessage
  <2>9. QED
    BY <1>2, <2>6, <2>7, <2>8 DEF QueueOK, Above, Texted
<1>4. CASE DropMessages(u)
  <2>1. {i \in state.messages : i[1] # u.msg} \in SUBSET Items
    BY <1>2, FieldTypes
  <2>2. /\ state'.messages = {i \in state.messages : i[1] # u.msg}
        /\ state'.through = state.through
    BY <1>2, <1>4, <2>1, WithMessages DEF DropMessages
  <2>3. Within(state', state)
    BY <2>2 DEF Within, Above
  <2>4. QED
    BY <1>2, <2>3, QueueStays
<1>5. CASE state' = state
  BY <1>2, <1>5, QueueUnchanged
<1>6. QED
  BY <1>3, <1>4, <1>5 DEF ProcessUpdate, BufferMessage, Press

LEMMA StillBelow ==
  ASSUME NEW x \in Nat, NEW y \in Nat, x <= y, NEW n \in Nat, n < x + 1
  PROVE  n < y + 1
  OBVIOUS

LEMMA SendQueue ==
  ASSUME TypeOK, QueueOK, NEW u \in Updates, Send(u)
  PROVE  QueueOK'
<1> USE DEF adapter
<1>1. /\ UNCHANGED <<pc, state, disk>>
      /\ Len(queue') = Len(queue) + 1 /\ Len(queue) \in Nat
      /\ queue'[Len(queue) + 1] = u
      /\ \A k \in 1..Len(queue) : queue'[k] = queue[k]
  BY DEF Send, TypeOK
<1>2. /\ latest \in Nat /\ u.msg \in Nat /\ latest' \in Nat /\ latest <= latest'
      /\ u.kind = "message" => u.msg = latest + 1 /\ latest' = latest + 1
      /\ u.kind = "edited" => u.msg <= latest /\ latest' = latest
  <2>1. u \in Update /\ latest \in Nat
    BY BusinessAssumption DEF TypeOK
  <2>2. u.msg \in Nat
    BY <2>1, BusinessAssumption DEF Update
  <2>3. CASE u.kind = "message"
    <3>1. u.msg = latest + 1 /\ latest' = u.msg
      BY <2>3 DEF Send
    <3>2. QED
      BY <2>1, <2>2, <2>3, <3>1
  <2>4. CASE u.kind = "edited"
    <3>1. u.msg <= latest /\ latest' = latest
      BY <2>4 DEF Send
    <3>2. QED
      BY <2>1, <2>2, <2>4, <3>1
  <2>5. CASE u.kind \notin {"message", "edited"}
    <3>1. latest' = latest
      BY <2>5 DEF Send
    <3>2. QED
      BY <2>1, <2>2, <2>5, <3>1
  <2>6. QED
    BY <2>3, <2>4, <2>5
<1>3. \A n \in Nat : n < latest + 1 => n < latest' + 1
  <2>1. latest \in Nat /\ latest' \in Nat /\ latest <= latest'
    BY <1>2
  <2>2. QED
    BY <2>1, StillBelow
<1>4. state \in State /\ disk \in State
  BY DEF TypeOK
<1>5. Above(latest' + 1, state') /\ Above(latest' + 1, disk')
  <2>1. \A s \in State : Above(latest + 1, s) => Above(latest' + 1, s)
    BY <1>3, FieldTypes, ItemParts DEF Above
  <2>2. QED
    BY <1>1, <1>4, <2>1 DEF QueueOK
<1>6. \A k \in 1..Len(queue) : Texted(queue[k]) => queue[k].msg < latest + 1 /\ queue[k].msg < latest' + 1
  BY <1>3, QueueTypes DEF QueueOK
<1>7. ASSUME NEW k \in 1..Len(queue')
      PROVE  /\ Texted(queue'[k]) => queue'[k].msg < latest' + 1
             /\ queue'[k].kind = "message" =>
                  /\ Above(queue'[k].msg, disk')
                  /\ (k = 1 /\ pc' = "move") \/ Above(queue'[k].msg, state')
                  /\ \A j \in 1..(k - 1) : Texted(queue'[j]) => queue'[j].msg < queue'[k].msg
  <2>1. CASE k \in 1..Len(queue)
    <3>1. \A j \in 1..(k - 1) : j \in 1..Len(queue)
      BY <1>1, <2>1
    <3>2. QED
      BY <1>1, <1>6, <2>1, <3>1 DEF QueueOK
  <2>2. CASE k = Len(queue) + 1
    <3>1. queue'[k] = u /\ 1..(k - 1) = 1..Len(queue)
      BY <1>1, <2>2
    <3>2. Texted(u) => u.msg < latest' + 1
      BY <1>2 DEF Texted
    <3>3. u.kind = "message" => Above(u.msg, disk') /\ Above(u.msg, state')
      BY <1>1, <1>2 DEF QueueOK
    <3>4. QED
      BY <1>1, <1>2, <1>6, <3>1, <3>2, <3>3
  <2>3. QED
    BY <1>1, <2>1, <2>2
<1>8. QED
  BY <1>5, <1>7 DEF QueueOK, Above, Texted

LEMMA OffsetQueue ==
  ASSUME TypeOK, PhaseOK, QueueOK, WriteOffset
  PROVE  QueueOK'
<1>1. /\ queue # << >> /\ Len(queue') = Len(queue) - 1 /\ Len(queue) \in Nat
      /\ \A k \in 1..Len(queue') : k + 1 \in 1..Len(queue) /\ queue'[k] = queue[k + 1]
  BY HaveUpdate, HeadTailProperties DEF WriteOffset, TypeOK, PhaseOK
<1>2. UNCHANGED <<state, disk, latest>> /\ pc' # "move"
  BY DEF WriteOffset
<1>3. ASSUME NEW k \in 1..Len(queue')
      PROVE  /\ Texted(queue'[k]) => queue'[k].msg < latest + 1
             /\ queue'[k].kind = "message" =>
                  /\ Above(queue'[k].msg, disk)
                  /\ Above(queue'[k].msg, state)
                  /\ \A j \in 1..(k - 1) : Texted(queue'[j]) => queue'[j].msg < queue'[k].msg
  <2>1. k + 1 \in 1..Len(queue) /\ queue'[k] = queue[k + 1] /\ k + 1 # 1
    BY <1>1
  <2>2. ASSUME NEW j \in 1..(k - 1)
        PROVE  j + 1 \in 1..((k + 1) - 1) /\ queue'[j] = queue[j + 1]
    BY <1>1, <2>2
  <2>3. QED
    BY <2>1, <2>2 DEF QueueOK
<1>4. QED
  BY <1>2, <1>3 DEF QueueOK, Above, Texted

LEMMA PassWithin ==
  ASSUME TypeOK, PassPending
  PROVE  Within(state', state)
<1>1. PICK n \in Msgs : /\ \E i \in Pending(state) : i[1] = n
                        /\ state' = [state EXCEPT !.through = n, !.failures = 0]
  BY DEF PassPending
<1>2. n \in Nat /\ state \in State
  BY BusinessAssumption DEF TypeOK
<1>3. state'.through = n /\ state'.messages = state.messages
  BY <1>1, <1>2, WithThrough
<1>4. QED
  BY <1>1, <1>3 DEF Within, Above, Pending

LEMMA CardSent ==
  ASSUME state \in State, SendCard
  PROVE  /\ state'.messages = state.messages /\ state'.through = state.through
         /\ state'.candidates = Put(state.candidates, item)
         /\ state'.suggested = state.suggested \cup {item[1]}
<1> DEFINE c == Put(state.candidates, item)
           d == state.suggested \cup {item[1]}
<1>1. state' = [state EXCEPT !.candidates = c, !.suggested = d]
  BY DEF SendCard
<1> HIDE DEF c, d
<1>2. state' = [messages |-> state.messages, through |-> state.through,
                failures |-> state.failures, suggested |-> d, candidates |-> c]
  BY <1>1 DEF State
<1>3. QED
  BY <1>2 DEF c, d

LEMMA NextQueue ==
  ASSUME TypeOK, PhaseOK, QueueOK, [Next]_vars
  PROVE  QueueOK'
<1> USE DEF telegram, adapter, server, history
<1>1. state \in State
  BY DEF TypeOK
<1>2. ASSUME NEW u \in Updates, Send(u) PROVE QueueOK'
  BY <1>2, SendQueue
<1>3. CASE Start
  <2>1. Above(latest' + 1, state') /\ Above(latest' + 1, disk')
    BY <1>3 DEF Start, QueueOK
  <2>2. QED
    BY <1>3, <2>1 DEF Start, QueueOK, Above, Texted
<1>4. CASE ProcessUpdate
  BY <1>4, ProcessQueue
<1>5. CASE IngestFails
  BY <1>5, QueueUnchanged DEF IngestFails, Kept
<1>6. CASE RecordAnswer
  <2>1. state.candidates \ {item} \in SUBSET Items
    BY <1>1, FieldTypes
  <2>2. state'.messages = state.messages /\ state'.through = state.through
    BY <1>1, <1>6, <2>1, WithCandidates DEF RecordAnswer, Answered
  <2>3. Within(state', state)
    BY <2>2 DEF Within, Above
  <2>4. QED
    BY <1>6, <2>3, QueueStays DEF RecordAnswer
<1>7. CASE WriteOffset
  BY <1>7, OffsetQueue
<1>8. CASE AnalysisFails
  <2>1. CASE GivesUp
    BY <1>8, <2>1, PassWithin, QueueStays DEF AnalysisFails
  <2>2. CASE ~ GivesUp
    <3>1. Failures \in 0..2
      BY <2>2, <1>1, FieldTypes DEF GivesUp, Failures
    <3>2. state'.messages = state.messages /\ state'.through = state.through
      BY <1>1, <1>8, <2>2, <3>1, WithFailures DEF AnalysisFails
    <3>3. Within(state', state)
      BY <3>2 DEF Within, Above
    <3>4. QED
      BY <1>8, <3>3, QueueStays DEF AnalysisFails
  <2>3. QED
    BY <2>1, <2>2
<1>9. CASE AnalysisReads
  BY <1>9, PassWithin, QueueStays DEF AnalysisReads
<1>10. ASSUME NEW i \in todo, CheckCandidate(i) PROVE QueueOK'
  <2>1. state.suggested \cup {i[1]} \in SUBSET Msgs
    BY <1>1, FieldTypes, ItemParts DEF TypeOK
  <2>2. state'.messages = state.messages /\ state'.through = state.through
    BY <1>1, <1>10, <2>1, WithSuggested DEF CheckCandidate
  <2>3. Within(state', state)
    BY <2>2 DEF Within, Above
  <2>4. QED
    BY <1>10, <2>3, QueueStays DEF CheckCandidate
<1>11. CASE SendCard
  <2>2. state'.messages = state.messages /\ state'.through = state.through
    BY <1>1, <1>11, CardSent
  <2>3. Within(state', state)
    BY <2>2 DEF Within, Above
  <2>4. QED
    BY <1>11, <2>3, QueueStays DEF SendCard
<1>12. CASE Save
  <2>1. Within(state', state)
    BY <1>12 DEF Save, Within
  <2>2. QED
    BY <1>12, <2>1, QueueStays DEF Save
<1>13. CASE Die
  BY <1>13, QueueRestarts DEF Die
<1>14. CASE LoseFile
  BY <1>14, QueueRestarts DEF LoseFile
<1>15. CASE /\ UNCHANGED <<queue, latest, state, disk>>
            /\ pc = "move" => pc' = "move"
  BY <1>15, QueueUnchanged
<1>16. QED
  BY <1>2, <1>3, <1>4, <1>5, <1>6, <1>7, <1>8, <1>9, <1>10, <1>11, <1>12, <1>13,
     <1>14, <1>15 DEF Next, AdapterStep, Analyze, GetUpdates, IngestCandidate, EndOfBatch,
     NotDue, CandidatesDone, CardFails, RecordReview, vars

-----------------------------------------------------------------------------
(* What is passed stays read: the part of ReadBeforePassed about the state *)
(* and the part about the file.                                            *)
PassedIsRead(s, r) == \A i \in s.messages : i[1] <= s.through => i \in r

LEMMA PassReads ==
  ASSUME TypeOK, PassPending
  PROVE  PassedIsRead(state, read) => PassedIsRead(state', read')
<1>1. PICK n \in Msgs : state' = [state EXCEPT !.through = n, !.failures = 0]
  BY DEF PassPending
<1>2. n \in Nat /\ state \in State
  BY BusinessAssumption DEF TypeOK
<1>3. state'.messages = state.messages
  BY <1>1, <1>2, WithThrough
<1>4. read' = read \cup {i \in state.messages : i[1] > state.through}
  BY DEF PassPending, Pending
<1>5. SUFFICES ASSUME PassedIsRead(state, read), NEW i \in state.messages
               PROVE  i \in read'
  BY <1>3 DEF PassedIsRead
<1>6. i[1] \in Nat /\ state.through \in Nat
  BY <1>2, FieldTypes, ItemParts
<1>7. CASE i[1] > state.through
  BY <1>4, <1>7
<1>8. CASE i[1] <= state.through
  BY <1>4, <1>5, <1>8 DEF PassedIsRead
<1>9. QED
  BY <1>6, <1>7, <1>8

LEMMA BufferReads ==
  ASSUME TypeOK, PhaseOK, QueueOK, ProcessUpdate, PassedIsRead(state, read)
  PROVE  PassedIsRead(state', read)
<1> DEFINE u == Head(queue)
<1>1. queue # << >> /\ u = queue[1] /\ 1 \in 1..Len(queue) /\ pc # "move"
  BY HaveUpdate DEF ProcessUpdate, TypeOK, PhaseOK
<1>2. /\ state \in State /\ u \in Update /\ u.msg \in Nat /\ <<u.msg, u.text>> \in Items
      /\ state.through \in Nat
  BY <1>1, HeadType, FieldTypes, BusinessAssumption DEF TypeOK, Update
<1>3. CASE BufferMessage(u) /\ ~ Reopens(u)
  <2> DEFINE after == Trim(Put(state.messages, <<u.msg, u.text>>))
  <2>1. after \in SUBSET Items
    BY <1>2, FieldTypes DEF Trim, Put
  <2>2. state'.messages = after /\ state'.through = state.through
    BY <1>2, <1>3, <2>1, WithMessages DEF BufferMessage
  <2>3. after \subseteq state.messages \cup {<<u.msg, u.text>>}
    BY DEF Trim, Put
  <2>4. state.through < u.msg
    <3>1. CASE u.kind = "message"
      BY <1>1, <3>1 DEF QueueOK, Above
    <3>2. CASE u.kind = "edited"
      BY <1>2, <1>3, <3>2 DEF Reopens
    <3>3. QED
      BY <1>3, <3>1, <3>2 DEF BufferMessage
  <2>5. QED
    BY <1>2, <2>2, <2>3, <2>4 DEF PassedIsRead
<1>4. CASE DropMessages(u)
  <2>1. {i \in state.messages : i[1] # u.msg} \in SUBSET Items
    BY <1>2, FieldTypes
  <2>2. /\ state'.messages = {i \in state.messages : i[1] # u.msg}
        /\ state'.through = state.through
    BY <1>2, <1>4, <2>1, WithMessages DEF DropMessages
  <2>3. QED
    BY <2>2 DEF PassedIsRead
<1>5. CASE state' = state
  BY <1>5
<1>6. QED
  BY <1>3, <1>4, <1>5 DEF ProcessUpdate, BufferMessage, Press

LEMMA NextRead ==
  ASSUME TypeOK, PhaseOK, QueueOK, ReadBeforePassed, [Next]_vars
  PROVE  ReadBeforePassed'
<1> USE DEF telegram, adapter, server, history
<1>1. state \in State /\ PassedIsRead(state, read) /\ PassedIsRead(disk, read)
  BY DEF TypeOK, ReadBeforePassed, PassedIsRead
<1>2. PassedIsRead(Fresh, read)
  BY DEF PassedIsRead, Fresh
<1>3. SUFFICES PassedIsRead(state', read') /\ PassedIsRead(disk', read')
  BY DEF ReadBeforePassed, PassedIsRead
<1>4. CASE ProcessUpdate
  <2>1. UNCHANGED <<disk, read>>
    BY <1>4 DEF ProcessUpdate
  <2>2. QED
    BY <1>1, <1>4, <2>1, BufferReads
<1>5. CASE RecordAnswer
  <2>1. state.candidates \ {item} \in SUBSET Items
    BY <1>1, FieldTypes
  <2>2. state'.messages = state.messages /\ state'.through = state.through
    BY <1>1, <1>5, <2>1, WithCandidates DEF RecordAnswer, Answered
  <2>3. UNCHANGED <<disk, read>>
    BY <1>5 DEF RecordAnswer
  <2>4. QED
    BY <1>1, <2>2, <2>3 DEF PassedIsRead
<1>6. CASE AnalysisFails /\ ~ GivesUp
  <2>1. Failures \in 0..2
    BY <1>6, <1>1, FieldTypes DEF GivesUp, Failures
  <2>2. state'.messages = state.messages /\ state'.through = state.through
    BY <1>1, <1>6, <2>1, WithFailures DEF AnalysisFails
  <2>3. UNCHANGED <<disk, read>>
    BY <1>6 DEF AnalysisFails
  <2>4. QED
    BY <1>1, <2>2, <2>3 DEF PassedIsRead
<1>7. CASE PassPending /\ disk' = disk
  <2>1. read \subseteq read'
    BY <1>7 DEF PassPending
  <2>2. QED
    BY <1>1, <1>7, <2>1, PassReads DEF PassedIsRead
<1>8. ASSUME NEW i \in todo, CheckCandidate(i)
      PROVE  PassedIsRead(state', read') /\ PassedIsRead(disk', read')
  <2>1. state.suggested \cup {i[1]} \in SUBSET Msgs
    BY <1>1, FieldTypes, ItemParts DEF TypeOK
  <2>2. state'.messages = state.messages /\ state'.through = state.through
    BY <1>1, <1>8, <2>1, WithSuggested DEF CheckCandidate
  <2>3. UNCHANGED <<disk, read>>
    BY <1>8 DEF CheckCandidate
  <2>4. QED
    BY <1>1, <2>2, <2>3 DEF PassedIsRead
<1>9. CASE SendCard
  <2>1. state'.messages = state.messages /\ state'.through = state.through
    BY <1>1, <1>9, CardSent
  <2>2. UNCHANGED <<disk, read>>
    BY <1>9 DEF SendCard
  <2>3. QED
    BY <1>1, <2>1, <2>2 DEF PassedIsRead
<1>10. CASE state' \in {state, disk, Fresh} /\ disk' \in {state, disk, Fresh} /\ read' = read
  BY <1>1, <1>2, <1>10
<1>11. QED
  BY <1>4, <1>5, <1>6, <1>7, <1>8, <1>9, <1>10 DEF Next, AdapterStep, Analyze, Send, Start,
     GetUpdates, IngestCandidate, IngestFails, Kept, WriteOffset, EndOfBatch, NotDue,
     AnalysisFails, AnalysisReads, CandidatesDone, CardFails, RecordReview, Save, Die,
     LoseFile, vars

-----------------------------------------------------------------------------
(* Every candidate's message is marked as suggested, so a card goes out    *)
(* only for a message without a candidate and SendCard replaces none. What *)
(* the file holds and the state in memory does not was answered.           *)
Marked(s) == \A i \in s.candidates : i[1] \in s.suggested

Missing(s, d) == d.candidates \ s.candidates

WaitsOK ==
  /\ Marked(state) /\ Marked(disk)
  /\ pc = "card" => item[1] \notin state.suggested
  /\ pc # "down" => Missing(state, disk) \subseteq answered

LEMMA ProcessKeeps ==
  ASSUME TypeOK, PhaseOK, ProcessUpdate
  PROVE  state'.candidates = state.candidates /\ state'.suggested = state.suggested
<1> DEFINE u == Head(queue)
<1>1. state \in State /\ <<u.msg, u.text>> \in Items
  BY HaveUpdate, HeadType DEF ProcessUpdate, TypeOK, PhaseOK
<1>2. CASE BufferMessage(u) /\ ~ Reopens(u)
  <2>1. Trim(Put(state.messages, <<u.msg, u.text>>)) \in SUBSET Items
    BY <1>1, FieldTypes DEF Trim, Put
  <2>2. QED
    BY <1>1, <1>2, <2>1, WithMessages DEF BufferMessage
<1>3. CASE DropMessages(u)
  <2>1. {i \in state.messages : i[1] # u.msg} \in SUBSET Items
    BY <1>1, FieldTypes
  <2>2. QED
    BY <1>1, <1>3, <2>1, WithMessages DEF DropMessages
<1>4. CASE state' = state
  BY <1>4
<1>5. QED
  BY <1>2, <1>3, <1>4 DEF ProcessUpdate, BufferMessage, Press

LEMMA PassKeeps ==
  ASSUME TypeOK, PassPending
  PROVE  state'.candidates = state.candidates /\ state'.suggested = state.suggested
<1>1. PICK n \in Msgs : state' = [state EXCEPT !.through = n, !.failures = 0]
  BY DEF PassPending
<1>2. n \in Nat /\ state \in State
  BY BusinessAssumption DEF TypeOK
<1>3. QED
  BY <1>1, <1>2, WithThrough

(* A step that leaves the candidates and the file alone. *)
LEMMA WaitsStay ==
  ASSUME WaitsOK, UNCHANGED <<disk, answered>>,
         state'.candidates = state.candidates, state'.suggested = state.suggested,
         pc # "down", pc' = "card" => pc = "card" /\ item' = item
  PROVE  WaitsOK'
  BY DEF WaitsOK, Marked, Missing

LEMMA NextWaits ==
  ASSUME TypeOK, PhaseOK, WaitsOK, [Next]_vars
  PROVE  WaitsOK'
<1> USE DEF telegram, adapter, server, history
<1>1. state \in State
  BY DEF TypeOK
<1>2. CASE Start
  BY <1>2 DEF Start, WaitsOK, Marked, Missing
<1>3. CASE ProcessUpdate
  <2>1. /\ UNCHANGED <<disk, answered>>
        /\ pc # "down" /\ pc' # "card"
    BY <1>3, ProcessTyped DEF ProcessUpdate
  <2>2. QED
    BY <1>3, <2>1, ProcessKeeps, WaitsStay
<1>4. CASE RecordAnswer
  <2>1. state.candidates \ {item} \in SUBSET Items
    BY <1>1, FieldTypes
  <2>2. state'.candidates = state.candidates \ {item} /\ state'.suggested = state.suggested
    BY <1>1, <1>4, <2>1, WithCandidates DEF RecordAnswer, Answered
  <2>3. disk' = disk /\ answered' = answered \cup {item} /\ pc # "down" /\ pc' = "move"
    BY <1>4 DEF RecordAnswer
  <2>4. QED
    BY <2>2, <2>3 DEF WaitsOK, Marked, Missing
<1>5. CASE AnalysisFails /\ ~ GivesUp
  <2>1. Failures \in 0..2
    BY <1>5, <1>1, FieldTypes DEF GivesUp, Failures
  <2>2. state'.candidates = state.candidates /\ state'.suggested = state.suggested
    BY <1>1, <1>5, <2>1, WithFailures DEF AnalysisFails
  <2>3. UNCHANGED <<disk, answered>> /\ pc # "down" /\ pc' # "card"
    BY <1>5 DEF AnalysisFails
  <2>4. QED
    BY <2>2, <2>3, WaitsStay
<1>6. CASE (AnalysisFails /\ GivesUp) \/ AnalysisReads
  <2>1. PassPending /\ UNCHANGED <<disk, answered>> /\ pc # "down" /\ pc' # "card"
    BY <1>6 DEF AnalysisFails, AnalysisReads
  <2>2. QED
    BY <2>1, PassKeeps, WaitsStay
<1>7. ASSUME NEW i \in todo, CheckCandidate(i) PROVE WaitsOK'
  <2>1. pc = "check" /\ UNCHANGED <<disk, answered>>
    BY <1>7 DEF CheckCandidate
  <2>2. CASE state' = state /\ pc' = pc
    BY <2>1, <2>2, WaitsStay
  <2>3. CASE state' = [state EXCEPT !.suggested = @ \cup {i[1]}] /\ pc' = pc
    <3>1. state.suggested \cup {i[1]} \in SUBSET Msgs
      BY <1>1, FieldTypes, ItemParts DEF TypeOK
    <3>2. state'.candidates = state.candidates /\ state'.suggested = state.suggested \cup {i[1]}
      BY <1>1, <2>3, <3>1, WithSuggested
    <3>3. QED
      BY <2>1, <2>3, <3>2 DEF WaitsOK, Marked, Missing
  <2>4. CASE state' = state /\ item' = i /\ i[1] \notin state.suggested
    BY <2>1, <2>4 DEF WaitsOK, Marked, Missing
  <2>5. QED
    BY <1>7, <2>2, <2>3, <2>4 DEF CheckCandidate
<1>8. CASE SendCard
  <2>1. /\ pc = "card" /\ pc' = "receipt" /\ UNCHANGED <<disk, answered>>
        /\ item \in Items
    BY <1>8 DEF SendCard, PhaseOK
  <2>2. /\ state'.candidates = Put(state.candidates, item)
        /\ state'.suggested = state.suggested \cup {item[1]}
    BY <1>1, <1>8, CardSent
  <2>3. \A i \in state.candidates : i[1] # item[1]
    BY <2>1 DEF WaitsOK, Marked
  <2>4. state'.candidates = state.candidates \cup {item}
    BY <2>2, <2>3 DEF Put
  <2>5. QED
    BY <2>1, <2>2, <2>4 DEF WaitsOK, Marked, Missing
<1>9. CASE Save
  BY <1>9 DEF Save, WaitsOK, Marked, Missing
<1>10. CASE Die
  <2>1. Marked(Fresh)
    BY DEF Marked, Fresh
  <2>2. QED
    BY <1>10, <2>1 DEF Die, WaitsOK, Marked
<1>11. CASE LoseFile
  <2>1. Marked(Fresh)
    BY DEF Marked, Fresh
  <2>2. QED
    BY <1>11, <2>1 DEF LoseFile, WaitsOK, Marked
<1>12. CASE /\ UNCHANGED <<state, disk, answered>>
            /\ pc' = pc /\ item' = item
  BY <1>12 DEF WaitsOK
<1>13. CASE /\ UNCHANGED <<state, disk, answered>>
            /\ pc # "down" /\ pc' # "card"
  BY <1>13, WaitsStay
<1>14. QED
  BY <1>2, <1>3, <1>4, <1>5, <1>6, <1>7, <1>8, <1>9, <1>10, <1>11, <1>12, <1>13
     DEF Next, AdapterStep, Analyze, Send, GetUpdates, IngestCandidate, IngestFails, Kept,
     WriteOffset, EndOfBatch, NotDue, CandidatesDone, CardFails, RecordReview, vars

(* The file changes when it is saved or lost. *)
LEMMA DiskStep ==
  ASSUME [Next]_vars
  PROVE  disk' = disk \/ Save \/ disk' = Fresh
  BY DEF Next, AdapterStep, Analyze, Send, Start, GetUpdates, ProcessUpdate, IngestCandidate,
     IngestFails, RecordAnswer, WriteOffset, EndOfBatch, NotDue, AnalysisFails, AnalysisReads,
     CheckCandidate, CandidatesDone, SendCard, CardFails, RecordReview, Die, LoseFile, vars

-----------------------------------------------------------------------------
(* A candidate is in the state, may still become one, or comes back with   *)
(* the file: each is one more chance to make a task of it. Making the task *)
(* uses the chance up, and only a fault gives it back.                     *)
Copies(i) == Cardinality({t \in tasks : t[1] = i})

MayTake(i) ==
  /\ ~ (pc = "accept" /\ item = i)
  /\ \/ i \in state.candidates
     \/ receipts[i] = "none"
     \/ pc = "down" /\ i \in disk.candidates

Chance(i) == IF MayTake(i) THEN 1 ELSE 0

TakesCounted == \A i \in Items : Copies(i) + Chance(i) <= 1 + faults

TakesOK ==
  /\ IsFiniteSet(tasks)
  /\ pc \in {"take", "accept", "skip"} => item \in state.candidates
  /\ TakesCounted

LEMMA ChanceType ==
  ASSUME NEW i
  PROVE  /\ Chance(i) \in 0..1 /\ Chance(i)' \in 0..1
         /\ MayTake(i) => Chance(i) = 1
         /\ ~ MayTake(i)' => Chance(i)' = 0
  BY DEF Chance

LEMMA CopiesType ==
  ASSUME IsFiniteSet(tasks), NEW i
  PROVE  IsFiniteSet({t \in tasks : t[1] = i}) /\ Copies(i) \in Nat
  <1>1. IsFiniteSet({t \in tasks : t[1] = i})
    BY FS_Subset
  <1>2. QED
    BY <1>1, FS_CardinalityType DEF Copies

(* A task more is a copy more of its item, and of no other. *)
LEMMA OneTaskMore ==
  ASSUME IsFiniteSet(tasks), NEW x, tasks' \in {tasks, tasks \cup {x}}
  PROVE  /\ IsFiniteSet(tasks')
         /\ \A i : Copies(i)' \in Nat /\ Copies(i)' <= Copies(i) + 1
         /\ \A i : i # x[1] => Copies(i)' = Copies(i)
<1>1. IsFiniteSet(tasks')
  BY FS_AddElement
<1>2. ASSUME NEW i
      PROVE  /\ Copies(i)' \in Nat /\ Copies(i)' <= Copies(i) + 1
             /\ i # x[1] => Copies(i)' = Copies(i)
  <2> DEFINE old == {t \in tasks : t[1] = i}
             new == {t \in tasks' : t[1] = i}
  <2>1. IsFiniteSet(old) /\ Copies(i) \in Nat /\ Copies(i) = Cardinality(old)
    BY CopiesType DEF Copies
  <2>2. Copies(i)' = Cardinality(new)
    BY DEF Copies
  <2>3. new = old \/ (new = old \cup {x} /\ i = x[1])
    OBVIOUS
  <2> HIDE DEF old, new
  <2>4. CASE new = old
    BY <2>1, <2>2, <2>4
  <2>5. CASE new = old \cup {x} /\ i = x[1]
    <3>1. Cardinality(new) \in {Cardinality(old), Cardinality(old) + 1}
      BY <2>1, <2>5, FS_AddElement
    <3>2. QED
      BY <2>1, <2>2, <2>5, <3>1
  <2>6. QED
    BY <2>3, <2>4, <2>5
<1>3. QED
  BY <1>1, <1>2

LEMMA CountTypes ==
  ASSUME TypeOK, TakesOK, NEW i \in Items
  PROVE  /\ Copies(i) \in Nat /\ faults \in Nat
         /\ Chance(i) \in 0..1 /\ Chance(i)' \in 0..1
         /\ Copies(i) + Chance(i) <= 1 + faults
<1>1. faults \in Nat
  BY BusinessAssumption DEF TypeOK
<1>2. Copies(i) \in Nat
  BY CopiesType DEF TakesOK
<1>3. QED
  BY <1>1, <1>2, ChanceType DEF TakesOK, TakesCounted

(* A step that creates no task gives no new chance, or is a fault. *)
LEMMA CountStays ==
  ASSUME TypeOK, TakesOK, tasks' = tasks, faults' = faults,
         \A i \in Items : MayTake(i)' => MayTake(i)
  PROVE  IsFiniteSet(tasks') /\ TakesCounted'
<1>1. ASSUME NEW i \in Items
      PROVE  Copies(i)' = Copies(i) /\ Chance(i)' <= Chance(i)
  BY ChanceType DEF Copies, Chance
<1>2. ASSUME NEW i \in Items
      PROVE  /\ Copies(i) \in Nat /\ Chance(i) \in 0..1 /\ Chance(i)' \in 0..1
             /\ Copies(i) + Chance(i) <= 1 + faults /\ faults \in Nat
  BY CountTypes
<1>3. ASSUME NEW i \in Items
      PROVE  (Copies(i) + Chance(i))' <= 1 + faults'
  BY <1>1, <1>2
<1>4. QED
  BY <1>3 DEF TakesOK, TakesCounted

LEMMA FaultCounted ==
  ASSUME TypeOK, TakesOK, tasks' = tasks, Fault
  PROVE  IsFiniteSet(tasks') /\ TakesCounted'
<1>1. ASSUME NEW i \in Items
      PROVE  /\ Copies(i)' = Copies(i) /\ Copies(i) \in Nat
             /\ Chance(i) \in 0..1 /\ Chance(i)' \in 0..1
             /\ Copies(i) + Chance(i) <= 1 + faults /\ faults \in Nat
  BY CountTypes DEF Copies
<1>2. faults' = faults + 1
  BY DEF Fault
<1>3. ASSUME NEW i \in Items
      PROVE  (Copies(i) + Chance(i))' <= 1 + faults'
  BY <1>1, <1>2
<1>4. QED
  BY <1>3 DEF TakesOK, TakesCounted

LEMMA IngestCounted ==
  ASSUME TypeOK, PhaseOK, TakesOK, IngestCandidate
  PROVE  TakesOK'
<1>1. item \in Items /\ item \in state.candidates /\ pc = "take"
  BY DEF IngestCandidate, PhaseOK, TakesOK
<1>2. /\ pc' = "accept" /\ UNCHANGED <<state, item, disk, receipts, faults>>
      /\ tasks' = tasks \cup {<<item, minute'>>}
  BY DEF IngestCandidate, Ingested, history
<1>3. /\ IsFiniteSet(tasks')
      /\ \A i : Copies(i)' \in Nat /\ Copies(i)' <= Copies(i) + 1
      /\ \A i : i # item => Copies(i)' = Copies(i)
  <2>1. PICK x : x = <<item, minute'>>
    OBVIOUS
  <2>2. tasks' \in {tasks, tasks \cup {x}} /\ x[1] = item
    BY <1>2, <2>1
  <2>3. QED
    BY <2>2, OneTaskMore DEF TakesOK
<1>4. ASSUME NEW i \in Items
      PROVE  (Copies(i) + Chance(i))' <= 1 + faults'
  <2>1. /\ Copies(i) \in Nat /\ Chance(i) \in 0..1 /\ Chance(i)' \in 0..1
        /\ Copies(i) + Chance(i) <= 1 + faults /\ faults \in Nat
    BY CountTypes
  <2>2. CASE i = item
    <3>1. MayTake(i) /\ ~ MayTake(i)'
      BY <1>1, <1>2, <2>2 DEF MayTake
    <3>2. Chance(i) = 1 /\ Chance(i)' = 0
      BY <3>1, ChanceType
    <3>3. QED
      BY <1>2, <1>3, <2>1, <3>2
  <2>3. CASE i # item
    <3>1. MayTake(i)' => MayTake(i)
      BY <1>1, <1>2 DEF MayTake
    <3>2. Chance(i)' <= Chance(i)
      BY <3>1, ChanceType DEF Chance
    <3>3. QED
      BY <1>2, <1>3, <2>1, <2>3, <3>2
  <2>4. QED
    BY <2>2, <2>3
<1>5. QED
  BY <1>1, <1>2, <1>3, <1>4 DEF TakesOK, TakesCounted

LEMMA FailedIngestCounted ==
  ASSUME TypeOK, PhaseOK, TakesOK, IngestFails
  PROVE  TakesOK'
<1>1. /\ pc = "take" /\ pc' = "move" /\ UNCHANGED <<state, disk, receipts>>
      /\ faults' = faults + 1
      /\ tasks' \in {tasks, tasks \cup {<<item, minute'>>}}
  BY DEF IngestFails, Ingested, Kept, Fault
<1>2. /\ IsFiniteSet(tasks')
      /\ \A i : Copies(i)' \in Nat /\ Copies(i)' <= Copies(i) + 1
  <2>1. PICK x : x = <<item, minute'>>
    OBVIOUS
  <2>2. tasks' \in {tasks, tasks \cup {x}} /\ x[1] = item
    BY <1>1, <2>1
  <2>3. /\ IsFiniteSet(tasks')
        /\ \A i : Copies(i)' \in Nat /\ Copies(i)' <= Copies(i) + 1
        /\ \A i : i # item => Copies(i)' = Copies(i)
    BY <2>2, OneTaskMore DEF TakesOK
  <2>4. QED
    BY <2>3
<1>3. ASSUME NEW i \in Items
      PROVE  (Copies(i) + Chance(i))' <= 1 + faults'
  <2>1. /\ Copies(i) \in Nat /\ Chance(i) \in 0..1 /\ Chance(i)' \in 0..1
        /\ Copies(i) + Chance(i) <= 1 + faults /\ faults \in Nat
    BY CountTypes
  <2>2. MayTake(i)' => MayTake(i)
    BY <1>1 DEF MayTake
  <2>3. Chance(i)' <= Chance(i)
    BY <2>2, ChanceType DEF Chance
  <2>4. QED
    BY <1>1, <1>2, <2>1, <2>3
<1>4. QED
  BY <1>1, <1>2, <1>3 DEF TakesOK, TakesCounted

LEMMA AnswerCounted ==
  ASSUME TypeOK, PhaseOK, TakesOK, RecordAnswer
  PROVE  TakesOK'
<1>1. state \in State /\ item \in Items
  BY DEF TypeOK, RecordAnswer, PhaseOK
<1>2. state.candidates \ {item} \in SUBSET Items
  BY <1>1, FieldTypes
<1>3. state'.candidates = state.candidates \ {item}
  BY <1>1, <1>2, WithCandidates DEF RecordAnswer, Answered
<1>4. pc \in {"accept", "skip"} /\ pc' = "move" /\ UNCHANGED <<disk, tasks>>
  BY DEF RecordAnswer
<1>5. CASE Fault
  BY <1>4, <1>5, FaultCounted DEF TakesOK
<1>6. CASE NoFault /\ receipts' = [receipts EXCEPT ![item] = Answer]
  <2>1. Answer # "none"
    BY DEF Answer
  <2>2. \A i \in Items : MayTake(i)' => MayTake(i)
    BY <1>1, <1>3, <1>4, <1>6, <2>1 DEF MayTake, TypeOK
  <2>3. QED
    BY <1>4, <1>6, <2>2, CountStays DEF TakesOK, NoFault
<1>7. QED
  BY <1>5, <1>6 DEF RecordAnswer

LEMMA NextTakes ==
  ASSUME TypeOK, PhaseOK, CardsOK, TakesOK, [Next]_vars
  PROVE  TakesOK'
<1> USE DEF telegram, adapter, server, history
<1>1. state \in State
  BY DEF TypeOK
<1>2. CASE IngestCandidate \/ IngestFails \/ RecordAnswer
  BY <1>2, IngestCounted, FailedIngestCounted, AnswerCounted
<1>3. CASE Start
  <2>1. \A i \in Items : MayTake(i)' => MayTake(i)
    BY <1>3 DEF Start, MayTake
  <2>2. QED
    BY <1>3, <2>1, CountStays DEF Start, TakesOK
<1>4. CASE ProcessUpdate
  <2>1. state'.candidates = state.candidates
    BY <1>4, ProcessKeeps
  <2>2. UNCHANGED <<tasks, faults, receipts, disk>> /\ pc = "update"
    BY <1>4 DEF ProcessUpdate
  <2>3. pc' \in {"move", "take", "skip"} /\ (pc' \in {"take", "skip"} => item' \in state.candidates)
    BY <1>4 DEF ProcessUpdate, BufferMessage, DropMessages, Press, Update
  <2>4. \A i \in Items : MayTake(i)' => MayTake(i)
    BY <2>1, <2>2, <2>3 DEF MayTake
  <2>5. QED
    BY <2>1, <2>2, <2>3, <2>4, CountStays DEF TakesOK
<1>5. CASE AnalysisFails \/ AnalysisReads
  <2>1. state'.candidates = state.candidates
    <3>1. CASE PassPending
      BY <3>1, PassKeeps
    <3>2. CASE ~ GivesUp /\ state' = [state EXCEPT !.failures = Failures]
      <4>1. Failures \in 0..2
        BY <3>2, <1>1, FieldTypes DEF GivesUp, Failures
      <4>2. QED
        BY <1>1, <3>2, <4>1, WithFailures
    <3>3. QED
      BY <1>5, <3>1, <3>2 DEF AnalysisFails, AnalysisReads
  <2>2. /\ UNCHANGED <<tasks, faults, receipts, disk, item>>
        /\ pc = "analyze" /\ pc' \in {"save", "check"}
    BY <1>5 DEF AnalysisFails, AnalysisReads
  <2>3. \A i \in Items : MayTake(i)' => MayTake(i)
    BY <2>1, <2>2 DEF MayTake
  <2>4. QED
    BY <2>2, <2>3, CountStays DEF TakesOK
<1>6. ASSUME NEW j \in todo, CheckCandidate(j) PROVE TakesOK'
  <2>1. state'.candidates = state.candidates
    <3>1. state.suggested \cup {j[1]} \in SUBSET Msgs
      BY <1>1, FieldTypes, ItemParts DEF TypeOK
    <3>2. QED
      BY <1>1, <1>6, <3>1, WithSuggested DEF CheckCandidate
  <2>2. /\ UNCHANGED <<tasks, receipts, disk>>
        /\ pc = "check" /\ pc' \in {"check", "card"}
        /\ Fault \/ NoFault
    BY <1>6, CheckTyped DEF CheckCandidate
  <2>3. \A i \in Items : MayTake(i)' => MayTake(i)
    BY <2>1, <2>2 DEF MayTake
  <2>4. IsFiniteSet(tasks') /\ TakesCounted'
    BY <2>2, <2>3, CountStays, FaultCounted DEF NoFault
  <2>5. QED
    BY <2>2, <2>4 DEF TakesOK
<1>7. CASE SendCard
  <2>1. /\ pc = "card" /\ pc' = "receipt" /\ item' = item
        /\ UNCHANGED <<tasks, faults, receipts, disk>>
    BY <1>7 DEF SendCard
  <2>2. receipts[item] = "none"
    BY <2>1 DEF CardsOK
  <2>3. state'.candidates = Put(state.candidates, item)
    BY <1>1, <1>7, CardSent
  <2>4. \A i \in Items : MayTake(i)' => MayTake(i)
    BY <2>1, <2>2, <2>3 DEF MayTake, Put
  <2>5. QED
    BY <2>1, <2>4, CountStays DEF TakesOK
<1>8. CASE RecordReview
  <2>1. item \in Items /\ pc = "receipt" /\ pc' = "check" /\ UNCHANGED <<tasks, state, disk>>
    BY <1>8 DEF RecordReview, PhaseOK
  <2>2. CASE NoFault /\ receipts' = [receipts EXCEPT ![item] = "needs_review"]
    <3>1. \A i \in Items : MayTake(i)' => MayTake(i)
      BY <2>1, <2>2 DEF MayTake, TypeOK
    <3>2. QED
      BY <2>1, <2>2, <3>1, CountStays DEF TakesOK, NoFault
  <2>3. CASE Fault
    BY <2>1, <2>3, FaultCounted DEF TakesOK
  <2>4. QED
    BY <1>8, <2>2, <2>3 DEF RecordReview
<1>9. CASE Save
  <2>1. \A i \in Items : MayTake(i)' => MayTake(i)
    BY <1>9 DEF Save, MayTake
  <2>2. QED
    BY <1>9, <2>1, CountStays DEF Save, TakesOK
<1>10. CASE Die \/ LoseFile \/ CardFails
  <2>1. Fault /\ tasks' = tasks
    BY <1>10 DEF Die, LoseFile, CardFails
  <2>2. pc' \notin {"take", "accept", "skip"}
    BY <1>10 DEF Die, LoseFile, CardFails
  <2>3. QED
    BY <2>1, <2>2, FaultCounted DEF TakesOK
<1>11. CASE /\ UNCHANGED <<state, disk, item, receipts, tasks, faults>>
            /\ pc' = pc \/ (pc # "accept" /\ pc' \notin {"take", "accept", "skip", "down"})
  <2>1. \A i \in Items : MayTake(i)' => MayTake(i)
    BY <1>11 DEF MayTake
  <2>2. QED
    BY <1>11, <2>1, CountStays DEF TakesOK
<1>12. QED
  BY <1>2, <1>3, <1>4, <1>5, <1>6, <1>7, <1>8, <1>9, <1>10, <1>11
     DEF Next, AdapterStep, Analyze, Send, GetUpdates, WriteOffset, EndOfBatch, NotDue,
     CandidatesDone, vars

-----------------------------------------------------------------------------
(* What the state, the file and the ledger remember of a message was shown *)
(* to the owner: candidates and suggested messages have their cards, and   *)
(* so has everything that became a task or has a receipt. A receipt says   *)
(* "taken" only of what became a task, and "ignored" or "taken" only of    *)
(* what a press of the owner was handled for.                              *)
Seen(s, c) ==
  /\ \A i \in s.candidates : c[i] > 0
  /\ \A n \in s.suggested : \E x \in Texts : c[<<n, x>>] > 0

SeenOK ==
  /\ Seen(state, cards) /\ Seen(disk, cards)
  /\ pc \in {"take", "accept", "skip", "receipt"} => cards[item] > 0
  /\ \A t \in tasks : cards[t[1]] > 0
  /\ \A i \in Items : receipts[i] # "none" => cards[i] > 0
  /\ pc \notin {"check", "card", "receipt"} => todo = {}

Became(i, made) == \E t \in made : t[1] = i

EarnedOK ==
  /\ \A i \in Items : receipts[i] = "taken" => Became(i, tasks)
  /\ \A i \in Items : receipts[i] \in {"ignored", "taken"} => i \in answered
  /\ pc = "accept" => Became(item, tasks)

LEMMA CardsStay ==
  ASSUME TypeOK, PhaseOK, [Next]_vars, NEW i \in Items, cards[i] > 0
  PROVE  cards'[i] > 0
<1>1. cards[i] \in Nat
  BY DEF TypeOK
<1>2. cards'[i] = cards[i] \/ cards'[i] = cards[i] + 1
  BY CardStep
<1>3. QED
  BY <1>1, <1>2

LEMMA SeenStays ==
  ASSUME TypeOK, PhaseOK, [Next]_vars, NEW s \in State, Seen(s, cards)
  PROVE  Seen(s, cards')
<1>1. s.candidates \subseteq Items /\ s.suggested \subseteq Msgs
  BY FieldTypes
<1>2. \A i \in Items : cards[i] > 0 => cards'[i] > 0
  BY CardsStay
<1>3. \A n \in Msgs, x \in Texts : <<n, x>> \in Items
  BY DEF Items
<1>4. QED
  BY <1>1, <1>2, <1>3 DEF Seen

LEMMA StatesSeen ==
  ASSUME TypeOK, PhaseOK, SeenOK, [Next]_vars
  PROVE  Seen(state', cards') /\ Seen(disk', cards')
<1> USE DEF telegram, adapter, server, history
<1>1. state \in State /\ disk \in State /\ Fresh \in State
  BY FreshType DEF TypeOK
<1>2. Seen(state, cards') /\ Seen(disk, cards') /\ Seen(Fresh, cards')
  <2>1. Seen(Fresh, cards)
    BY DEF Seen, Fresh
  <2>2. QED
    BY <1>1, <2>1, SeenStays DEF SeenOK
<1>3. CASE ProcessUpdate
  <2>1. disk' = disk
    BY <1>3 DEF ProcessUpdate
  <2>2. QED
    BY <1>2, <1>3, <2>1, ProcessKeeps DEF Seen
<1>4. CASE RecordAnswer
  <2>1. state.candidates \ {item} \in SUBSET Items /\ disk' = disk
    BY <1>1, <1>4, FieldTypes DEF RecordAnswer
  <2>2. state'.candidates = state.candidates \ {item} /\ state'.suggested = state.suggested
    BY <1>1, <1>4, <2>1, WithCandidates DEF RecordAnswer, Answered
  <2>3. QED
    BY <1>2, <2>1, <2>2 DEF Seen
<1>5. CASE AnalysisFails /\ ~ GivesUp
  <2>1. Failures \in 0..2
    BY <1>5, <1>1, FieldTypes DEF GivesUp, Failures
  <2>2. state'.candidates = state.candidates /\ state'.suggested = state.suggested
    BY <1>1, <1>5, <2>1, WithFailures DEF AnalysisFails
  <2>3. disk' = disk
    BY <1>5 DEF AnalysisFails
  <2>4. QED
    BY <1>2, <2>2, <2>3 DEF Seen
<1>6. CASE (AnalysisFails /\ GivesUp) \/ AnalysisReads
  <2>1. PassPending /\ disk' = disk
    BY <1>6 DEF AnalysisFails, AnalysisReads
  <2>2. QED
    BY <1>2, <2>1, PassKeeps DEF Seen
<1>7. ASSUME NEW i \in todo, CheckCandidate(i)
      PROVE  Seen(state', cards') /\ Seen(disk', cards')
  <2>1. disk' = disk /\ i \in Items
    BY <1>7 DEF CheckCandidate, TypeOK
  <2>2. CASE state' = state
    BY <1>2, <2>1, <2>2
  <2>3. CASE ~ ShouldProcess(i) /\ state' = [state EXCEPT !.suggested = @ \cup {i[1]}]
    <3>1. state.suggested \cup {i[1]} \in SUBSET Msgs
      BY <1>1, <2>1, FieldTypes, ItemParts
    <3>2. state'.candidates = state.candidates /\ state'.suggested = state.suggested \cup {i[1]}
      BY <1>1, <2>3, <3>1, WithSuggested
    <3>3. cards'[i] > 0
      BY <2>1, <2>3, CardsStay DEF ShouldProcess, SeenOK
    <3>4. \E x \in Texts : cards'[<<i[1], x>>] > 0
      BY <2>1, <3>3 DEF Items
    <3>5. QED
      BY <1>2, <2>1, <3>2, <3>4 DEF Seen
  <2>4. QED
    BY <1>7, <2>2, <2>3 DEF CheckCandidate
<1>8. CASE SendCard
  <2>1. /\ state'.candidates = Put(state.candidates, item)
        /\ state'.suggested = state.suggested \cup {item[1]}
    BY <1>1, <1>8, CardSent
  <2>2. disk' = disk /\ item \in Items /\ cards' = Shown
    BY <1>8 DEF SendCard, PhaseOK
  <2>3. cards'[item] > 0
    BY <2>2 DEF Shown, TypeOK
  <2>4. \E x \in Texts : cards'[<<item[1], x>>] > 0
    BY <2>2, <2>3 DEF Items
  <2>5. QED
    BY <1>2, <2>1, <2>2, <2>3, <2>4 DEF Seen, Put
<1>9. CASE state' \in {state, disk, Fresh} /\ disk' \in {state, disk, Fresh}
  BY <1>2, <1>9
<1>10. QED
  BY <1>3, <1>4, <1>5, <1>6, <1>7, <1>8, <1>9 DEF Next, AdapterStep, Analyze, Send, Start,
     GetUpdates, IngestCandidate, IngestFails, Kept, WriteOffset, EndOfBatch, NotDue,
     AnalysisFails, AnalysisReads, CandidatesDone, CardFails, RecordReview, Save, Die,
     LoseFile, vars

LEMMA ItemSeen ==
  ASSUME TypeOK, PhaseOK, SeenOK, [Next]_vars,
         pc' \in {"take", "accept", "skip", "receipt"}
  PROVE  cards'[item'] > 0
<1> USE DEF telegram, adapter, server, history
<1>1. CASE pc \in {"take", "accept", "skip", "receipt"} /\ item' = item
  BY <1>1, CardsStay DEF SeenOK, PhaseOK
<1>2. CASE ProcessUpdate
  <2>1. item' \in state.candidates /\ cards' = cards
    BY <1>2 DEF ProcessUpdate, BufferMessage, DropMessages, Press
  <2>2. QED
    BY <2>1 DEF SeenOK, Seen
<1>3. CASE SendCard
  BY <1>3 DEF SendCard, PhaseOK, Shown, TypeOK
<1>4. QED
  BY <1>1, <1>2, <1>3 DEF Next, AdapterStep, Analyze, Send, Start, GetUpdates,
     IngestCandidate, IngestFails, RecordAnswer, WriteOffset, EndOfBatch, NotDue,
     AnalysisFails, AnalysisReads, CheckCandidate, CandidatesDone, CardFails, RecordReview,
     Save, Die, LoseFile, vars

(* Tasks and receipts come of the item in hand. *)
LEMMA ServerStep ==
  ASSUME TypeOK, PhaseOK, [Next]_vars
  PROVE  /\ tasks' = tasks \/ (pc = "take" /\ tasks' = tasks \cup {<<item, minute'>>})
         /\ \A i \in Items : receipts'[i] # receipts[i] =>
              /\ i = item
              /\ \/ pc = "receipt" /\ receipts'[i] = "needs_review"
                 \/ pc \in {"accept", "skip"} /\ receipts'[i] = Answer
<1> USE DEF telegram, adapter, server, history
<1>1. CASE RecordAnswer
  BY <1>1 DEF RecordAnswer, PhaseOK, TypeOK
<1>2. CASE RecordReview
  BY <1>2 DEF RecordReview, PhaseOK, TypeOK
<1>3. CASE IngestCandidate \/ IngestFails
  BY <1>3 DEF IngestCandidate, IngestFails, Ingested
<1>4. CASE UNCHANGED <<tasks, receipts>>
  BY <1>4
<1>5. QED
  BY <1>1, <1>2, <1>3, <1>4 DEF Next, AdapterStep, Analyze, Send, Start, GetUpdates,
     ProcessUpdate, WriteOffset, EndOfBatch, NotDue, AnalysisFails, AnalysisReads,
     CheckCandidate, CandidatesDone, SendCard, CardFails, Save, Die, LoseFile, vars

LEMMA NextSeen ==
  ASSUME TypeOK, PhaseOK, SeenOK, [Next]_vars
  PROVE  SeenOK'
<1> USE DEF telegram, adapter, server, history
<1>1. Seen(state', cards') /\ Seen(disk', cards')
  BY StatesSeen
<1>2. pc' \in {"take", "accept", "skip", "receipt"} => cards'[item'] > 0
  BY ItemSeen
<1>3. ASSUME NEW t \in tasks'
      PROVE  cards'[t[1]] > 0
  <2>1. CASE t \in tasks
    BY <2>1, CardsStay DEF TypeOK, SeenOK
  <2>2. CASE pc = "take" /\ t = <<item, minute'>>
    BY <2>2, CardsStay DEF PhaseOK, SeenOK
  <2>3. QED
    BY <1>3, <2>1, <2>2, ServerStep
<1>4. ASSUME NEW i \in Items, receipts'[i] # "none"
      PROVE  cards'[i] > 0
  <2>1. CASE receipts'[i] = receipts[i]
    BY <1>4, <2>1, CardsStay DEF SeenOK
  <2>2. CASE receipts'[i] # receipts[i]
    BY <2>2, ServerStep, CardsStay DEF SeenOK
  <2>3. QED
    BY <2>1, <2>2
<1>5. pc' \notin {"check", "card", "receipt"} => todo' = {}
  <2>1. CASE UNCHANGED todo /\ (pc \in {"check", "card", "receipt"} => pc' \in {"check", "card", "receipt"})
    BY <2>1 DEF SeenOK
  <2>2. CASE \E i \in todo : CheckCandidate(i)
    BY <2>2 DEF CheckCandidate
  <2>3. CASE AnalysisReads \/ CandidatesDone \/ Die
    BY <2>3 DEF AnalysisReads, CandidatesDone, Die
  <2>4. QED
    BY <2>1, <2>2, <2>3 DEF Next, AdapterStep, Analyze, Send, Start, GetUpdates,
       ProcessUpdate, BufferMessage, DropMessages, Press, IngestCandidate, IngestFails,
       RecordAnswer, WriteOffset, EndOfBatch, NotDue, AnalysisFails, SendCard, CardFails,
       RecordReview, Save, LoseFile, vars
<1>6. QED
  BY <1>1, <1>2, <1>3, <1>4, <1>5 DEF SeenOK

LEMMA NextEarned ==
  ASSUME TypeOK, PhaseOK, EarnedOK, [Next]_vars
  PROVE  EarnedOK'
<1> USE DEF telegram, adapter, server, history
<1>1. \A i : Became(i, tasks) => Became(i, tasks')
  BY ServerStep DEF Became
<1>2. ASSUME NEW i \in Items, receipts'[i] = "taken"
      PROVE  Became(i, tasks')
  <2>1. CASE receipts[i] = "taken"
    BY <1>1, <2>1 DEF EarnedOK
  <2>2. CASE receipts'[i] # receipts[i]
    <3>1. pc = "accept" /\ i = item
      BY <1>2, <2>2, ServerStep DEF Answer
    <3>2. QED
      BY <1>1, <3>1 DEF EarnedOK
  <2>3. QED
    BY <1>2, <2>1, <2>2
<1>3. ASSUME pc' = "accept"
      PROVE  Became(item', tasks')
  <2>1. CASE IngestCandidate
    <3>1. <<item, minute'>> \in tasks' /\ item' = item
      BY <2>1 DEF IngestCandidate, Ingested
    <3>2. QED
      BY <3>1 DEF Became
  <2>2. CASE pc = "accept" /\ item' = item
    BY <1>1, <2>2 DEF EarnedOK
  <2>3. QED
    BY <1>3, <2>1, <2>2, ProcessTyped, CheckTyped DEF Next, AdapterStep, Analyze, Send, Start,
       GetUpdates, IngestFails, RecordAnswer, WriteOffset, EndOfBatch, NotDue,
       AnalysisFails, AnalysisReads, CandidatesDone, SendCard, CardFails, RecordReview,
       Save, Die, LoseFile, vars
<1>4. ASSUME NEW i \in Items, receipts'[i] \in {"ignored", "taken"}
      PROVE  i \in answered'
  <2>1. CASE RecordAnswer
    <3>1. answered' = answered \cup {item} /\ (i = item \/ receipts'[i] = receipts[i])
      BY <2>1 DEF RecordAnswer, TypeOK
    <3>2. QED
      BY <1>4, <3>1 DEF EarnedOK
  <2>2. CASE answered' = answered /\ receipts'[i] = receipts[i]
    BY <1>4, <2>2 DEF EarnedOK
  <2>3. CASE RecordReview
    <3>1. answered' = answered /\ (receipts'[i] = receipts[i] \/ receipts'[i] = "needs_review")
      BY <2>3 DEF RecordReview, TypeOK
    <3>2. QED
      BY <1>4, <3>1 DEF EarnedOK
  <2>4. QED
    BY <2>1, <2>2, <2>3 DEF Next, AdapterStep, Analyze, Send, Start, GetUpdates,
       ProcessUpdate, IngestCandidate, IngestFails, WriteOffset, EndOfBatch, NotDue,
       AnalysisFails, AnalysisReads, CheckCandidate, CandidatesDone, SendCard, CardFails,
       Save, Die, LoseFile, vars
<1>5. QED
  BY <1>2, <1>3, <1>4 DEF EarnedOK

-----------------------------------------------------------------------------
(* What the theorems rest on, an invariant that every step preserves. *)
IInv ==
  /\ TypeOK /\ PhaseOK
  /\ CardsOK /\ CardTwiceNeedsSlip
  /\ QueueOK /\ ReadBeforePassed
  /\ WaitsOK /\ TakesOK
  /\ SeenOK /\ EarnedOK

LEMMA InitIInv ==
  ASSUME Init
  PROVE  IInv
<1>1. TypeOK
  BY BusinessAssumption, FreshType DEF Init, TypeOK, Decisions
<1>2. PhaseOK /\ CardsOK /\ CardTwiceNeedsSlip
  BY DEF Init, PhaseOK, CardsOK, CardTwiceNeedsSlip
<1>3. QueueOK
  BY FreshWithin DEF Init, QueueOK
<1>4. ReadBeforePassed
  BY DEF Init, Fresh, ReadBeforePassed
<1>5. WaitsOK
  BY DEF Init, Fresh, WaitsOK, Marked, Missing
<1>6. TakesOK
  <2>1. ASSUME NEW i \in Items
        PROVE  Copies(i) = 0 /\ Chance(i) \in 0..1
    <3>1. {t \in tasks : t[1] = i} = {}
      BY DEF Init
    <3>2. QED
      BY <3>1, FS_EmptySet, ChanceType DEF Copies
  <2>2. TakesCounted
    BY <2>1 DEF Init, TakesCounted
  <2>3. QED
    BY <2>2, FS_EmptySet DEF Init, TakesOK
<1>7. SeenOK /\ EarnedOK
  BY DEF Init, Fresh, SeenOK, Seen, EarnedOK
<1>8. QED
  BY <1>1, <1>2, <1>3, <1>4, <1>5, <1>6, <1>7 DEF IInv

LEMMA NextIInv ==
  ASSUME IInv, [Next]_vars
  PROVE  IInv'
<1>1. TypeOK /\ PhaseOK /\ CardsOK /\ CardTwiceNeedsSlip /\ QueueOK /\ ReadBeforePassed
     /\ WaitsOK /\ TakesOK /\ SeenOK /\ EarnedOK
  BY DEF IInv
<1>2. TypeOK'
  BY <1>1, NextTyped
<1>3. PhaseOK' /\ CardsOK' /\ CardTwiceNeedsSlip'
  BY <1>1, <1>2, NextPhase, NextCards, NextCardTwice
<1>4. QueueOK' /\ ReadBeforePassed' /\ WaitsOK' /\ TakesOK'
  BY <1>1, NextQueue, NextRead, NextWaits, NextTakes
<1>5. SeenOK' /\ EarnedOK'
  BY <1>1, NextSeen, NextEarned
<1>6. QED
  BY <1>2, <1>3, <1>4, <1>5 DEF IInv

LEMMA IInvHolds == Spec => []IInv
  BY InitIInv, NextIInv, PTL DEF Spec

(* Every variable keeps its type in every behaviour: the failures of a     *)
(* chat stay below three, the batch within the updates there are, and the  *)
(* item in hand an item (telegram_business.py 521-624, main 1066-1103).    *)
THEOREM BusinessTypeCorrect == Spec => []TypeOK
<1>1. IInv => TypeOK
  BY DEF IInv
<1>2. QED
  BY <1>1, IInvHolds, PTL

(* An item is shown twice only when a fault hit its card or its receipt,   *)
(* for any number of messages, updates and faults (telegram_business.py    *)
(* 585-623).                                                               *)
THEOREM CardTwiceSlipped == Spec => []CardTwiceNeedsSlip
<1>1. IInv => CardTwiceNeedsSlip
  BY DEF IInv
<1>2. QED
  BY <1>1, IInvHolds, PTL

(* An item that has a receipt gets no card any more, whatever was lost or  *)
(* repeated since (telegram_business.py 598-604 and 951-964).              *)
THEOREM ReceiptsStopCards == Spec => NoCardAfterReceipt
<1>1. ASSUME IInv, [Next]_vars
      PROVE  \A i \in Items : cards'[i] > cards[i] => receipts[i] = "none"
  <2>1. SUFFICES ASSUME NEW i \in Items, cards'[i] > cards[i]
                 PROVE  receipts[i] = "none"
    OBVIOUS
  <2>2. cards[i] \in Nat
    BY <1>1 DEF IInv, TypeOK
  <2>3. pc = "card" /\ i = item
    BY <1>1, <2>1, <2>2, CardStep DEF IInv
  <2>4. QED
    BY <1>1, <2>3 DEF IInv, CardsOK
<1>2. Spec => [][\A i \in Items : cards'[i] > cards[i] => receipts[i] = "none"]_vars
  BY <1>1, IInvHolds, PTL DEF Spec
<1>3. QED
  BY <1>2 DEF NoCardAfterReceipt

(* What the watermark has passed in the buffer was read in its present     *)
(* text or given up on, in memory and in the file, for any number of       *)
(* messages, edits and faults (telegram_business.py 456-457 and 573-586).  *)
THEOREM PassedWasRead == Spec => []ReadBeforePassed
<1>1. IInv => ReadBeforePassed
  BY DEF IInv
<1>2. QED
  BY <1>1, IInvHolds, PTL

(* A candidate that was saved stays in the file until the owner's press on *)
(* it was handled or the file is lost: no later candidate, analysis, batch *)
(* or death of the adapter takes it away (telegram_business.py 605-622,    *)
(* 1025-1032 and 1047).                                                    *)
THEOREM SavedCandidatesWait == Spec => CandidateWaits
<1>1. ASSUME IInv, [Next]_vars
      PROVE  \A i \in disk.candidates \ disk'.candidates : i \in answered \/ disk' = Fresh
  <2>1. CASE disk' = disk \/ disk' = Fresh
    BY <2>1
  <2>2. CASE Save
    BY <1>1, <2>2 DEF Save, IInv, WaitsOK, Missing
  <2>3. QED
    BY <1>1, <2>1, <2>2, DiskStep
<1>2. Spec => [][\A i \in disk.candidates \ disk'.candidates :
                    i \in answered \/ disk' = Fresh]_vars
  BY <1>1, IInvHolds, PTL DEF Spec
<1>3. QED
  BY <1>2 DEF CandidateWaits

(* A candidate becomes no task before its card was shown, and more tasks   *)
(* than one only by faults, one more for each at the most, for any number  *)
(* of presses, restarts and minutes (telegram_business.py 999-1003, 1047). *)
THEOREM TasksNeedFaults == Spec => []TaskTwiceNeedsFault
<1>1. ASSUME IInv
      PROVE  TaskTwiceNeedsFault
  <2>1. SUFFICES ASSUME NEW i \in Items
                 PROVE  Copies(i) <= IF cards[i] = 0 THEN 0 ELSE 1 + faults
    BY DEF TaskTwiceNeedsFault, Copies
  <2>2. /\ Copies(i) \in Nat /\ Chance(i) \in 0..1 /\ faults \in Nat
        /\ Copies(i) + Chance(i) <= 1 + faults
    BY <1>1, CountTypes DEF IInv
  <2>3. CASE cards[i] = 0
    <3>1. {t \in tasks : t[1] = i} = {}
      BY <1>1, <2>3 DEF IInv, SeenOK
    <3>2. Copies(i) = 0
      BY <3>1, FS_EmptySet DEF Copies
    <3>3. QED
      BY <2>3, <3>2
  <2>4. CASE cards[i] # 0
    BY <2>2, <2>4
  <2>5. QED
    BY <2>3, <2>4
<1>2. QED
  BY <1>1, IInvHolds, PTL

(* A candidate that a session found is let go without a fault in that very *)
(* step only when the owner was shown a card of its message, although the  *)
(* watermark moved before: what the adapter, its file and the ledger       *)
(* remember as suggested or decided was shown, however often either of     *)
(* them was lost (telegram_business.py 586-610).                           *)
THEOREM CandidatesAreShown == Spec => CandidateShown
<1>1. ASSUME IInv, [Next]_vars
      PROVE  \A i \in InHand \ InHand' :
               (\E x \in Texts : cards'[<<i[1], x>>] > 0) \/ faults' > faults
  <2>1. TypeOK /\ PhaseOK /\ SeenOK /\ faults \in Nat
    BY <1>1, BusinessAssumption DEF IInv, TypeOK
  <2>2. SUFFICES ASSUME NEW i \in InHand, i \notin InHand', ~ Fault
                 PROVE  \E x \in Texts : cards'[<<i[1], x>>] > 0
    BY <2>1 DEF Fault
  <2>3. i \in Items
    BY <2>1 DEF InHand, TypeOK, PhaseOK
  <2>4. ASSUME cards[i] > 0
        PROVE  \E x \in Texts : cards'[<<i[1], x>>] > 0
    <3>1. cards'[i] > 0
      BY <1>1, <2>1, <2>3, <2>4, CardsStay
    <3>2. QED
      BY <2>3, <3>1 DEF Items
  <2>5. CASE \E j \in todo : CheckCandidate(j)
    <3>1. PICK j \in todo : CheckCandidate(j)
      BY <2>5
    <3>2. pc = "check" /\ pc' \in {"check", "card"} /\ todo' = todo \ {j}
      BY <2>1, <3>1, CheckTyped DEF CheckCandidate
    <3>3. i = j
      BY <2>2, <3>2 DEF InHand
    <3>4. CASE i[1] \in state.suggested
      BY <1>1, <2>1, <3>4, StatesSeen, SeenStays DEF SeenOK, Seen, TypeOK
    <3>5. CASE receipts[i] # "none"
      BY <2>1, <2>3, <2>4, <3>5 DEF SeenOK
    <3>6. CASE item' = i /\ pc' = "card"
      BY <2>2, <3>6 DEF InHand
    <3>7. QED
      BY <2>2, <3>1, <3>3, <3>4, <3>5, <3>6 DEF CheckCandidate, ShouldProcess
  <2>6. CASE RecordReview
    <3>1. pc = "receipt" /\ pc' = "check" /\ todo' = todo
      BY <2>6 DEF RecordReview
    <3>2. i = item
      BY <2>2, <3>1 DEF InHand
    <3>3. QED
      BY <2>1, <2>4, <3>1, <3>2 DEF SeenOK
  <2>7. CASE UNCHANGED <<todo, item>> /\ (pc' = pc \/ (pc = "card" /\ pc' = "receipt"))
    BY <2>2, <2>7 DEF InHand
  <2>8. CASE pc \notin {"check", "card", "receipt"} \/ CandidatesDone
    <3>1. pc \notin {"card", "receipt"} /\ todo = {}
      BY <2>1, <2>8 DEF CandidatesDone, SeenOK
    <3>2. QED
      BY <2>2, <3>1 DEF InHand
  <2>9. QED
    BY <1>1, <2>2, <2>5, <2>6, <2>7, <2>8 DEF Next, AdapterStep, Analyze, Send, Start,
       GetUpdates, ProcessUpdate, IngestCandidate, IngestFails, RecordAnswer, WriteOffset,
       EndOfBatch, NotDue, AnalysisFails, AnalysisReads, SendCard, CardFails, Save, Die,
       LoseFile, vars, telegram, adapter, server, history
<1>2. Spec => [][\A i \in InHand \ InHand' :
                    (\E x \in Texts : cards'[<<i[1], x>>] > 0) \/ faults' > faults]_vars
  BY <1>1, IInvHolds, PTL DEF Spec
<1>3. QED
  BY <1>2 DEF CandidateShown

(* What has a receipt was shown, what has an answer on record was pressed, *)
(* and what was taken became a task.                                       *)
ReceiptsAreTrue ==
  \A i \in Items :
    /\ receipts[i] # "none" => cards[i] > 0
    /\ receipts[i] \in {"ignored", "taken"} => i \in answered
    /\ receipts[i] = "taken" => \E t \in tasks : t[1] = i

(* The ledger tells the truth about the owner: what it has a receipt of    *)
(* was shown, what it has as ignored or taken was answered by a press that *)
(* the adapter handled, and what it has as taken became a task, whichever  *)
(* call failed or took effect unheard (telegram_business.py 1007-1053).    *)
THEOREM ReceiptsTellTruth == Spec => []ReceiptsAreTrue
<1>1. IInv => ReceiptsAreTrue
  BY DEF IInv, SeenOK, EarnedOK, Became, ReceiptsAreTrue
<1>2. QED
  BY <1>1, IInvHolds, PTL

=============================================================================
