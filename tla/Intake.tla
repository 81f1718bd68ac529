------------------------------- MODULE Intake --------------------------------
(***************************************************************************)
(* What an adapter promises the owner of a source                          *)
(* (docs/ADAPTER_CONTRACT.md, "Telegram reference implementation"), with   *)
(* no processes, requests or offset files: every task comes from a message *)
(* that was sent, a receipt is given for a text only after all its lines   *)
(* became tasks, receipts are kept, the adapter takes no task away, and it *)
(* passes a text only when all its lines became tasks, and never goes back.*)
(***************************************************************************)
EXTENDS Naturals, Sequences

CONSTANTS
  Messages,
  Lines,      (* task lines                                                *)
  Parsed,     (* the task lines of each text                               *)
  Updates     (* what people may send: [kind, msg, text]                   *)

VARIABLES
  sent,       (* every update so far                                       *)
  passed,     (* the updates before this one are not asked for any more    *)
  tasks,      (* the tasks on the board, <<message, line>>                 *)
  made,       (* every <<message, line>> that ever was one                 *)
  receipts,   (* <<message, text>>, decided on                             *)
  voices      (* tasks made of each voice message                          *)

vars == <<sent, passed, tasks, made, receipts, voices>>

Init ==
  /\ sent = << >> /\ passed = 1
  /\ tasks = {} /\ made = {} /\ receipts = {}
  /\ voices = [m \in Messages |-> 0]

Settled(u) == u.kind = "text" => \A l \in Parsed[u.text] : <<u.msg, l>> \in made

Arrive(u) ==
  /\ sent' = Append(sent, u)
  /\ UNCHANGED <<passed, tasks, made, receipts, voices>>

MakeTask(u, l) ==
  /\ u.kind = "text"
  /\ l \in Parsed[u.text]
  /\ tasks' = tasks \cup {<<u.msg, l>>}
  /\ made' = made \cup {<<u.msg, l>>}
  /\ UNCHANGED <<sent, passed, receipts, voices>>

MakeVoiceTask(u) ==
  /\ u.kind = "voice"
  /\ voices' = [voices EXCEPT ![u.msg] = @ + 1]
  /\ UNCHANGED <<sent, passed, tasks, made, receipts>>

GiveReceipt(u) ==
  /\ u.kind = "text"
  /\ Settled(u)
  /\ receipts' = receipts \cup {<<u.msg, u.text>>}
  /\ UNCHANGED <<sent, passed, tasks, made, voices>>

(* The owner, not the adapter.                                             *)
DeleteTask(t) ==
  /\ tasks' = tasks \ {t}
  /\ UNCHANGED <<sent, passed, made, receipts, voices>>

Pass(n) ==
  /\ passed < n
  /\ \A i \in 1..(n - 1) : Settled(sent[i])
  /\ passed' = n
  /\ UNCHANGED <<sent, tasks, made, receipts, voices>>

Next ==
  \/ \E u \in Updates : Arrive(u)
  \/ \E i \in 1..Len(sent) :
       \/ \E l \in Lines : MakeTask(sent[i], l)
       \/ MakeVoiceTask(sent[i])
       \/ GiveReceipt(sent[i])
       \/ Pass(i + 1)
  \/ \E t \in tasks : DeleteTask(t)

Spec == Init /\ [][Next]_vars

=============================================================================
