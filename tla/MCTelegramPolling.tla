-------------------------- MODULE MCTelegramPolling --------------------------
(* Small instances of TelegramPolling for TLC.                             *)
EXTENDS TelegramPolling

CONSTANTS m1, m2, t0, t1, t2, l1, l2

TwoMessages == {m1, m2}
ThreeTexts == {t0, t1, t2}
TwoLines == {l1, l2}

(* t2 is t1 with a second task line; t0 has no task line.                  *)
Lines012 == [t \in ThreeTexts |-> CASE t = t0 -> {} [] t = t1 -> {l1} [] t = t2 -> {l1, l2}]

Text(m, t) == [kind |-> "text", msg |-> m, text |-> t]
Voice(m) == [kind |-> "voice", msg |-> m, text |-> t0]

(* A message, an edit of it that adds a line, an edit that leaves no task, *)
(* and a voice message.                                                    *)
TextAndVoice == {Text(m1, t1), Text(m1, t2), Text(m1, t0), Voice(m2)}
=============================================================================
