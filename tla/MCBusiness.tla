----------------------------- MODULE MCBusiness ------------------------------
(* Small instances of Business for TLC.                                    *)
EXTENDS Business

CONSTANTS a, b

ThreeMsgs == {1, 2, 3}
TwoTexts == {a, b}

Do(kind, m, x) == [kind |-> kind, msg |-> m, text |-> x]

(* Three messages, an edit of the first, its deletion, and presses on its  *)
(* card.                                                                   *)
ChatUpdates == {Do("message", 1, a), Do("message", 2, a), Do("message", 3, a), Do("edited", 1, b),
                Do("deleted", 1, a), Do("take", 1, a), Do("skip", 1, a)}

=============================================================================
