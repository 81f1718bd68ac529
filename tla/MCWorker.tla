------------------------------ MODULE MCWorker ------------------------------
(* A small instance of Worker for TLC.                                     *)
EXTENDS Worker, TLC

(* Tasks, and the calls of the session, are interchangeable; no liveness   *)
(* is checked.                                                             *)
Symmetry == Permutations(Tasks) \cup Permutations(Session)

(* A button that sends back, a reply that closes.                          *)
SomeActs == {<<"press", "rework">>, <<"reply", "done">>}
=============================================================================
