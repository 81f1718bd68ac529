------------------------------ MODULE MCRounds ------------------------------
(* A small instance of Rounds for TLC.                                     *)
EXTENDS Rounds, TLC

(* Tasks, and triage sessions, are interchangeable; no liveness is checked.*)
Symmetry == Permutations(Tasks) \cup Permutations(Triagers)

Old(s, p, d, r) == [status |-> s, assignee |-> "codex", priority |-> p, due |-> d,
                    remind |-> r, sent |-> 0, shown |-> 0]

(* A task to be reminded of twice, and a review without targets.           *)
Reminder == Old("backlog", 2, 3, 2)
Review == Old("waiting_review", 3, Never, Never)
Boards == [Tasks -> {Reminder, Review}]

OneOfEach == {b \in Boards : \A q \in {Reminder, Review} : \E t \in Tasks : b[t] = q}

Runs(rounds, boards, n) == {[rounds |-> rounds, board |-> b, until |-> n] : b \in boards}

(* The watch loop with any board; with the script, or with triage_apply,   *)
(* and one of each; triage; resolutions with their history; the ritual,    *)
(* over two days.                                                          *)
SomeInstallations ==
  Runs({"watch"}, Boards, 5) \cup Runs({"watch", "script"}, OneOfEach, 4)
  \cup Runs({"watch", "resolve"}, OneOfEach, 4)
  \cup Runs({"triage", "resolve"}, Boards, 4)
  \cup Runs({"resolve", "history"}, OneOfEach, 2)
  \cup Runs({"ritual"}, OneOfEach, 9)

OnlyTheRitual == Runs({"ritual"}, OneOfEach, 5)

Ask(a, s, p, d) == [action |-> a, status |-> s, assignee |-> Unset, priority |-> p,
                    due |-> d, remind |-> 0, note |-> FALSE]
SomeResolutions == {Ask("done", "backlog", 0, 0), Ask("defer", Unset, 4, 2)}
=============================================================================
