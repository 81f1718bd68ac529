------------------------------ MODULE Ranking -------------------------------
(***************************************************************************)
(* What the server concludes from a task and the time: which tasks are     *)
(* active, overdue and due soon, their smart rank (app/main.py), and which *)
(* are due for a reminder (app/store.py). Times are numbers from 1 on; a   *)
(* target that is not set is Never, a stamp that is not set is 0.          *)
(***************************************************************************)
EXTENDS Integers, FiniteSets

CONSTANTS Day, Never

ASSUME TimesAssumption == Day \in Nat \ {0} /\ Never \in Nat

Active(r) == r.status \notin {"done", "cancelled"}
Targets(r) == {r.due, r.remind} \ {Never}
DueSortValue(r) == IF r.due < r.remind THEN r.due ELSE r.remind

Overdue(r, n) == Active(r) /\ \E x \in Targets(r) : x < n
DueSoon(r, n) == Active(r) /\ \E x \in Targets(r) : n <= x /\ x <= n + Day
CodexReady(r) ==
  Active(r) /\ r.assignee = "codex" /\ r.status \in {"backlog", "in_progress"}

Rank(r, n) ==
  LET If(p, k) == IF p THEN k ELSE 0
  IN 100 * r.priority - If(Overdue(r, n), 70) - If(DueSoon(r, n), 30)
     - If(CodexReady(r), 18) - If(r.status = "waiting_review", 12)
     + If(r.status = "blocked", 15) + If(~Active(r), 200)

(* sort=smart; what the modification time decides is left open.            *)
SmartBefore(r, q, n) ==
  \/ Rank(r, n) < Rank(q, n)
  \/ Rank(r, n) = Rank(q, n) /\ DueSortValue(r) < DueSortValue(q)

(* Mutant: a target still ahead re-arms the reminder that was just sent.   *)
ReminderDueAhead(r, n) ==
  /\ Active(r)
  /\ \E x \in Targets(r) : x <= n
  /\ \E x \in Targets(r) : r.sent < x

(* Only a target that has passed since the last reminder makes one due.    *)
ReminderDue(r, n) == Active(r) /\ \E x \in Targets(r) : r.sent < x /\ x <= n
=============================================================================
