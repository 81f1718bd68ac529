---------------------------- MODULE LatestReport -----------------------------
(***************************************************************************)
(* What the health register of one source promises its adapters            *)
(* (docs/ADAPTER_CONTRACT.md, "Source health"): the report with the        *)
(* greatest checked_at is the state shown, the first one of those with the *)
(* same checked_at, and last_success_at and last_error_at are the times of *)
(* the latest healthy and the latest failing report that were shown.       *)
(***************************************************************************)
EXTENDS Naturals

CONSTANT Reports  (* [ok : BOOLEAN, at : Nat \ {0}]                        *)

VARIABLE shown    (* the reports that were shown, each newer than the last *)

Newer(r) == \A s \in shown : s.at < r.at

Init == shown = {}

Show(r) ==
  /\ Newer(r)
  /\ shown' = shown \cup {r}

Next == \E r \in Reports : Show(r)

Spec == Init /\ [][Next]_shown

=============================================================================
