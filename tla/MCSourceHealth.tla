--------------------------- MODULE MCSourceHealth ----------------------------
(* Small instances of SourceHealth for TLC.                                *)
EXTENDS SourceHealth, TLC

(* Callers are interchangeable; no liveness is checked.                    *)
Symmetry == Permutations(Reporters)

=============================================================================
