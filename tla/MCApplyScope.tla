---------------------------- MODULE MCApplyScope ----------------------------
(* ApplyScope for TLC. *)
EXTENDS ApplyScope, TLC
Symmetry == Permutations(Modals)

\* Bound: two windows, or more than two marks, for one run in which nothing fails.
Crossing == toggles > 2 \/ \A m \in Modals : modal[m].shows # 0
Bound    == Crossing => run = 1 /\ failed = {} /\ ignore = {} /\ faults = 0
=============================================================================
