--------------------------- MODULE MCBaselineEdits --------------------------
(* BaselineEdits for TLC. *)
EXTENDS BaselineEdits, TLC
Symmetry == Permutations(Pages) \cup Permutations(Policies)
=============================================================================
