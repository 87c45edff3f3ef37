--------------------------- MODULE MCPackageEdits ---------------------------
(* PackageEdits for TLC. *)
EXTENDS PackageEdits, TLC
Symmetry == Permutations(Pages)

\* Bound: groups and icons come with winget's saves; the others write them by the same calls.
Plain == sort # "winget" => grouped = {} /\ \A n \in 1 .. ops : saves[n].kind \notin {"icon", "bare"}
=============================================================================
