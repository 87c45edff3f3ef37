-------------------------- MODULE MCPendingActions --------------------------
(* PendingActions on small sets of tenants, files, users and apps. *)
EXTENDS PendingActions, TLC

Symmetry == Permutations(Tenants) \cup Permutations(Users)
=============================================================================
