--------------------------- MODULE MCTenantTokens ---------------------------
(* TenantTokens for TLC. *)
EXTENDS TenantTokens, TLC

Symmetry == Permutations(Requests)
=============================================================================
