--------------------------- MODULE MCMspBootstrap ---------------------------
(* One tenant, created twice, two failed calls, a restart and two keys: its *)
(* creation and the run wait for each other, both make its repository, it   *)
(* is deleted under either and made again; the key is rotated under the     *)
(* run, and by two requests at once.  That more tenants change nothing for  *)
(* the invariants is proved in BootstrapProofs.                             *)
EXTENDS MspBootstrap
=============================================================================
