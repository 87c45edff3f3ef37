---------------------------- MODULE MCImportJob ----------------------------
(* ImportJob for TLC: the configuration gives its constants.  Imports are   *)
(* not declared symmetric, since liveness is checked.                       *)
EXTENDS ImportJob, TLC
=============================================================================
