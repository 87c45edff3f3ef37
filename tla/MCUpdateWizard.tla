--------------------------- MODULE MCUpdateWizard ---------------------------
(* UpdateWizard for TLC.  Once sessions have overlapped, only behaviours   *)
(* with two crashes or failed calls in all are followed.                    *)
EXTENDS UpdateWizard

OverlapBound == overlap => crashes + faults <= 2
=============================================================================
