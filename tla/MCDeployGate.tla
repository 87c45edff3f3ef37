---------------------------- MODULE MCDeployGate ----------------------------
(* DeployGate for TLC: the configurations give its constants.  Runs are not *)
(* declared symmetric, since liveness is checked.                           *)
EXTENDS DeployGate, TLC
=============================================================================
