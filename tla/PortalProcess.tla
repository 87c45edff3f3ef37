--------------------------- MODULE PortalProcess ---------------------------
(* What every bootstrap of the portal is exposed to: a call to Gitea may     *)
(* fail, and the portal may stop between two steps and start again.          *)
EXTENDS Naturals

CONSTANTS MaxFaults, MaxRestarts   \* bounds: failed calls; restarts of the portal or of its container

ASSUME BoundsAssumption == MaxFaults \in Nat /\ MaxRestarts \in Nat

VARIABLES faults, restarts

\* A call that fails.
Fault == faults < MaxFaults /\ faults' = faults + 1
=============================================================================
