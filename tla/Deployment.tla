----------------------------- MODULE Deployment -----------------------------
(***************************************************************************)
(* What the deploy pipeline of one tenant repository promises, without     *)
(* issues, comments, jobs or timeouts: a run plans, asks for approval and  *)
(* writes to the tenant only once somebody has approved that very run; one *)
(* run at a time is between its start and its end; a run may stop at any   *)
(* point.  DeployGate is shown to implement this module.                   *)
(***************************************************************************)
EXTENDS Naturals

CONSTANT Runs   \* the runs of the deploy workflow of one tenant repository

VARIABLES
  phase,        \* how far each run has come
  approved      \* the runs somebody has approved

vars == <<phase, approved>>

Phases == {"waiting", "planning", "gated", "applying", "over"}

Active(r) == phase[r] \in {"planning", "gated", "applying"}

Init ==
  /\ phase = [r \in Runs |-> "waiting"]
  /\ approved = {}

Start(r) ==
  /\ phase[r] = "waiting"
  /\ \A q \in Runs : ~Active(q)
  /\ phase' = [phase EXCEPT ![r] = "planning"]
  /\ UNCHANGED approved

AskApproval(r) ==
  /\ phase[r] = "planning"
  /\ phase' = [phase EXCEPT ![r] = "gated"]
  /\ UNCHANGED approved

\* An approval may also arrive late, when the run it names is already over.
Approve(r) ==
  /\ phase[r] \notin {"waiting", "planning"}
  /\ approved' = approved \cup {r}
  /\ UNCHANGED phase

Apply(r) ==
  /\ phase[r] = "gated"
  /\ r \in approved
  /\ phase' = [phase EXCEPT ![r] = "applying"]
  /\ UNCHANGED approved

End(r) ==
  /\ phase[r] # "over"
  /\ phase' = [phase EXCEPT ![r] = "over"]
  /\ UNCHANGED approved

Next ==
  \E r \in Runs :
    Start(r) \/ AskApproval(r) \/ Approve(r) \/ Apply(r) \/ End(r)

Spec == Init /\ [][Next]_vars
=============================================================================
