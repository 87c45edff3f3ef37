----------------------------- MODULE DeployGate -----------------------------
(***************************************************************************)
(* The life of the deploy workflow's runs on one tenant repository, from   *)
(* pipeline-templates/deploy-pipeline.yml: the plan job, the gate job that *)
(* opens an approval issue and polls its comments, and the apply job that  *)
(* verifies the approval again before it writes.  Around it, the portal's  *)
(* approve / reject / cancel / status handlers, each call of a handler     *)
(* that another actor can overtake being a step of its own.                *)
(*                                                                         *)
(* A run opens at most one approval issue, so an issue is named by its     *)
(* run.  Only comments matching approveRx or denyRx are kept; any other    *)
(* comment changes nothing.                                                *)
(***************************************************************************)
EXTENDS Naturals, Sequences

CONSTANTS
  Runs,          \* run ids of the deploy workflow of this repository
  MaxComments,   \* bound: decisions posted on one issue
  MaxFaults      \* bound: restarts of a polling step and lost listings, over all runs

ASSUME BoundsAssumption == MaxComments \in Nat /\ MaxFaults \in Nat

VARIABLES
  pc,        \* the step each run is at
  issue,     \* state of each run's approval issue; expired: closed, and says so
  comments,  \* decisions on each run's issue, oldest first
  late,      \* runs whose gate's six-hour window has passed
  calls,     \* outstanding calls of the portal's reject handlers
  rejected,  \* runs recorded as rejected in the portal's settings
  applied,   \* history: runs whose apply job passed its verification
  faults,    \* restarts of polling steps and lost listings so far
  blind      \* history: runs that lost the listing of stale issues

gateVars   == <<pc, late, applied, faults, blind>>
portalVars == <<calls, rejected>>
issueVars  == <<issue, comments>>
vars == <<pc, issue, comments, late, calls, rejected, applied, faults, blind>>

Steps     == {"idle", "queued", "plan", "issue", "resume", "poll", "expired",
              "verify", "apply", "over"}
Decisions == {"approve", "deny"}
Calls     == [run : Runs, call : {"inspect", "cancel", "close"}]

TypeOK ==
  /\ pc \in [Runs -> Steps]
  /\ issue \in [Runs -> {"none", "open", "closed", "expired"}]
  /\ comments \in [Runs -> Seq(Decisions)]
  /\ late \subseteq Runs
  /\ calls \subseteq Calls
  /\ rejected \subseteq Runs
  /\ applied \subseteq Runs
  /\ faults \in 0 .. MaxFaults
  /\ blind \subseteq Runs

Init ==
  /\ pc = [r \in Runs |-> "idle"]
  /\ issue = [r \in Runs |-> "none"]
  /\ comments = [r \in Runs |-> <<>>]
  /\ late = {}
  /\ calls = {}
  /\ rejected = {}
  /\ applied = {}
  /\ faults = 0
  /\ blind = {}

-----------------------------------------------------------------------------
(* Helpers. *)

Active(r)   == pc[r] \notin {"idle", "queued", "over"}
Approved(r) == \E i \in 1 .. Len(comments[r]) : comments[r][i] = "approve"
Denied(r)   == \E i \in 1 .. Len(comments[r]) : comments[r][i] = "deny"

Goto(r, step) == pc' = [pc EXCEPT ![r] = step]

\* Failed, cancelled or successful: what a run ended as does not matter here.
Finish(r) == Goto(r, "over")

CloseIssue(r) == issue' = [issue EXCEPT ![r] = "closed"]

\* POST .../runs/{id}/cancel: kills a run that is queued or under way.
CancelRun(r) == IF pc[r] \in {"idle", "over"}
                  THEN UNCHANGED pc ELSE Finish(r)

-----------------------------------------------------------------------------
(* Gitea and the runner. *)

Dispatch(r) ==
  /\ pc[r] = "idle"
  /\ Goto(r, "queued")
  /\ UNCHANGED <<issueVars, portalVars, late, applied, faults, blind>>

\* Mutant: no concurrency group.
StartUnserialised(r) ==
  /\ pc[r] = "queued"
  /\ Goto(r, "plan")
  /\ UNCHANGED <<issueVars, portalVars, late, applied, faults, blind>>

\* The concurrency group deploy-<repository>: no other run is under way.
Start(r) ==
  /\ pc[r] = "queued"
  /\ \A q \in Runs : ~Active(q)
  /\ Goto(r, "plan")
  /\ UNCHANGED <<issueVars, portalVars, late, applied, faults, blind>>

\* The plan job: pending changes go to the gate, none skips gate and apply,
\* a blocked item or a failed step fails the job.
Plan(r) ==
  /\ pc[r] = "plan"
  /\ \/ Goto(r, "issue")
     \/ Finish(r)
  /\ UNCHANGED <<issueVars, portalVars, late, applied, faults, blind>>

\* A job dies under way: an API call throws, or its runner goes down.
JobFails(r) ==
  /\ Active(r)
  /\ Finish(r)
  /\ UNCHANGED <<issueVars, portalVars, late, applied, faults, blind>>

-----------------------------------------------------------------------------
(* The gate job. *)

\* Mutant: stale issues stay open.
CreateIssueOnly(r) ==
  /\ pc[r] = "issue"
  /\ issue' = [issue EXCEPT ![r] = "open"]
  /\ Goto(r, "resume")
  /\ UNCHANGED <<comments, portalVars, late, applied, faults, blind>>

Stale == {q \in Runs : issue[q] = "open"}

\* Close every stale open approval issue, then open this run's.  The listing of
\* stale ones ignores errors, page by page: what it misses stays open.
CreateIssue(r) ==
  /\ pc[r] = "issue"
  /\ \E listed \in SUBSET Stale :
       /\ issue' = [q \in Runs |-> IF q = r THEN "open"
                                   ELSE IF q \in listed THEN "closed" ELSE issue[q]]
       /\ IF listed = Stale
            THEN UNCHANGED <<blind, faults>>
            ELSE blind' = blind \cup {r} /\ faults < MaxFaults /\ faults' = faults + 1
  /\ Goto(r, "resume")
  /\ UNCHANGED <<comments, portalVars, late, applied>>

\* The resume check.  Both reads ignore errors: a failed read looks like no
\* comment, respectively like an issue that is not closed.
ResumeCheck(r) ==
  /\ pc[r] = "resume"
  /\ \E seen \in {comments[r], <<>>}, state \in {issue[r], "unread"} :
       \/ /\ seen # <<>> /\ Head(seen) = "approve"
          /\ Goto(r, "verify")
       \/ /\ seen # <<>> /\ Head(seen) = "deny"
          /\ Finish(r)
       \/ /\ seen = <<>> /\ state \in {"closed", "expired"}
          /\ Finish(r)
       \/ /\ seen = <<>> /\ state \notin {"closed", "expired"}
          /\ Goto(r, "poll")
  /\ UNCHANGED <<issueVars, portalVars, late, applied, faults, blind>>

\* Mutant: any approval wins over an earlier denial.
PollTickAnyApproval(r) ==
  /\ pc[r] = "poll"
  /\ r \notin late
  /\ comments[r] # <<>>
  /\ IF Approved(r) THEN Goto(r, "verify") ELSE Finish(r)
  /\ CloseIssue(r)
  /\ UNCHANGED <<comments, portalVars, late, applied, faults, blind>>

\* One tick of the poll loop that finds a decision: the oldest one counts.
PollTick(r) ==
  /\ pc[r] = "poll"
  /\ r \notin late
  /\ comments[r] # <<>>
  /\ \/ /\ Head(comments[r]) = "approve"
        /\ Goto(r, "verify")
     \/ /\ Head(comments[r]) = "deny"
        /\ Finish(r)
  /\ CloseIssue(r)
  /\ UNCHANGED <<comments, portalVars, late, applied, faults, blind>>

\* Six hours after the step began.
WindowCloses(r) ==
  /\ pc[r] = "poll"
  /\ r \notin late
  /\ late' = late \cup {r}
  /\ UNCHANGED <<pc, issueVars, portalVars, applied, faults, blind>>

\* Mutant: an issue somebody else closed is not expired.
ExpireOpenOnly(r) ==
  /\ pc[r] = "poll"
  /\ r \in late
  /\ issue[r] = "open"
  /\ issue' = [issue EXCEPT ![r] = "expired"]
  /\ Goto(r, "expired")
  /\ UNCHANGED <<comments, portalVars, late, applied, faults, blind>>

\* The tick after that closes the issue without looking at its comments.
Expire(r) ==
  /\ pc[r] = "poll"
  /\ r \in late
  /\ issue' = [issue EXCEPT ![r] = "expired"]
  /\ Goto(r, "expired")
  /\ UNCHANGED <<comments, portalVars, late, applied, faults, blind>>

\* Cancel the run, errors ignored, then exit 0: unless the cancel went
\* through, the gate has succeeded.
ExpireCancel(r) ==
  /\ pc[r] = "expired"
  /\ CancelRun(r) \/ Goto(r, "verify")
  /\ UNCHANGED <<issueVars, portalVars, late, applied, faults, blind>>

\* The container restarts and the polling step begins again, with a new window,
\* also when it was about to cancel the run.
RestartStep(r) ==
  /\ pc[r] \in {"resume", "poll", "expired"}
  /\ faults < MaxFaults
  /\ faults' = faults + 1
  /\ late' = late \ {r}
  /\ Goto(r, "resume")
  /\ UNCHANGED <<issueVars, portalVars, applied, blind>>

-----------------------------------------------------------------------------
(* The apply job. *)

\* Mutant: the gate's success is trusted.
TrustGate(r) ==
  /\ pc[r] = "verify"
  /\ Goto(r, "apply")
  /\ applied' = applied \cup {r}
  /\ UNCHANGED <<issueVars, portalVars, late, faults, blind>>

VerifyApproval(r) ==
  /\ pc[r] = "verify"
  /\ IF Approved(r)
       THEN Goto(r, "apply") /\ applied' = applied \cup {r}
       ELSE Finish(r) /\ UNCHANGED applied
  /\ UNCHANGED <<issueVars, portalVars, late, faults, blind>>

Apply(r) ==
  /\ pc[r] = "apply"
  /\ Finish(r)
  /\ UNCHANGED <<issueVars, portalVars, late, applied, faults, blind>>

-----------------------------------------------------------------------------
(* The portal.  An issue can be commented on in any state: a stale tab may  *)
(* still show it.                                                           *)

PostComment(r, decision) ==
  /\ issue[r] # "none"
  /\ Len(comments[r]) < MaxComments
  /\ comments' = [comments EXCEPT ![r] = Append(@, decision)]

Approve(r) ==
  /\ PostComment(r, "approve")
  /\ UNCHANGED <<gateVars, portalVars, issue>>

\* Reject, step 1: the comment is posted and the issue's body requested.
Reject(r) ==
  /\ PostComment(r, "deny")
  /\ calls' = calls \cup {[run |-> r, call |-> "inspect"]}
  /\ UNCHANGED <<gateVars, issue, rejected>>

\* Step 2: the body names the run: record the rejection and fire both calls.
\* When the read fails, only the closing call is fired.
RejectInspect(r) ==
  /\ [run |-> r, call |-> "inspect"] \in calls
  /\ LET rest == calls \ {[run |-> r, call |-> "inspect"]} IN
     \/ /\ rejected' = rejected \cup {r}
        /\ calls' = rest \cup [run : {r}, call : {"cancel", "close"}]
     \/ /\ calls' = rest \cup {[run |-> r, call |-> "close"]}
        /\ UNCHANGED rejected
  /\ UNCHANGED <<gateVars, issueVars>>

\* The two calls are not awaited and their errors are dropped.
RejectCancel(r) ==
  /\ [run |-> r, call |-> "cancel"] \in calls
  /\ calls' = calls \ {[run |-> r, call |-> "cancel"]}
  /\ CancelRun(r) \/ UNCHANGED pc
  /\ UNCHANGED <<issueVars, late, rejected, applied, faults, blind>>

RejectClose(r) ==
  /\ [run |-> r, call |-> "close"] \in calls
  /\ calls' = calls \ {[run |-> r, call |-> "close"]}
  /\ CloseIssue(r) \/ UNCHANGED issue
  /\ UNCHANGED <<gateVars, comments, rejected>>

\* POST /api/pipelines/cancel.
CancelPipeline(r) ==
  /\ pc[r] \notin {"idle", "over"}
  /\ CancelRun(r)
  /\ UNCHANGED <<issueVars, portalVars, late, applied, faults, blind>>

\* Mutant: the run's state is not looked at.
CloseListedIssue(r) ==
  /\ issue[r] = "open"
  /\ CloseIssue(r)
  /\ UNCHANGED <<gateVars, portalVars, comments>>

\* GET /api/pipelines/approvals and /status close an issue whose run is over.
CloseStaleIssue(r) ==
  /\ issue[r] = "open"
  /\ pc[r] = "over"
  /\ CloseIssue(r)
  /\ UNCHANGED <<gateVars, portalVars, comments>>

-----------------------------------------------------------------------------
RunnerStep(r) ==
  \/ Plan(r) \/ CreateIssue(r) \/ ResumeCheck(r) \/ PollTick(r)
  \/ Expire(r) \/ ExpireCancel(r) \/ VerifyApproval(r) \/ Apply(r)

PortalStep(r) ==
  \/ Approve(r) \/ Reject(r) \/ RejectInspect(r) \/ RejectCancel(r)
  \/ RejectClose(r) \/ CancelPipeline(r) \/ CloseStaleIssue(r)

Next ==
  \E r \in Runs :
    \/ Dispatch(r) \/ Start(r) \/ RunnerStep(r) \/ WindowCloses(r)
    \/ JobFails(r) \/ RestartStep(r) \/ PortalStep(r)

\* Gitea starts what it may start, a runner carries on with its job and the
\* clock advances.  Operators owe nothing, and nothing has to fail.
Fairness ==
  \A r \in Runs :
    WF_vars(Start(r)) /\ WF_vars(RunnerStep(r)) /\ WF_vars(WindowCloses(r))

SafetySpec == Init /\ [][Next]_vars
Spec       == SafetySpec /\ Fairness

-----------------------------------------------------------------------------
(* Properties. *)

\* Whatever let the gate succeed (a decision, the resume check, an expiry whose
\* cancel did not work), the apply job only writes for a run somebody approved
\* on that run's own issue ("A successful gate job is not enough").
ApprovedBeforeApply == \A r \in applied : Approved(r)

\* Opening an issue closes what crashed or cancelled runs left open: two issues
\* are open only if one of their runs lost the listing of the others.
OneOpenIssue ==
  \A q, r \in Runs :
    issue[q] = "open" /\ issue[r] = "open" => q = r \/ {q, r} \cap blind # {}

\* A run in its polling step can be decided in the portal: its issue disappears
\* from the list only once somebody denied it, or marked as expired by the run
\* itself (a restart then polls it).  The gate, the next run's gate, the status
\* pages and the reject handler all close issues.
AwaitedIssueVisible ==
  \A r \in Runs :
    pc[r] \in {"resume", "poll", "expired"} /\ issue[r] = "closed" => Denied(r)

\* When the oldest decision is a denial, later approvals do not help, except
\* through the expiry branch, which never looks at the comments.
DenialStandsUntilExpiry ==
  \A r \in applied : Head(comments[r]) = "deny" => r \in late

\* A dispatched run ends, answered or not: the window closes, and the run frees
\* the concurrency group for the runs queued behind it.
DispatchedRunEnds == \A r \in Runs : pc[r] = "queued" ~> pc[r] = "over"

\* settings-store.ts: a rejected run "exits with code 1 (so the apply job never
\* runs)": no apply starts for a run already recorded as rejected.
RejectedRunNeverApplies ==
  [][\A r \in applied' \ applied : r \notin rejected]_vars

\* Every run plans, asks, is approved and applies in the order, and under the
\* one-run-at-a-time rule, that Deployment states.
AbstractPhase(r) ==
  CASE pc[r] \in {"idle", "queued"} -> "waiting"
    [] pc[r] \in {"plan", "issue"} -> "planning"
    [] pc[r] \in {"resume", "poll", "expired", "verify"} -> "gated"
    [] pc[r] = "apply" -> "applying"
    [] OTHER -> "over"

Deploy == INSTANCE Deployment
            WITH phase    <- [r \in Runs |-> AbstractPhase(r)],
                 approved <- {r \in Runs : Approved(r)}

ImplementsDeployment == Deploy!Spec

=============================================================================
