------------------------ MODULE DeployPipelineProofs ------------------------
(***************************************************************************)
(* Theorems about DeployGate for every set of runs and every bound: type   *)
(* correctness, the safety invariants of the gate, and that each of its    *)
(* steps is a step, or a stutter, of Deployment; and about PendingActions  *)
(* for every set of tenants, files, users and apps: type correctness, that *)
(* a cleanup with its own run's result drops no request that was not       *)
(* carried out, and that it spares what was queued after its clone.        *)
(***************************************************************************)
EXTENDS DeployGate, PendingActions, TLAPS

-----------------------------------------------------------------------------
(* The gate: the inductive invariant. *)

\* The concurrency group at work.
OneActiveRun == \A q, r \in Runs : Active(q) /\ Active(r) => q = r

\* Before the gate job there is nothing to comment on.
NoEarlyIssue ==
  \A r \in Runs :
    /\ issue[r] = "none" => comments[r] = <<>>
    /\ pc[r] \in {"idle", "queued", "plan", "issue"} => issue[r] = "none"

\* The reject handler has posted its comment before any of its other calls.
CallsFollowDenial == \A c \in calls : Denied(c.run)

\* A run past the gate was approved first, or its window had passed.
PassedGate(r) ==
  \/ comments[r] # <<>> /\ Head(comments[r]) = "approve"
  \/ r \in late

GatePassed ==
  \A r \in Runs :
    /\ pc[r] \in {"expired", "verify", "apply"} => PassedGate(r)
    /\ r \in applied => pc[r] \in {"apply", "over"} /\ PassedGate(r)
    /\ pc[r] = "expired" => r \in late
    /\ pc[r] = "apply" => r \in applied

IInv ==
  /\ TypeOK
  /\ OneActiveRun
  /\ NoEarlyIssue
  /\ CallsFollowDenial
  /\ GatePassed
  /\ ApprovedBeforeApply
  /\ OneOpenIssue
  /\ AwaitedIssueVisible

-----------------------------------------------------------------------------
\* The initial state satisfies the invariant.
LEMMA InitIInv == Init => IInv
BY BoundsAssumption DEF Init, IInv, TypeOK, OneActiveRun, NoEarlyIssue,
   CallsFollowDenial,
  GatePassed, ApprovedBeforeApply, OneOpenIssue, AwaitedIssueVisible, Active,
  Steps

\* Type correctness is preserved.
LEMMA TypeStep == TypeOK /\ [Next]_vars => TypeOK'
<1> SUFFICES ASSUME TypeOK, Next PROVE TypeOK'
  BY DEF TypeOK, vars
<1> PICK r \in Runs :
      \/ Dispatch(r) \/ Start(r) \/ RunnerStep(r) \/ WindowCloses(r)
      \/ JobFails(r) \/ RestartStep(r) \/ PortalStep(r)
  BY DEF Next
<1> USE DEF TypeOK, gateVars, portalVars, issueVars, Goto, Finish, CloseIssue,
      CancelRun, PostComment, Steps, Decisions, Calls
<1>1. CASE Dispatch(r)  BY <1>1 DEF Dispatch
<1>2. CASE Start(r)  BY <1>2 DEF Start
<1>3. CASE Plan(r)  BY ZenonT(60), <1>3 DEF Plan
<1>4. CASE CreateIssue(r)  BY <1>4, BoundsAssumption DEF CreateIssue, Stale
<1>5. CASE ResumeCheck(r)  BY <1>5 DEF ResumeCheck
<1>6. CASE PollTick(r)  BY <1>6 DEF PollTick
<1>7. CASE WindowCloses(r)  BY <1>7 DEF WindowCloses
<1>8. CASE Expire(r)  BY <1>8 DEF Expire
<1>9. CASE ExpireCancel(r)  BY <1>9 DEF ExpireCancel
<1>10. CASE RestartStep(r)  BY <1>10, BoundsAssumption DEF RestartStep
<1>11. CASE JobFails(r)  BY <1>11 DEF JobFails
<1>12. CASE VerifyApproval(r)  BY <1>12 DEF VerifyApproval
<1>13. CASE Apply(r)  BY <1>13 DEF Apply
<1>14. CASE Approve(r)  BY <1>14 DEF Approve
<1>15. CASE Reject(r)  BY <1>15 DEF Reject
<1>16. CASE RejectInspect(r)  BY <1>16 DEF RejectInspect
<1>17. CASE RejectCancel(r)  BY <1>17 DEF RejectCancel
<1>18. CASE RejectClose(r)  BY <1>18 DEF RejectClose
<1>19. CASE CancelPipeline(r)  BY <1>19 DEF CancelPipeline
<1>20. CASE CloseStaleIssue(r)  BY <1>20 DEF CloseStaleIssue
<1>21. QED
  BY <1>1, <1>2, <1>3, <1>4, <1>5, <1>6, <1>7, <1>8, <1>9, <1>10, <1>11,
     <1>12, <1>13, <1>14, <1>15, <1>16, <1>17, <1>18, <1>19, <1>20
     DEF RunnerStep, PortalStep

\* Only Start makes a run active, and only when no other run is.
LEMMA OneActiveRunStep ==
  TypeOK /\ OneActiveRun /\ [Next]_vars => OneActiveRun'
<1> SUFFICES ASSUME TypeOK, OneActiveRun, Next PROVE OneActiveRun'
  BY DEF OneActiveRun, Active, vars
<1> PICK r \in Runs :
      \/ Dispatch(r) \/ Start(r) \/ RunnerStep(r) \/ WindowCloses(r)
      \/ JobFails(r) \/ RestartStep(r) \/ PortalStep(r)
  BY DEF Next
<1> USE DEF TypeOK, gateVars, portalVars, issueVars, Goto, Finish, CloseIssue,
      CancelRun, PostComment, Steps, Decisions, Calls,
      OneActiveRun, Active
<1>1. CASE Dispatch(r)  BY <1>1 DEF Dispatch
<1>2. CASE Start(r)  BY <1>2 DEF Start
<1>3. CASE Plan(r)  BY <1>3 DEF Plan
<1>4. CASE CreateIssue(r)  BY <1>4, BoundsAssumption DEF CreateIssue, Stale
<1>5. CASE ResumeCheck(r)  BY ZenonT(60), <1>5 DEF ResumeCheck
<1>6. CASE PollTick(r)  BY <1>6 DEF PollTick
<1>7. CASE WindowCloses(r)  BY <1>7 DEF WindowCloses
<1>8. CASE Expire(r)  BY <1>8 DEF Expire
<1>9. CASE ExpireCancel(r)  BY ZenonT(60), <1>9 DEF ExpireCancel
<1>10. CASE RestartStep(r)  BY <1>10 DEF RestartStep
<1>11. CASE JobFails(r)  BY <1>11 DEF JobFails
<1>12. CASE VerifyApproval(r)  BY <1>12 DEF VerifyApproval
<1>13. CASE Apply(r)  BY <1>13 DEF Apply
<1>14. CASE Approve(r)  BY <1>14 DEF Approve
<1>15. CASE Reject(r)  BY <1>15 DEF Reject
<1>16. CASE RejectInspect(r)  BY <1>16 DEF RejectInspect
<1>17. CASE RejectCancel(r)  BY ZenonT(60), <1>17 DEF RejectCancel
<1>18. CASE RejectClose(r)  BY <1>18 DEF RejectClose
<1>19. CASE CancelPipeline(r)  BY <1>19 DEF CancelPipeline
<1>20. CASE CloseStaleIssue(r)  BY <1>20 DEF CloseStaleIssue
<1>21. QED
  BY <1>1, <1>2, <1>3, <1>4, <1>5, <1>6, <1>7, <1>8, <1>9, <1>10, <1>11,
     <1>12, <1>13, <1>14, <1>15, <1>16, <1>17, <1>18, <1>19, <1>20
     DEF RunnerStep, PortalStep

\* Comments need an issue, and only the gate job opens one.
LEMMA NoEarlyIssueStep ==
  TypeOK /\ NoEarlyIssue /\ CallsFollowDenial /\ [Next]_vars => NoEarlyIssue'
<1> SUFFICES ASSUME TypeOK, NoEarlyIssue, CallsFollowDenial, Next
             PROVE  NoEarlyIssue'
  BY DEF NoEarlyIssue, vars
<1> PICK r \in Runs :
      \/ Dispatch(r) \/ Start(r) \/ RunnerStep(r) \/ WindowCloses(r)
      \/ JobFails(r) \/ RestartStep(r) \/ PortalStep(r)
  BY DEF Next
<1> USE DEF TypeOK, gateVars, portalVars, issueVars, Goto, Finish, CloseIssue,
      CancelRun, PostComment, Steps, Decisions, Calls, NoEarlyIssue
<1>1. CASE Dispatch(r)  BY <1>1 DEF Dispatch
<1>2. CASE Start(r)  BY <1>2 DEF Start
<1>3. CASE Plan(r)  BY <1>3 DEF Plan
<1>4. CASE CreateIssue(r)  BY <1>4, BoundsAssumption DEF CreateIssue, Stale
<1>5. CASE ResumeCheck(r)  BY <1>5 DEF ResumeCheck
<1>6. CASE PollTick(r)  BY <1>6 DEF PollTick
<1>7. CASE WindowCloses(r)  BY <1>7 DEF WindowCloses
<1>8. CASE Expire(r)  BY <1>8 DEF Expire
<1>9. CASE ExpireCancel(r)  BY <1>9 DEF ExpireCancel
<1>10. CASE RestartStep(r)  BY <1>10 DEF RestartStep
<1>11. CASE JobFails(r)  BY <1>11 DEF JobFails
<1>12. CASE VerifyApproval(r)  BY <1>12 DEF VerifyApproval
<1>13. CASE Apply(r)  BY <1>13 DEF Apply
<1>14. CASE Approve(r)  BY <1>14 DEF Approve
<1>15. CASE Reject(r)  BY <1>15 DEF Reject
<1>16. CASE RejectInspect(r)  BY <1>16 DEF RejectInspect
<1>17. CASE RejectCancel(r)  BY <1>17 DEF RejectCancel
<1>18. CASE RejectClose(r)
  <2>1. Denied(r) /\ comments[r] # <<>>
    BY <1>18 DEF RejectClose, CallsFollowDenial, Denied
  <2>2. QED  BY <1>18, <2>1 DEF RejectClose
<1>19. CASE CancelPipeline(r)  BY <1>19 DEF CancelPipeline
<1>20. CASE CloseStaleIssue(r)  BY <1>20 DEF CloseStaleIssue
<1>21. QED
  BY <1>1, <1>2, <1>3, <1>4, <1>5, <1>6, <1>7, <1>8, <1>9, <1>10, <1>11,
     <1>12, <1>13, <1>14, <1>15, <1>16, <1>17, <1>18, <1>19, <1>20
     DEF RunnerStep, PortalStep

\* The reject handler's calls come after its comment, which stays.
LEMMA CallsFollowDenialStep ==
  TypeOK /\ NoEarlyIssue /\ CallsFollowDenial
    /\ [Next]_vars => CallsFollowDenial'
<1> SUFFICES ASSUME TypeOK, NoEarlyIssue, CallsFollowDenial, Next
             PROVE  CallsFollowDenial'
  BY DEF NoEarlyIssue, CallsFollowDenial, Denied, vars
<1> PICK r \in Runs :
      \/ Dispatch(r) \/ Start(r) \/ RunnerStep(r) \/ WindowCloses(r)
      \/ JobFails(r) \/ RestartStep(r) \/ PortalStep(r)
  BY DEF Next
<1> USE DEF TypeOK, gateVars, portalVars, issueVars, Goto, Finish, CloseIssue,
      CancelRun, PostComment, Steps, Decisions, Calls,
      NoEarlyIssue, CallsFollowDenial, Denied
<1>1. CASE Dispatch(r)  BY <1>1 DEF Dispatch
<1>2. CASE Start(r)  BY <1>2 DEF Start
<1>3. CASE Plan(r)  BY <1>3 DEF Plan
<1>4. CASE CreateIssue(r)  BY <1>4, BoundsAssumption DEF CreateIssue, Stale
<1>5. CASE ResumeCheck(r)  BY <1>5 DEF ResumeCheck
<1>6. CASE PollTick(r)  BY <1>6 DEF PollTick
<1>7. CASE WindowCloses(r)  BY <1>7 DEF WindowCloses
<1>8. CASE Expire(r)  BY <1>8 DEF Expire
<1>9. CASE ExpireCancel(r)  BY <1>9 DEF ExpireCancel
<1>10. CASE RestartStep(r)  BY <1>10 DEF RestartStep
<1>11. CASE JobFails(r)  BY <1>11 DEF JobFails
<1>12. CASE VerifyApproval(r)  BY <1>12 DEF VerifyApproval
<1>13. CASE Apply(r)  BY <1>13 DEF Apply
<1>14. CASE Approve(r)  BY SMTT(40), <1>14 DEF Approve
<1>15. CASE Reject(r)  BY SMTT(40), <1>15 DEF Reject
<1>16. CASE RejectInspect(r)  BY <1>16 DEF RejectInspect
<1>17. CASE RejectCancel(r)  BY <1>17 DEF RejectCancel
<1>18. CASE RejectClose(r)  BY <1>18 DEF RejectClose
<1>19. CASE CancelPipeline(r)  BY <1>19 DEF CancelPipeline
<1>20. CASE CloseStaleIssue(r)  BY <1>20 DEF CloseStaleIssue
<1>21. QED
  BY <1>1, <1>2, <1>3, <1>4, <1>5, <1>6, <1>7, <1>8, <1>9, <1>10, <1>11,
     <1>12, <1>13, <1>14, <1>15, <1>16, <1>17, <1>18, <1>19, <1>20
     DEF RunnerStep, PortalStep

\* A run leaves the gate by an oldest decision that approves, or by expiry;
\* appending a comment does not change the oldest, and a window that has
\* passed is only renewed for a run that still polls.
LEMMA GatePassedStep ==
  TypeOK /\ NoEarlyIssue /\ GatePassed /\ [Next]_vars => GatePassed'
<1> SUFFICES ASSUME TypeOK, NoEarlyIssue, GatePassed, Next PROVE GatePassed'
  BY DEF NoEarlyIssue, GatePassed, PassedGate, Approved, vars
<1> PICK r \in Runs :
      \/ Dispatch(r) \/ Start(r) \/ RunnerStep(r) \/ WindowCloses(r)
      \/ JobFails(r) \/ RestartStep(r) \/ PortalStep(r)
  BY DEF Next
<1> USE DEF TypeOK, gateVars, portalVars, issueVars, Goto, Finish, CloseIssue,
      CancelRun, PostComment, Steps, Decisions, Calls,
      NoEarlyIssue, GatePassed, PassedGate, Approved
<1>1. CASE Dispatch(r)  BY <1>1 DEF Dispatch
<1>2. CASE Start(r)  BY <1>2 DEF Start
<1>3. CASE Plan(r)  BY <1>3 DEF Plan
<1>4. CASE CreateIssue(r)  BY <1>4, BoundsAssumption DEF CreateIssue, Stale
<1>5. CASE ResumeCheck(r)  BY <1>5 DEF ResumeCheck
<1>6. CASE PollTick(r)  BY <1>6 DEF PollTick
<1>7. CASE WindowCloses(r)  BY <1>7 DEF WindowCloses
<1>8. CASE Expire(r)  BY <1>8 DEF Expire
<1>9. CASE ExpireCancel(r)  BY <1>9 DEF ExpireCancel
<1>10. CASE RestartStep(r)  BY <1>10 DEF RestartStep
<1>11. CASE JobFails(r)  BY <1>11 DEF JobFails
<1>12. CASE VerifyApproval(r)  BY <1>12 DEF VerifyApproval
<1>13. CASE Apply(r)  BY <1>13 DEF Apply
<1>14. CASE Approve(r)  BY <1>14 DEF Approve
<1>15. CASE Reject(r)  BY SMTT(40), <1>15 DEF Reject
<1>16. CASE RejectInspect(r)  BY <1>16 DEF RejectInspect
<1>17. CASE RejectCancel(r)  BY <1>17 DEF RejectCancel
<1>18. CASE RejectClose(r)  BY <1>18 DEF RejectClose
<1>19. CASE CancelPipeline(r)  BY <1>19 DEF CancelPipeline
<1>20. CASE CloseStaleIssue(r)  BY <1>20 DEF CloseStaleIssue
<1>21. QED
  BY <1>1, <1>2, <1>3, <1>4, <1>5, <1>6, <1>7, <1>8, <1>9, <1>10, <1>11,
     <1>12, <1>13, <1>14, <1>15, <1>16, <1>17, <1>18, <1>19, <1>20
     DEF RunnerStep, PortalStep

\* The verification reads the comments it relies on, and none is removed.
LEMMA ApprovedBeforeApplyStep ==
  TypeOK /\ ApprovedBeforeApply /\ [Next]_vars => ApprovedBeforeApply'
<1> SUFFICES ASSUME TypeOK, ApprovedBeforeApply, Next
             PROVE  ApprovedBeforeApply'
  BY DEF ApprovedBeforeApply, Approved, vars
<1> PICK r \in Runs :
      \/ Dispatch(r) \/ Start(r) \/ RunnerStep(r) \/ WindowCloses(r)
      \/ JobFails(r) \/ RestartStep(r) \/ PortalStep(r)
  BY DEF Next
<1> USE DEF TypeOK, gateVars, portalVars, issueVars, Goto, Finish, CloseIssue,
      CancelRun, PostComment, Steps, Decisions, Calls,
      ApprovedBeforeApply, Approved
<1>1. CASE Dispatch(r)  BY <1>1 DEF Dispatch
<1>2. CASE Start(r)  BY <1>2 DEF Start
<1>3. CASE Plan(r)  BY <1>3 DEF Plan
<1>4. CASE CreateIssue(r)  BY <1>4, BoundsAssumption DEF CreateIssue, Stale
<1>5. CASE ResumeCheck(r)  BY <1>5 DEF ResumeCheck
<1>6. CASE PollTick(r)  BY <1>6 DEF PollTick
<1>7. CASE WindowCloses(r)  BY <1>7 DEF WindowCloses
<1>8. CASE Expire(r)  BY <1>8 DEF Expire
<1>9. CASE ExpireCancel(r)  BY <1>9 DEF ExpireCancel
<1>10. CASE RestartStep(r)  BY <1>10 DEF RestartStep
<1>11. CASE JobFails(r)  BY <1>11 DEF JobFails
<1>12. CASE VerifyApproval(r)  BY <1>12 DEF VerifyApproval
<1>13. CASE Apply(r)  BY <1>13 DEF Apply
<1>14. CASE Approve(r)  BY <1>14 DEF Approve
<1>15. CASE Reject(r)  BY <1>15 DEF Reject
<1>16. CASE RejectInspect(r)  BY <1>16 DEF RejectInspect
<1>17. CASE RejectCancel(r)  BY <1>17 DEF RejectCancel
<1>18. CASE RejectClose(r)  BY <1>18 DEF RejectClose
<1>19. CASE CancelPipeline(r)  BY <1>19 DEF CancelPipeline
<1>20. CASE CloseStaleIssue(r)  BY <1>20 DEF CloseStaleIssue
<1>21. QED
  BY <1>1, <1>2, <1>3, <1>4, <1>5, <1>6, <1>7, <1>8, <1>9, <1>10, <1>11,
     <1>12, <1>13, <1>14, <1>15, <1>16, <1>17, <1>18, <1>19, <1>20
     DEF RunnerStep, PortalStep

\* The only step that opens an issue closes the others, unless its run turns blind.
LEMMA OneOpenIssueStep ==
  TypeOK /\ OneOpenIssue /\ [Next]_vars => OneOpenIssue'
<1> SUFFICES ASSUME TypeOK, OneOpenIssue, Next PROVE OneOpenIssue'
  BY DEF OneOpenIssue, vars
<1> PICK r \in Runs :
      \/ Dispatch(r) \/ Start(r) \/ RunnerStep(r) \/ WindowCloses(r)
      \/ JobFails(r) \/ RestartStep(r) \/ PortalStep(r)
  BY DEF Next
<1> USE DEF TypeOK, gateVars, portalVars, issueVars, Goto, Finish, CloseIssue,
      CancelRun, PostComment, Steps, Decisions, Calls, OneOpenIssue
<1>1. CASE Dispatch(r)  BY <1>1 DEF Dispatch
<1>2. CASE Start(r)  BY <1>2 DEF Start
<1>3. CASE Plan(r)  BY <1>3 DEF Plan
<1>4. CASE CreateIssue(r)
  <2>1. CASE issue' = [q \in Runs |-> IF q = r THEN "open"
                                    ELSE IF q \in Stale THEN "closed" ELSE issue[q]]
    <3>1. \A q \in Runs : issue'[q] = "open" => q = r
      BY <2>1 DEF Stale
    <3>2. QED  BY <3>1
  <2>2. CASE blind' = blind \cup {r}
    <3>1. \A q \in Runs : q # r /\ issue'[q] = "open" => issue[q] = "open"
      BY <1>4 DEF CreateIssue, Stale
    <3>2. QED  BY <2>2, <3>1
  <2>3. QED  BY <1>4, <2>1, <2>2 DEF CreateIssue
<1>5. CASE ResumeCheck(r)  BY <1>5 DEF ResumeCheck
<1>6. CASE PollTick(r)  BY <1>6 DEF PollTick
<1>7. CASE WindowCloses(r)  BY <1>7 DEF WindowCloses
<1>8. CASE Expire(r)  BY <1>8 DEF Expire
<1>9. CASE ExpireCancel(r)  BY <1>9 DEF ExpireCancel
<1>10. CASE RestartStep(r)  BY <1>10 DEF RestartStep
<1>11. CASE JobFails(r)  BY <1>11 DEF JobFails
<1>12. CASE VerifyApproval(r)  BY <1>12 DEF VerifyApproval
<1>13. CASE Apply(r)  BY <1>13 DEF Apply
<1>14. CASE Approve(r)  BY <1>14 DEF Approve
<1>15. CASE Reject(r)  BY <1>15 DEF Reject
<1>16. CASE RejectInspect(r)  BY <1>16 DEF RejectInspect
<1>17. CASE RejectCancel(r)  BY <1>17 DEF RejectCancel
<1>18. CASE RejectClose(r)  BY <1>18 DEF RejectClose
<1>19. CASE CancelPipeline(r)  BY <1>19 DEF CancelPipeline
<1>20. CASE CloseStaleIssue(r)  BY <1>20 DEF CloseStaleIssue
<1>21. QED
  BY <1>1, <1>2, <1>3, <1>4, <1>5, <1>6, <1>7, <1>8, <1>9, <1>10, <1>11,
     <1>12, <1>13, <1>14, <1>15, <1>16, <1>17, <1>18, <1>19, <1>20
     DEF RunnerStep, PortalStep

\* Every step that closes the issue of a waiting run follows a denial: the
\* reject handler's close by CallsFollowDenial, another run's gate is excluded
\* by OneActiveRun, and the status pages look at the run first.
LEMMA AwaitedIssueVisibleStep ==
  TypeOK /\ OneActiveRun /\ NoEarlyIssue /\ CallsFollowDenial
    /\ AwaitedIssueVisible /\ [Next]_vars
  => AwaitedIssueVisible'
<1> SUFFICES ASSUME TypeOK, OneActiveRun, NoEarlyIssue, CallsFollowDenial,
                    AwaitedIssueVisible, Next
             PROVE  AwaitedIssueVisible'
  BY DEF OneActiveRun, Active, NoEarlyIssue, CallsFollowDenial, Denied,
     AwaitedIssueVisible, vars
<1> PICK r \in Runs :
      \/ Dispatch(r) \/ Start(r) \/ RunnerStep(r) \/ WindowCloses(r)
      \/ JobFails(r) \/ RestartStep(r) \/ PortalStep(r)
  BY DEF Next
<1> USE DEF TypeOK, gateVars, portalVars, issueVars, Goto, Finish, CloseIssue,
      CancelRun, PostComment, Steps, Decisions, Calls,
      OneActiveRun, Active, NoEarlyIssue, CallsFollowDenial, Denied,
      AwaitedIssueVisible
<1>1. CASE Dispatch(r)  BY <1>1 DEF Dispatch
<1>2. CASE Start(r)  BY <1>2 DEF Start
<1>3. CASE Plan(r)  BY <1>3 DEF Plan
<1>4. CASE CreateIssue(r)
  <2>1. \A q \in Runs : pc'[q] \in {"resume", "poll", "expired"} => q = r
    <3>1. \A q \in Runs : q # r => ~Active(q)
      BY <1>4 DEF CreateIssue
    <3>2. pc' = [pc EXCEPT ![r] = "resume"]
      BY <1>4 DEF CreateIssue
    <3>3. QED  BY <3>1, <3>2
  <2>2. issue'[r] # "closed"
    BY <1>4 DEF CreateIssue
  <2>3. QED  BY <2>1, <2>2
<1>5. CASE ResumeCheck(r)
  <2>1. /\ pc[r] = "resume" /\ UNCHANGED <<issue, comments>>
        /\ \E step \in {"verify", "over", "poll"} : pc' = [pc EXCEPT ![r] = step]
    BY <1>5 DEF ResumeCheck
  <2>2. QED  BY <2>1
<1>6. CASE PollTick(r)  BY <1>6 DEF PollTick
<1>7. CASE WindowCloses(r)  BY <1>7 DEF WindowCloses
<1>8. CASE Expire(r)  BY <1>8 DEF Expire
<1>9. CASE ExpireCancel(r)  BY <1>9 DEF ExpireCancel
<1>10. CASE RestartStep(r)  BY <1>10 DEF RestartStep
<1>11. CASE JobFails(r)  BY <1>11 DEF JobFails
<1>12. CASE VerifyApproval(r)  BY <1>12 DEF VerifyApproval
<1>13. CASE Apply(r)  BY <1>13 DEF Apply
<1>14. CASE Approve(r)  BY SMTT(40), <1>14 DEF Approve
<1>15. CASE Reject(r)  BY <1>15 DEF Reject
<1>16. CASE RejectInspect(r)  BY <1>16 DEF RejectInspect
<1>17. CASE RejectCancel(r)  BY <1>17 DEF RejectCancel
<1>18. CASE RejectClose(r)  BY <1>18 DEF RejectClose
<1>19. CASE CancelPipeline(r)  BY SMTT(40), <1>19 DEF CancelPipeline
<1>20. CASE CloseStaleIssue(r)  BY <1>20 DEF CloseStaleIssue
<1>21. QED
  BY <1>1, <1>2, <1>3, <1>4, <1>5, <1>6, <1>7, <1>8, <1>9, <1>10, <1>11,
     <1>12, <1>13, <1>14, <1>15, <1>16, <1>17, <1>18, <1>19, <1>20
     DEF RunnerStep, PortalStep

-----------------------------------------------------------------------------
(* The theorems. *)

\* IInv holds in every reachable state.
THEOREM Invariance == SafetySpec => []IInv
<1>1. IInv /\ [Next]_vars => IInv'
  BY TypeStep, OneActiveRunStep, NoEarlyIssueStep, CallsFollowDenialStep,
     GatePassedStep, ApprovedBeforeApplyStep, OneOpenIssueStep,
     AwaitedIssueVisibleStep DEF IInv
<1>2. QED  BY InitIInv, <1>1, PTL DEF SafetySpec

\* The state of the gate always has its type.
THEOREM TypeCorrect == SafetySpec => []TypeOK
<1>1. IInv => TypeOK  BY DEF IInv
<1>2. QED  BY Invariance, <1>1, PTL

\* The apply job writes only for runs somebody approved, for any number of
\* runs, decisions and restarts.
THEOREM ApplyIsApproved == SafetySpec => []ApprovedBeforeApply
<1>1. IInv => ApprovedBeforeApply  BY DEF IInv
<1>2. QED  BY Invariance, <1>1, PTL

\* A tenant repository has two open approval issues only after a lost listing.
THEOREM SingleOpenIssue == SafetySpec => []OneOpenIssue
<1>1. IInv => OneOpenIssue  BY DEF IInv
<1>2. QED  BY Invariance, <1>1, PTL

\* A run that waits for a decision can be decided, has been denied, or has
\* marked its own issue as expired.
THEOREM WaitingIsVisible == SafetySpec => []AwaitedIssueVisible
<1>1. IInv => AwaitedIssueVisible  BY DEF IInv
<1>2. QED  BY Invariance, <1>1, PTL

\* A run whose oldest decision denies it applies through the expiry
\* branch only.
THEOREM DenialBinds == SafetySpec => []DenialStandsUntilExpiry
<1>1. IInv => DenialStandsUntilExpiry
  <2> SUFFICES ASSUME IInv, NEW r \in applied, Head(comments[r]) = "deny"
               PROVE  r \in late
    BY DEF DenialStandsUntilExpiry
  <2>1. PassedGate(r)
    BY DEF IInv, TypeOK, GatePassed
  <2>2. QED  BY <2>1 DEF PassedGate
<1>2. QED  BY Invariance, <1>1, PTL

-----------------------------------------------------------------------------
(* DeployGate implements Deployment. *)

\* The initial state maps to Deployment's.
LEMMA RefineInit == Init => Deploy!Init
BY DEF Init, Deploy!Init, AbstractPhase, Approved

\* Without a new comment, the approved runs stay the same.
LEMMA SameApproved ==
  ASSUME UNCHANGED comments
  PROVE  UNCHANGED {q \in Runs : Approved(q)}
BY DEF Approved

\* A run that moves on moves on alone.
LEMMA OnePhaseMoves ==
  ASSUME TypeOK, NEW r \in Runs, NEW step \in Steps,
         pc' = [pc EXCEPT ![r] = step]
  PROVE  [q \in Runs |-> AbstractPhase(q)]'
           = [[q \in Runs |-> AbstractPhase(q)] EXCEPT ![r] =
           AbstractPhase(r)']
BY DEF TypeOK, AbstractPhase

\* A run that finishes, or is cancelled, takes Deployment's End.
LEMMA FinishEnds ==
  ASSUME TypeOK, NEW r \in Runs, pc[r] # "over",
         Finish(r), UNCHANGED comments
  PROVE  Deploy!End(r)
<1>1. pc' = [pc EXCEPT ![r] = "over"] /\ "over" \in Steps
  BY DEF Finish, Goto, Steps
<1>2. AbstractPhase(r) # "over" /\ AbstractPhase(r)' = "over"
  BY <1>1 DEF AbstractPhase, TypeOK, Steps
<1>3. QED
  BY <1>1, <1>2, OnePhaseMoves, SameApproved DEF Deploy!End

\* A step that moves a run within its phase is invisible to Deployment.
LEMMA InvisibleMove ==
  ASSUME TypeOK, NEW r \in Runs, NEW step \in Steps, Goto(r, step),
         AbstractPhase(r)' = AbstractPhase(r), UNCHANGED comments
  PROVE  UNCHANGED Deploy!vars
<1>1. [q \in Runs |-> AbstractPhase(q)]' = [q \in Runs |-> AbstractPhase(q)]
  BY OnePhaseMoves DEF Goto
<1>2. QED  BY <1>1, SameApproved DEF Deploy!vars

\* So is a step that leaves programs and comments alone.
LEMMA InvisibleStep ==
  ASSUME UNCHANGED <<pc, comments>>
  PROVE  UNCHANGED Deploy!vars
BY SameApproved DEF Deploy!vars, AbstractPhase

\* A step maps to a step of Deployment or leaves the mapped state alone.
LEMMA RefineStep == IInv /\ [Next]_vars => [Deploy!Next]_(Deploy!vars)
<1> SUFFICES ASSUME IInv, Next PROVE [Deploy!Next]_(Deploy!vars)
  BY InvisibleStep DEF vars
<1> PICK r \in Runs :
      \/ Dispatch(r) \/ Start(r) \/ RunnerStep(r) \/ WindowCloses(r)
      \/ JobFails(r) \/ RestartStep(r) \/ PortalStep(r)
  BY DEF Next
<1> TypeOK
  BY DEF IInv
<1> DEFINE Visible == Deploy!Start(r) \/ Deploy!AskApproval(r)
                      \/ Deploy!Approve(r) \/ Deploy!Apply(r) \/ Deploy!End(r)
<1> SUFFICES Visible \/ UNCHANGED Deploy!vars
  BY DEF Deploy!Next
<1> HIDE DEF Visible
<1>end. Deploy!End(r) => Visible
  BY DEF Visible
<1> USE DEF issueVars
<1>1. CASE Dispatch(r)
  BY <1>1, InvisibleMove DEF Dispatch, Goto, AbstractPhase, TypeOK, Steps
<1>2. CASE Start(r)
  <2>1. pc' = [pc EXCEPT ![r] = "plan"] /\ "plan" \in Steps
    BY <1>2 DEF Start, Goto, Steps
  <2>2. AbstractPhase(r) = "waiting" /\ AbstractPhase(r)' = "planning"
    BY <1>2, <2>1 DEF Start, AbstractPhase, TypeOK
  <2>3. \A q \in Runs : ~Deploy!Active(q)
    BY <1>2 DEF Start, Active, Deploy!Active, AbstractPhase
  <2>4. Deploy!Start(r)
    BY <1>2, <2>1, <2>2, <2>3, OnePhaseMoves, SameApproved
       DEF Start, Deploy!Start
  <2>5. QED  BY <2>4 DEF Visible
<1>3. CASE Plan(r)
  BY <1>3, <1>end, InvisibleMove, FinishEnds
     DEF Plan, Goto, AbstractPhase, TypeOK, Steps
<1>4. CASE CreateIssue(r)
  <2>1. pc' = [pc EXCEPT ![r] = "resume"] /\ "resume" \in Steps
    BY <1>4 DEF CreateIssue, Goto, Steps
  <2>2. AbstractPhase(r) = "planning" /\ AbstractPhase(r)' = "gated"
    BY <1>4, <2>1 DEF CreateIssue, AbstractPhase, TypeOK
  <2>3. Deploy!AskApproval(r)
    BY <1>4, <2>1, <2>2, OnePhaseMoves, SameApproved
       DEF CreateIssue, Deploy!AskApproval
  <2>4. QED  BY <2>3 DEF Visible
<1>5. CASE ResumeCheck(r)
  <2>1. pc[r] = "resume" /\ UNCHANGED comments
        /\ (Goto(r, "verify") \/ Goto(r, "poll") \/ Finish(r))
    BY <1>5 DEF ResumeCheck
  <2>2. QED
    BY <2>1, <1>end, InvisibleMove, FinishEnds
       DEF Goto, AbstractPhase, TypeOK, Steps
<1>6. CASE PollTick(r)
  <2>1. pc[r] = "poll" /\ UNCHANGED comments
        /\ (Goto(r, "verify") \/ Finish(r))
    BY <1>6 DEF PollTick
  <2>2. QED
    BY <2>1, <1>end, InvisibleMove, FinishEnds
       DEF Goto, AbstractPhase, TypeOK, Steps
<1>7. CASE WindowCloses(r)
  BY <1>7, InvisibleStep DEF WindowCloses
<1>8. CASE Expire(r)
  BY <1>8, InvisibleMove DEF Expire, Goto, AbstractPhase, TypeOK, Steps
<1>9. CASE ExpireCancel(r)
  BY <1>9, <1>end, InvisibleMove, FinishEnds
     DEF ExpireCancel, CancelRun, Goto, AbstractPhase, TypeOK, Steps
<1>10. CASE RestartStep(r)
  BY <1>10, InvisibleMove DEF RestartStep, Goto, AbstractPhase, TypeOK, Steps
<1>11. CASE JobFails(r)
  BY <1>11, <1>end, FinishEnds DEF JobFails, Active
<1>12. CASE VerifyApproval(r)
  <2>1. CASE Approved(r)
    <3>1. pc' = [pc EXCEPT ![r] = "apply"] /\ "apply" \in Steps
      BY <1>12, <2>1 DEF VerifyApproval, Goto, Steps
    <3>2. AbstractPhase(r) = "gated" /\ AbstractPhase(r)' = "applying"
      BY <1>12, <3>1 DEF VerifyApproval, AbstractPhase, TypeOK
    <3>3. Deploy!Apply(r)
      BY <1>12, <2>1, <3>1, <3>2, OnePhaseMoves, SameApproved
         DEF VerifyApproval, Deploy!Apply
    <3>4. QED  BY <3>3 DEF Visible
  <2>2. CASE ~Approved(r)
    BY <1>12, <2>2, <1>end, FinishEnds DEF VerifyApproval
  <2>3. QED  BY <2>1, <2>2
<1>13. CASE Apply(r)
  BY <1>13, <1>end, FinishEnds DEF Apply
<1>14. CASE Approve(r)
  <2>1. /\ UNCHANGED pc
        /\ issue[r] # "none"
        /\ comments' = [comments EXCEPT ![r] = Append(@, "approve")]
    BY <1>14 DEF Approve, PostComment, gateVars
  <2>2. UNCHANGED [q \in Runs |-> AbstractPhase(q)]
    BY <2>1 DEF AbstractPhase
  <2>3. {q \in Runs : Approved(q)}' = {q \in Runs : Approved(q)} \cup {r}
    <3>1. \A q \in Runs : q # r => Approved(q)' = Approved(q)
      BY <2>1 DEF Approved, TypeOK
    <3>2. Approved(r)'
      BY <2>1 DEF Approved, TypeOK, Decisions
    <3>3. QED  BY <3>1, <3>2
  <2>4. AbstractPhase(r) \notin {"waiting", "planning"}
    BY <2>1 DEF IInv, NoEarlyIssue, AbstractPhase
  <2>5. Deploy!Approve(r)
    BY <2>2, <2>3, <2>4 DEF Deploy!Approve
  <2>6. QED  BY <2>5 DEF Visible
<1>15. CASE Reject(r)
  <2>1. /\ UNCHANGED pc
        /\ comments' = [comments EXCEPT ![r] = Append(@, "deny")]
    BY <1>15 DEF Reject, PostComment, gateVars
  <2>2. UNCHANGED [q \in Runs |-> AbstractPhase(q)]
    BY <2>1 DEF AbstractPhase
  <2>3. \A q \in Runs : Approved(q)' = Approved(q)
    BY <2>1 DEF Approved, TypeOK, Decisions
  <2>4. QED  BY <2>2, <2>3 DEF Deploy!vars
<1>16. CASE RejectInspect(r)
  BY <1>16, InvisibleStep DEF RejectInspect, gateVars
<1>17. CASE RejectCancel(r)
  BY <1>17, <1>end, FinishEnds, InvisibleStep DEF RejectCancel, CancelRun
<1>18. CASE RejectClose(r)
  BY <1>18, InvisibleStep DEF RejectClose, gateVars
<1>19. CASE CancelPipeline(r)
  BY <1>19, <1>end, FinishEnds DEF CancelPipeline, CancelRun
<1>20. CASE CloseStaleIssue(r)
  BY <1>20, InvisibleStep DEF CloseStaleIssue, gateVars
<1>21. QED
  BY <1>1, <1>2, <1>3, <1>4, <1>5, <1>6, <1>7, <1>8, <1>9, <1>10, <1>11,
     <1>12, <1>13, <1>14, <1>15, <1>16, <1>17, <1>18, <1>19, <1>20
     DEF RunnerStep, PortalStep

\* DeployGate implements Deployment for every set of runs.
THEOREM Implementation == SafetySpec => ImplementsDeployment
BY RefineInit, RefineStep, Invariance, PTL
   DEF SafetySpec, ImplementsDeployment, Deploy!Spec

-----------------------------------------------------------------------------
(* The queues: the inductive invariant. *)

Cloned == {"remove", "group", "cleanup", "push"}

\* From its clone to its cleanup a run's requests stay queued.
CloneQueued ==
  \A t \in Tenants, f \in Files :
    stage[t] \in Cloned => clone[t].groups[f] \subseteq queue[t][f]

WroteInCleanup == \A t \in wrote : stage[t] \in {"cleanup", "push"}

\* What the run's own result calls done was cloned and is carried out.
ResultDone ==
  \A t \in wrote, f \in Files :
    resultFile.by = t =>
      /\ resultFile.done[f] \subseteq clone[t].groups[f]
      /\ resultFile.done[f] \cap asked[t][f] = {}

\* And so is what the cleanup subtracts.
SubtractDone ==
  \A t \in Tenants, f \in Files :
    subtract[t].own =>
      /\ stage[t] = "push"
      /\ subtract[t].done[f] \subseteq clone[t].groups[f]
      /\ subtract[t].done[f] \cap asked[t][f] = {}

PendingIInv ==
  /\ PendingTypeOK
  /\ CloneQueued
  /\ WroteInCleanup
  /\ ResultDone
  /\ SubtractDone

-----------------------------------------------------------------------------
\* The initial state satisfies the invariant.
LEMMA PendingInitIInv == PendingInit => PendingIInv
BY DEF PendingInit, PendingIInv, PendingTypeOK, CloneQueued, WroteInCleanup, ResultDone, SubtractDone,
  Cloned, Stages, Requests, Nobody, NoPlan, NoClone, NoSubtract

\* Type correctness is preserved.
LEMMA PendingTypeStep ==
  PendingTypeOK /\ [PendingNext]_pendingVars => PendingTypeOK'
<1> SUFFICES ASSUME PendingTypeOK, PendingNext PROVE PendingTypeOK'
  BY DEF PendingTypeOK, pendingVars, runVars, history
<1> PICK t \in Tenants :
      \/ \E f \in Files, us \in SUBSET Users : QueueUsers(t, f, us)
      \/ \E a \in Apps : QueueRemoval(t, a)
      \/ RunStep(t)
  BY DEF PendingNext
<1> USE DEF PendingTypeOK, Stages, Requests, Nobody, NoPlan, NoClone, NoSubtract, Without, Cloned,
      GoesTo, EndRun, CarryOut, CarryOutRemovals, runVars, history
<1>1. ASSUME NEW f \in Files, NEW us \in SUBSET Users, QueueUsers(t, f, us)
        PROVE  PendingTypeOK'
  BY <1>1 DEF QueueUsers
<1>2. ASSUME NEW a \in Apps, QueueRemoval(t, a)
        PROVE  PendingTypeOK'
  BY <1>2 DEF QueueRemoval
<1>3. ASSUME NEW b1 \in BOOLEAN, NEW b2 \in BOOLEAN, NEW b3 \in BOOLEAN,
               PlanRun(t, b1, b2, b3)
        PROVE  PendingTypeOK'
  BY <1>3 DEF PlanRun
<1>4. CASE Refused(t)  BY <1>4 DEF Refused
<1>5. CASE CloneApproved(t)  BY <1>5 DEF CloneApproved
<1>6. CASE ApplyBreaks(t)  BY <1>6 DEF ApplyBreaks
<1>7. CASE RemoveApps(t)  BY <1>7 DEF RemoveApps
<1>8. CASE ActOnGroups(t)  BY <1>8 DEF ActOnGroups
<1>9. CASE SkipGroups(t)  BY <1>9 DEF SkipGroups
<1>10. CASE Die(t)
  <2>1. asked' \in [Tenants -> Requests]
    <3>1. CASE \E done \in Requests : CarryOut(t, done)
      <4> PICK done \in Requests : CarryOut(t, done)
        BY <3>1
      <4>1. Without(asked[t], done) \in Requests
        OBVIOUS
      <4> HIDE DEF Without, Requests
      <4>2. QED
        BY <4>1
    <3>2. asked' = asked \/ \E done \in Requests : CarryOut(t, done)
      <4> HIDE DEF Requests, CarryOut
      <4>1. QED
        BY <1>10 DEF Die
    <3>3. QED
      BY <3>1, <3>2
  <2>2. askedApps' \in [Tenants -> SUBSET Apps]
    <3>1. askedApps' = askedApps \/ CarryOutRemovals(t)
      <4> HIDE DEF CarryOutRemovals
      <4>1. QED
        BY <1>10 DEF Die
    <3>2. askedApps \in [Tenants -> SUBSET Apps] /\ t \in Tenants
      OBVIOUS
    <3> HIDE DEF PendingTypeOK, Without, Requests, EndRun
    <3>3. QED
      BY <3>1, <3>2
  <2>3. QED
    BY <1>10, <2>1, <2>2 DEF Die
<1>11. CASE ReadResult(t)  BY <1>11 DEF ReadResult
<1>12. CASE PushCleanup(t)
  <2>1. Without(queue[t], subtract[t].done) \in Requests
    OBVIOUS
  <2>2. queue' \in [Tenants -> Requests]
    <3> HIDE DEF Without, Requests
    <3>1. \/ queue' = queue
          \/ queue' = [queue EXCEPT ![t] = Without(queue[t], subtract[t].done)]
      BY <1>12 DEF PushCleanup
    <3>2. QED
      BY <2>1, <3>1
  <2>3. removals' \in [Tenants -> SUBSET Apps]
    <3>1. removals \in [Tenants -> SUBSET Apps]
      OBVIOUS
    <3> HIDE DEF PendingTypeOK, Without, Requests, EndRun
    <3>2. \/ removals' = removals
          \/ removals' = [removals EXCEPT ![t] = removals[t] \ clone[t].apps]
      BY <1>12 DEF PushCleanup
    <3>3. QED
      BY <3>1, <3>2
  <2>4. QED
    BY <1>12, <2>2, <2>3 DEF PushCleanup
<1> HIDE DEF PendingTypeOK, Stages, Requests, Nobody, NoPlan, NoClone, NoSubtract, Without, Cloned,
      GoesTo, EndRun, CarryOut, CarryOutRemovals, runVars, history
<1>13. QED
  BY <1>1, <1>2, <1>3, <1>4, <1>5, <1>6, <1>7, <1>8, <1>9, <1>10, <1>11,
     <1>12 DEF RunStep

\* The queues only grow until the cleanup, the last step of the run.
LEMMA CloneQueuedStep ==
  PendingTypeOK /\ CloneQueued /\ [PendingNext]_pendingVars => CloneQueued'
<1> SUFFICES ASSUME PendingTypeOK, CloneQueued, PendingNext PROVE CloneQueued'
  BY DEF PendingTypeOK, CloneQueued, pendingVars, runVars, history
<1> PICK t \in Tenants :
      \/ \E f \in Files, us \in SUBSET Users : QueueUsers(t, f, us)
      \/ \E a \in Apps : QueueRemoval(t, a)
      \/ RunStep(t)
  BY DEF PendingNext
<1> USE DEF PendingTypeOK, Stages, Requests, Nobody, NoPlan, NoClone, NoSubtract, Without, Cloned,
      GoesTo, EndRun, CarryOut, CarryOutRemovals, runVars, history, CloneQueued
<1>1. ASSUME NEW f \in Files, NEW us \in SUBSET Users, QueueUsers(t, f, us)
        PROVE  CloneQueued'
  BY <1>1 DEF QueueUsers
<1>2. ASSUME NEW a \in Apps, QueueRemoval(t, a)
        PROVE  CloneQueued'
  BY <1>2 DEF QueueRemoval
<1>3. ASSUME NEW b1 \in BOOLEAN, NEW b2 \in BOOLEAN, NEW b3 \in BOOLEAN,
               PlanRun(t, b1, b2, b3)
        PROVE  CloneQueued'
  BY <1>3 DEF PlanRun
<1>4. CASE Refused(t)  BY <1>4 DEF Refused
<1>5. CASE CloneApproved(t)  BY <1>5 DEF CloneApproved
<1>6. CASE ApplyBreaks(t)  BY <1>6 DEF ApplyBreaks
<1>7. CASE RemoveApps(t)  BY <1>7 DEF RemoveApps
<1>8. CASE ActOnGroups(t)  BY <1>8 DEF ActOnGroups
<1>9. CASE SkipGroups(t)  BY <1>9 DEF SkipGroups
<1>10. CASE Die(t)  BY <1>10 DEF Die
<1>11. CASE ReadResult(t)  BY <1>11 DEF ReadResult
<1>12. CASE PushCleanup(t)  BY <1>12 DEF PushCleanup
<1> HIDE DEF PendingTypeOK, Stages, Requests, Nobody, NoPlan, NoClone, NoSubtract, Without, Cloned,
      GoesTo, EndRun, CarryOut, CarryOutRemovals, runVars, history, CloneQueued
<1>13. QED
  BY <1>1, <1>2, <1>3, <1>4, <1>5, <1>6, <1>7, <1>8, <1>9, <1>10, <1>11,
     <1>12 DEF RunStep

\* A run writes the result on its way into the cleanup and ends after it.
LEMMA WroteInCleanupStep ==
  PendingTypeOK /\ WroteInCleanup /\ [PendingNext]_pendingVars => WroteInCleanup'
<1> SUFFICES ASSUME PendingTypeOK, WroteInCleanup, PendingNext PROVE WroteInCleanup'
  BY DEF PendingTypeOK, WroteInCleanup, pendingVars, runVars, history
<1> PICK t \in Tenants :
      \/ \E f \in Files, us \in SUBSET Users : QueueUsers(t, f, us)
      \/ \E a \in Apps : QueueRemoval(t, a)
      \/ RunStep(t)
  BY DEF PendingNext
<1> USE DEF PendingTypeOK, Stages, Requests, Nobody, NoPlan, NoClone, NoSubtract, Without, Cloned,
      GoesTo, EndRun, CarryOut, CarryOutRemovals, runVars, history, WroteInCleanup
<1>1. ASSUME NEW f \in Files, NEW us \in SUBSET Users, QueueUsers(t, f, us)
        PROVE  WroteInCleanup'
  BY <1>1 DEF QueueUsers
<1>2. ASSUME NEW a \in Apps, QueueRemoval(t, a)
        PROVE  WroteInCleanup'
  BY <1>2 DEF QueueRemoval
<1>3. ASSUME NEW b1 \in BOOLEAN, NEW b2 \in BOOLEAN, NEW b3 \in BOOLEAN,
               PlanRun(t, b1, b2, b3)
        PROVE  WroteInCleanup'
  BY <1>3 DEF PlanRun
<1>4. CASE Refused(t)  BY <1>4 DEF Refused
<1>5. CASE CloneApproved(t)  BY <1>5 DEF CloneApproved
<1>6. CASE ApplyBreaks(t)  BY <1>6 DEF ApplyBreaks
<1>7. CASE RemoveApps(t)  BY <1>7 DEF RemoveApps
<1>8. CASE ActOnGroups(t)  BY <1>8 DEF ActOnGroups
<1>9. CASE SkipGroups(t)  BY <1>9 DEF SkipGroups
<1>10. CASE Die(t)  BY <1>10 DEF Die
<1>11. CASE ReadResult(t)  BY <1>11 DEF ReadResult
<1>12. CASE PushCleanup(t)  BY <1>12 DEF PushCleanup
<1> HIDE DEF PendingTypeOK, Stages, Requests, Nobody, NoPlan, NoClone, NoSubtract, Without, Cloned,
      GoesTo, EndRun, CarryOut, CarryOutRemovals, runVars, history, WroteInCleanup
<1>13. QED
  BY <1>1, <1>2, <1>3, <1>4, <1>5, <1>6, <1>7, <1>8, <1>9, <1>10, <1>11,
     <1>12 DEF RunStep

\* Another tenant's run makes the result its own; the portal asks anew only for
\* users that have left the queue.
LEMMA ResultDoneStep ==
  PendingTypeOK /\ CloneQueued /\ WroteInCleanup /\ ResultDone /\ [PendingNext]_pendingVars => ResultDone'
<1> SUFFICES ASSUME PendingTypeOK, CloneQueued, WroteInCleanup, ResultDone, PendingNext PROVE ResultDone'
  BY DEF PendingTypeOK, CloneQueued, WroteInCleanup, ResultDone, pendingVars, runVars, history
<1> PICK t \in Tenants :
      \/ \E f \in Files, us \in SUBSET Users : QueueUsers(t, f, us)
      \/ \E a \in Apps : QueueRemoval(t, a)
      \/ RunStep(t)
  BY DEF PendingNext
<1> USE DEF PendingTypeOK, Stages, Requests, Nobody, NoPlan, NoClone, NoSubtract, Without, Cloned,
      GoesTo, EndRun, CarryOut, CarryOutRemovals, runVars, history, CloneQueued, WroteInCleanup, ResultDone
<1>1. ASSUME NEW f \in Files, NEW us \in SUBSET Users, QueueUsers(t, f, us)
        PROVE  ResultDone'
  <2> SUFFICES ASSUME NEW s \in wrote, NEW g \in Files, resultFile.by = s
               PROVE  /\ resultFile.done[g] \subseteq clone[s].groups[g]
                      /\ resultFile.done[g] \cap asked'[s][g] = {}
    BY <1>1 DEF QueueUsers
  <2>1. resultFile.done[g] \subseteq queue[s][g]
    OBVIOUS
  <2>2. asked'[s][g] \subseteq asked[s][g] \cup (Users \ queue[s][g])
    BY <1>1 DEF QueueUsers
  <2>3. QED
    BY <2>1, <2>2
<1>2. ASSUME NEW a \in Apps, QueueRemoval(t, a)
        PROVE  ResultDone'
  BY <1>2 DEF QueueRemoval
<1>3. ASSUME NEW b1 \in BOOLEAN, NEW b2 \in BOOLEAN, NEW b3 \in BOOLEAN,
               PlanRun(t, b1, b2, b3)
        PROVE  ResultDone'
  BY <1>3 DEF PlanRun
<1>4. CASE Refused(t)  BY <1>4 DEF Refused
<1>5. CASE CloneApproved(t)
  <2>1. t \notin wrote
    BY <1>5 DEF CloneApproved
  <2>2. QED
    BY <1>5, <2>1 DEF CloneApproved
<1>6. CASE ApplyBreaks(t)  BY <1>6 DEF ApplyBreaks
<1>7. CASE RemoveApps(t)  BY <1>7 DEF RemoveApps
<1>8. CASE ActOnGroups(t)  BY <1>8 DEF ActOnGroups
<1>9. CASE SkipGroups(t)  BY <1>9 DEF SkipGroups
<1>10. CASE Die(t)  BY <1>10 DEF Die
<1>11. CASE ReadResult(t)  BY <1>11 DEF ReadResult
<1>12. CASE PushCleanup(t)  BY <1>12 DEF PushCleanup
<1> HIDE DEF PendingTypeOK, Stages, Requests, Nobody, NoPlan, NoClone, NoSubtract, Without, Cloned,
      GoesTo, EndRun, CarryOut, CarryOutRemovals, runVars, history, CloneQueued, WroteInCleanup, ResultDone
<1>13. QED
  BY <1>1, <1>2, <1>3, <1>4, <1>5, <1>6, <1>7, <1>8, <1>9, <1>10, <1>11,
     <1>12 DEF RunStep

\* The cleanup takes its users from the run's own result, or nobody's.
LEMMA SubtractDoneStep ==
  PendingTypeOK /\ CloneQueued /\ WroteInCleanup /\ ResultDone /\ SubtractDone /\ [PendingNext]_pendingVars => SubtractDone'
<1> SUFFICES ASSUME PendingTypeOK, CloneQueued, WroteInCleanup, ResultDone, SubtractDone, PendingNext PROVE SubtractDone'
  BY DEF PendingTypeOK, CloneQueued, WroteInCleanup, ResultDone, SubtractDone, pendingVars, runVars, history
<1> PICK t \in Tenants :
      \/ \E f \in Files, us \in SUBSET Users : QueueUsers(t, f, us)
      \/ \E a \in Apps : QueueRemoval(t, a)
      \/ RunStep(t)
  BY DEF PendingNext
<1> USE DEF PendingTypeOK, Stages, Requests, Nobody, NoPlan, NoClone, NoSubtract, Without, Cloned,
      GoesTo, EndRun, CarryOut, CarryOutRemovals, runVars, history, CloneQueued, WroteInCleanup, ResultDone, SubtractDone
<1>1. ASSUME NEW f \in Files, NEW us \in SUBSET Users, QueueUsers(t, f, us)
        PROVE  SubtractDone'
  BY <1>1 DEF QueueUsers
<1>2. ASSUME NEW a \in Apps, QueueRemoval(t, a)
        PROVE  SubtractDone'
  BY <1>2 DEF QueueRemoval
<1>3. ASSUME NEW b1 \in BOOLEAN, NEW b2 \in BOOLEAN, NEW b3 \in BOOLEAN,
               PlanRun(t, b1, b2, b3)
        PROVE  SubtractDone'
  BY <1>3 DEF PlanRun
<1>4. CASE Refused(t)  BY <1>4 DEF Refused
<1>5. CASE CloneApproved(t)  BY <1>5 DEF CloneApproved
<1>6. CASE ApplyBreaks(t)  BY <1>6 DEF ApplyBreaks
<1>7. CASE RemoveApps(t)  BY <1>7 DEF RemoveApps
<1>8. CASE ActOnGroups(t)  BY <1>8 DEF ActOnGroups
<1>9. CASE SkipGroups(t)  BY <1>9 DEF SkipGroups
<1>10. CASE Die(t)  BY <1>10 DEF Die
<1>11. CASE ReadResult(t)  BY <1>11 DEF ReadResult
<1>12. CASE PushCleanup(t)  BY <1>12 DEF PushCleanup
<1> HIDE DEF PendingTypeOK, Stages, Requests, Nobody, NoPlan, NoClone, NoSubtract, Without, Cloned,
      GoesTo, EndRun, CarryOut, CarryOutRemovals, runVars, history, CloneQueued, WroteInCleanup, ResultDone, SubtractDone
<1>13. QED
  BY <1>1, <1>2, <1>3, <1>4, <1>5, <1>6, <1>7, <1>8, <1>9, <1>10, <1>11,
     <1>12 DEF RunStep

-----------------------------------------------------------------------------
(* The theorems about the queues. *)

\* The invariant holds in every state of every behaviour.
THEOREM PendingInvariance == PendingSpec => []PendingIInv
<1>1. PendingIInv /\ [PendingNext]_pendingVars => PendingIInv'
  BY PendingTypeStep, CloneQueuedStep, WroteInCleanupStep, ResultDoneStep, SubtractDoneStep
     DEF PendingIInv
<1>2. QED
  BY PendingInitIInv, <1>1, PTL DEF PendingSpec

\* The queues, clones and results keep their types whatever the sets.
THEOREM PendingTypesHold == PendingSpec => []PendingTypeOK
<1>1. PendingIInv => PendingTypeOK
  BY DEF PendingIInv
<1>2. QED
  BY PendingInvariance, <1>1, PTL

\* A user leaves a queue in PushCleanup only, and then as one of the users the
\* cleanup subtracts.
LEMMA OnlyCleanupDrops ==
  ASSUME PendingTypeOK, [PendingNext]_pendingVars, NEW t \in Tenants, NEW f \in Files,
         NEW u \in queue[t][f], u \notin queue'[t][f]
  PROVE  u \in subtract[t].done[f]
<1>1. PICK s \in Tenants :
        \/ \E g \in Files, us \in SUBSET Users : QueueUsers(s, g, us)
        \/ \E a \in Apps : QueueRemoval(s, a)
        \/ RunStep(s)
  BY DEF PendingNext, pendingVars
<1>2. queue' # queue
  OBVIOUS
<1>3. CASE \E g \in Files, us \in SUBSET Users : QueueUsers(s, g, us)
  BY <1>3 DEF QueueUsers, PendingTypeOK, Requests
<1>4. CASE PushCleanup(s)
  <2>1. queue' = [queue EXCEPT ![s] = Without(queue[s], subtract[s].done)]
    BY <1>2, <1>4 DEF PushCleanup
  <2>2. s = t /\ queue'[t] = Without(queue[t], subtract[t].done)
    BY <2>1 DEF PendingTypeOK
  <2>3. QED
    BY <2>2 DEF Without
<1>5. QED
  BY <1>1, <1>2, <1>3, <1>4 DEF QueueRemoval, RunStep, PlanRun, Refused, CloneApproved,
     ApplyBreaks, RemoveApps, ActOnGroups, SkipGroups, Die, ReadResult

\* Likewise for removals.
LEMMA OnlyCleanupDropsRemovals ==
  ASSUME PendingTypeOK, [PendingNext]_pendingVars, NEW t \in Tenants
  PROVE  removals[t] \ removals'[t] \subseteq clone[t].apps
<1>1. CASE UNCHANGED pendingVars
  BY <1>1 DEF pendingVars
<1>2. CASE PendingNext
  <2>1. PICK s \in Tenants :
          \/ \E g \in Files, us \in SUBSET Users : QueueUsers(s, g, us)
          \/ \E a \in Apps : QueueRemoval(s, a)
          \/ RunStep(s)
    BY <1>2 DEF PendingNext
  <2>2. CASE \E a \in Apps : QueueRemoval(s, a)
    BY <2>2 DEF QueueRemoval, PendingTypeOK
  <2>3. CASE PushCleanup(s)
    <3>1. \/ removals' = removals
          \/ removals' = [removals EXCEPT ![s] = removals[s] \ clone[s].apps]
      BY <2>3 DEF PushCleanup
    <3>2. removals'[t] = removals[t] \/ removals'[t] = removals[t] \ clone[t].apps
      BY <3>1 DEF PendingTypeOK
    <3>3. QED
      BY <3>2
  <2>4. QED
    BY <2>1, <2>2, <2>3 DEF QueueUsers, RunStep, PlanRun, Refused, CloneApproved,
       ApplyBreaks, RemoveApps, ActOnGroups, SkipGroups, Die, ReadResult
<1>3. QED
  BY <1>1, <1>2

\* A cleanup that reads its own run's result drops no request that was not
\* carried out, for every number of tenants sharing the host.
THEOREM OwnResultIsSafe == PendingSpec => OwnResultDropsOnlyDone
<1>1. PendingIInv /\ [PendingNext]_pendingVars =>
        [\A t \in Tenants, f \in Files :
           asked[t][f] \cap (queue[t][f] \ queue'[t][f]) # {} => ~subtract[t].own]_pendingVars
  <2> SUFFICES ASSUME PendingIInv, [PendingNext]_pendingVars, NEW t \in Tenants, NEW f \in Files,
                      NEW u \in asked[t][f], u \in queue[t][f], u \notin queue'[t][f],
                      subtract[t].own
               PROVE  FALSE
    OBVIOUS
  <2>1. u \in subtract[t].done[f]
    BY OnlyCleanupDrops DEF PendingIInv
  <2>2. QED
    BY <2>1 DEF PendingIInv, SubtractDone
<1>2. QED
  BY PendingInvariance, <1>1, PTL DEF PendingSpec, OwnResultDropsOnlyDone

\* What was queued after the apply job's clone survives its cleanup.
THEOREM LateRequestsAreSafe == PendingSpec => LateRequestsSurvive
<1>1. PendingIInv /\ [PendingNext]_pendingVars =>
        [\A t \in Tenants :
           /\ removals[t] \ removals'[t] \subseteq clone[t].apps
           /\ subtract[t].own =>
                \A f \in Files : queue[t][f] \ queue'[t][f] \subseteq clone[t].groups[f]]_pendingVars
  <2> SUFFICES ASSUME PendingIInv, [PendingNext]_pendingVars, NEW t \in Tenants
               PROVE  /\ removals[t] \ removals'[t] \subseteq clone[t].apps
                      /\ subtract[t].own =>
                           \A f \in Files :
                             queue[t][f] \ queue'[t][f] \subseteq clone[t].groups[f]
    OBVIOUS
  <2>1. removals[t] \ removals'[t] \subseteq clone[t].apps
    BY OnlyCleanupDropsRemovals DEF PendingIInv
  <2>2. ASSUME subtract[t].own, NEW f \in Files, NEW u \in queue[t][f], u \notin queue'[t][f]
        PROVE  u \in clone[t].groups[f]
    <3>1. u \in subtract[t].done[f]
      BY <2>2, OnlyCleanupDrops DEF PendingIInv
    <3>2. QED
      BY <2>2, <3>1 DEF PendingIInv, SubtractDone
  <2>3. QED
    BY <2>1, <2>2
<1>2. QED
  BY PendingInvariance, <1>1, PTL DEF PendingSpec, LateRequestsSurvive
=============================================================================
