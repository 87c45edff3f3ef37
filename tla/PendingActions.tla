--------------------------- MODULE PendingActions ---------------------------
(***************************************************************************)
(* The requests the portal queues in a tenant repository and the deploy    *)
(* run that carries them out: pending-group-adds/removes (one file per     *)
(* group, with the users asked for) and pending-removes (one manifest per  *)
(* app).  A run plans on one clone, waits at the gate, applies on a second *)
(* clone and at its end subtracts what it did from the queues.  Runs of    *)
(* one tenant are serialised (see DeployGate); runs of several tenants     *)
(* share one host, and with it the file /tmp/group-action-result.json.     *)
(*                                                                         *)
(* A file's folder fixes whether its users are added or removed; both are  *)
(* carried out alike.  User ids are unique across tenants, so Users names  *)
(* the users of each tenant and a result matches no other tenant's queue.  *)
(***************************************************************************)
EXTENDS FiniteSets

CONSTANTS
  Tenants,   \* tenants whose runs share the host
  Files,     \* pending group files a tenant may have
  Users,     \* users of a tenant that can be queued
  Apps,      \* apps of a tenant that can be queued for removal
  NoOne      \* writer of the result file before any run wrote it

ASSUME NoOneAssumption == NoOne \notin Tenants

VARIABLES
  queue,     \* queue[t][f]: users in pending file f of t; none: no file
  removals,  \* removals[t]: manifests under pending-removes of t
  stage,     \* where the deploy run of t is
  plan,      \* plan[t]: group requests planned, and whether deletes were
  clone,     \* clone[t]: both queues as the apply job cloned them
  resultFile,  \* the result file in /tmp: its writer and the users done
  wrote,     \* tenants whose run under way wrote the result file
  subtract,  \* subtract[t]: users the cleanup subtracts; is the result its own?
  asked,     \* history: group requests not carried out yet
  askedApps  \* history: removals not carried out yet

runVars == <<stage, plan, clone, wrote, subtract>>
history == <<asked, askedApps>>
pendingVars == <<queue, removals, runVars, resultFile, history>>

Stages   == {"idle", "gated", "remove", "group", "cleanup", "push"}
Requests == [Files -> SUBSET Users]
Nobody   == [f \in Files |-> {}]

PendingTypeOK ==
  /\ queue \in [Tenants -> Requests]
  /\ removals \in [Tenants -> SUBSET Apps]
  /\ stage \in [Tenants -> Stages]
  /\ plan \in [Tenants -> [groups : Requests, deletes : BOOLEAN]]
  /\ clone \in [Tenants -> [groups : Requests, apps : SUBSET Apps]]
  /\ resultFile \in [by : Tenants \cup {NoOne}, done : Requests]
  /\ wrote \subseteq Tenants
  /\ subtract \in [Tenants -> [own : BOOLEAN, done : Requests]]
  /\ asked \in [Tenants -> Requests]
  /\ askedApps \in [Tenants -> SUBSET Apps]

NoPlan     == [groups |-> Nobody, deletes |-> FALSE]
NoClone    == [groups |-> Nobody, apps |-> {}]
NoSubtract == [own |-> FALSE, done |-> Nobody]

PendingInit ==
  /\ queue = [t \in Tenants |-> Nobody]
  /\ removals = [t \in Tenants |-> {}]
  /\ stage = [t \in Tenants |-> "idle"]
  /\ plan = [t \in Tenants |-> NoPlan]
  /\ clone = [t \in Tenants |-> NoClone]
  /\ resultFile = [by |-> NoOne, done |-> Nobody]
  /\ wrote = {}
  /\ subtract = [t \in Tenants |-> NoSubtract]
  /\ asked = [t \in Tenants |-> Nobody]
  /\ askedApps = [t \in Tenants |-> {}]

Without(req, gone) == [f \in Files |-> req[f] \ gone[f]]

GoesTo(t, step) == stage' = [stage EXCEPT ![t] = step]

\* The run is over and its job directory with the clones is gone.
EndRun(t) ==
  /\ GoesTo(t, "idle")
  /\ plan' = [plan EXCEPT ![t] = NoPlan]
  /\ clone' = [clone EXCEPT ![t] = NoClone]
  /\ subtract' = [subtract EXCEPT ![t] = NoSubtract]
  /\ wrote' = wrote \ {t}

-----------------------------------------------------------------------------
(* The portal. *)

\* Merge users into a pending file.  The write carries the version it read, so
\* it replaces that version or fails.
QueueUsers(t, f, us) ==
  /\ us # {}
  /\ queue' = [queue EXCEPT ![t][f] = @ \cup us]
  /\ asked' = [asked EXCEPT ![t][f] = @ \cup (us \ queue[t][f])]
  /\ UNCHANGED <<removals, runVars, resultFile, askedApps>>

QueueRemoval(t, a) ==
  /\ a \notin removals[t]
  /\ removals' = [removals EXCEPT ![t] = @ \cup {a}]
  /\ askedApps' = [askedApps EXCEPT ![t] = @ \cup {a}]
  /\ UNCHANGED <<queue, runVars, resultFile, asked>>

-----------------------------------------------------------------------------
(* The deploy run. *)

\* Plan on a first clone.  Group requests are always planned, removals only
\* with allowDelete; baselineChanges and baselineDeletes are what else the plan
\* found.  With nothing pending there is no gate and the run is over.
PlanRun(t, allowDelete, baselineChanges, baselineDeletes) ==
  /\ stage[t] = "idle"
  /\ LET deletes == allowDelete /\ (removals[t] # {} \/ baselineDeletes) IN
     /\ baselineChanges \/ deletes \/ queue[t] # Nobody
     /\ plan' = [plan EXCEPT ![t] = [groups |-> queue[t], deletes |-> deletes]]
  /\ GoesTo(t, "gated")
  /\ UNCHANGED <<queue, removals, clone, resultFile, wrote, subtract, history>>

\* Denied, expired, cancelled or failed.
Refused(t) ==
  /\ stage[t] = "gated"
  /\ EndRun(t)
  /\ UNCHANGED <<queue, removals, resultFile, history>>

\* Approved: the apply job clones the repository anew.
CloneApproved(t) ==
  /\ stage[t] = "gated"
  /\ clone' = [clone EXCEPT ![t] = [groups |-> queue[t], apps |-> removals[t]]]
  /\ GoesTo(t, "remove")
  /\ UNCHANGED <<queue, removals, plan, resultFile, wrote, subtract, history>>

\* An apply step without continue-on-error fails: only the always() steps run.
ApplyBreaks(t) ==
  /\ stage[t] = "remove"
  /\ GoesTo(t, "cleanup")
  /\ UNCHANGED <<queue, removals, plan, clone, resultFile, wrote, subtract, history>>

\* The removals that succeed; with no delete in the plan the steps are skipped.
CarryOutRemovals(t) ==
  \E apps \in SUBSET clone[t].apps :
    /\ plan[t].deletes \/ apps = {}
    /\ askedApps' = [askedApps EXCEPT ![t] = @ \ apps]

RemoveApps(t) ==
  /\ stage[t] = "remove"
  /\ CarryOutRemovals(t)
  /\ GoesTo(t, "group")
  /\ UNCHANGED <<queue, removals, plan, clone, resultFile, wrote, subtract, asked>>

\* Graph accepts the requests in done; the others fail.
CarryOut(t, done) ==
  /\ \A f \in Files : done[f] \subseteq clone[t].groups[f]
  /\ asked' = [asked EXCEPT ![t] = Without(@, done)]

\* Mutant: failed users count as processed.
ActOnGroupsAll(t) ==
  /\ stage[t] = "group"
  /\ clone[t].groups # Nobody
  /\ \E done \in Requests : CarryOut(t, done)
  /\ resultFile' = [by |-> t, done |-> clone[t].groups]
  /\ wrote' = wrote \cup {t}
  /\ GoesTo(t, "cleanup")
  /\ UNCHANGED <<queue, removals, plan, clone, subtract, askedApps>>

\* The group step over the clone's files; the result is written at its end.
ActOnGroups(t) ==
  /\ stage[t] = "group"
  /\ clone[t].groups # Nobody
  /\ \E done \in Requests :
       /\ CarryOut(t, done)
       /\ resultFile' = [by |-> t, done |-> done]
  /\ wrote' = wrote \cup {t}
  /\ GoesTo(t, "cleanup")
  /\ UNCHANGED <<queue, removals, plan, clone, subtract, askedApps>>

\* No pending file, or no connection to Graph: the result file is as it was.
SkipGroups(t) ==
  /\ stage[t] = "group"
  /\ GoesTo(t, "cleanup")
  /\ UNCHANGED <<queue, removals, plan, clone, resultFile, wrote, subtract, history>>

\* The apply job dies: a step under way is half done, no cleanup runs.
Die(t) ==
  /\ stage[t] \in {"remove", "group", "cleanup", "push"}
  /\ \/ stage[t] = "remove" /\ CarryOutRemovals(t) /\ UNCHANGED asked
     \/ /\ stage[t] = "group"
        /\ \E done \in Requests : CarryOut(t, done)
        /\ UNCHANGED askedApps
     \/ stage[t] \in {"cleanup", "push"} /\ UNCHANGED history
  /\ EndRun(t)
  /\ UNCHANGED <<queue, removals, resultFile>>

\* The cleanup reads whatever result file there is; only users of the tenant
\* match its queue.
ReadResult(t) ==
  /\ stage[t] = "cleanup"
  /\ subtract' = [subtract EXCEPT ![t] =
       [own  |-> t \in wrote \/ resultFile.by # t,
        done |-> IF resultFile.by = t THEN resultFile.done ELSE Nobody]]
  /\ GoesTo(t, "push")
  /\ UNCHANGED <<queue, removals, plan, clone, resultFile, wrote, history>>

\* Mutant: pending-removes is refreshed from origin like the group folders.
PushCleanupRefreshed(t) ==
  /\ stage[t] = "push"
  /\ \/ /\ queue' = [queue EXCEPT ![t] = Without(@, subtract[t].done)]
        /\ removals' = [removals EXCEPT ![t] = {}]
     \/ UNCHANGED <<queue, removals>>
  /\ EndRun(t)
  /\ UNCHANGED <<resultFile, history>>

\* Commit, rebase and push: the cloned manifests go, done or not, and so do the
\* subtracted users.  A conflict or a rejected push loses the whole commit.
PushCleanup(t) ==
  /\ stage[t] = "push"
  /\ \/ /\ queue' = [queue EXCEPT ![t] = Without(@, subtract[t].done)]
        /\ removals' = [removals EXCEPT ![t] = @ \ clone[t].apps]
     \/ UNCHANGED <<queue, removals>>
  /\ EndRun(t)
  /\ UNCHANGED <<resultFile, history>>

RunStep(t) ==
  \/ \E allowDelete, changes, deletes \in BOOLEAN : PlanRun(t, allowDelete, changes, deletes)
  \/ Refused(t) \/ CloneApproved(t) \/ ApplyBreaks(t) \/ RemoveApps(t)
  \/ ActOnGroups(t) \/ SkipGroups(t) \/ Die(t) \/ ReadResult(t) \/ PushCleanup(t)

PendingNext ==
  \E t \in Tenants :
    \/ \E f \in Files, us \in SUBSET Users : QueueUsers(t, f, us)
    \/ \E a \in Apps : QueueRemoval(t, a)
    \/ RunStep(t)

PendingSpec == PendingInit /\ [][PendingNext]_pendingVars

-----------------------------------------------------------------------------
(* Properties. *)

\* As long as no cleanup took an earlier run's result for its own, a request is
\* in its queue until it is carried out, whatever failed, died, was queued in
\* between or was not pushed.
OwnResultDropsOnlyDone ==
  [][\A t \in Tenants, f \in Files :
       asked[t][f] \cap (queue[t][f] \ queue'[t][f]) # {} => ~subtract[t].own]_pendingVars

\* "Users queued during the gate survive", and so do the removals: a cleanup
\* takes out of a queue only what its run had cloned.  (A result taken from an
\* earlier run is set apart, as above.)
LateRequestsSurvive ==
  [][\A t \in Tenants :
       /\ removals[t] \ removals'[t] \subseteq clone[t].apps
       /\ subtract[t].own =>
            \A f \in Files : queue[t][f] \ queue'[t][f] \subseteq clone[t].groups[f]]_pendingVars

\* AppsClient.tsx: "Run deploy to delete from Intune": a removal leaves the queue
\* only once it was carried out.
RemovalsKept == \A t \in Tenants : askedApps[t] \subseteq removals[t]
=============================================================================
