--------------------------- MODULE BootstrapProofs ---------------------------
(* Theorems of PlatformBootstrap: what the sync finds, what the runner finds, *)
(* and what the sentinel says, for any number of failed calls and restarts;   *)
(* and of MspBootstrap: what the settings say, what a run without a failed    *)
(* call leaves, and what a created tenant has, for any tenants too.           *)
EXTENDS PlatformBootstrap, MspBootstrap, TLAPS

-----------------------------------------------------------------------------
(* The platform. *)

\* Where a run stands tells what the steps before it did, and that its promise
\* is the one callers join.
RunFacts ==
  /\ boot # "idle" => ready = "running"
  /\ boot \in {"admin", "mark", "validate", "create", "flag", "seed"} => server # "off"
  /\ boot = "mark" => token # "none"
  /\ boot = "flag" => server \in repo
  /\ boot = "seed" \/ ready = "resolved" => server # "off" /\ (server \in repo \/ "created" \in marks)
  /\ "created" \in marks => repo # {}

\* Gitea goes from the default database to the chosen one and never back.
DatabaseFacts ==
  /\ ini = "chosen" => choice = "chosen"
  /\ server = "chosen" => ini = "chosen"
  /\ "chosen" \in repo => ini = "chosen" /\ server # "default"

\* A sync counts as done only while the scripts are there.
SyncFacts == lastRun # "never" => Current

IInv == TypeOK /\ RunFacts /\ DatabaseFacts /\ SyncFacts /\ NoSyncBeforeRepo /\ RunnerHasScripts /\ InitialisedHasToken

LEMMA InitIInv == Init => IInv
BY BoundsAssumption, SMT DEF Init, IInv, TypeOK, RunFacts, DatabaseFacts, SyncFacts, SwitchedSince, NoSyncBeforeRepo,
   RunnerHasScripts, InitialisedHasToken, Current, Reachable, Databases, Marks, BootSteps, SyncSteps

\* Asking for the platform starts a run, or leaves the one that is.
LEMMA AskIInv ==
  ASSUME IInv, EnsurePlatform, marks' \in {marks, marks \cup {"setup"}}, sync' \in {sync, "await"},
         UNCHANGED <<choice, gitea, lastRun, runner, faults, restarts>>
  PROVE  IInv'
BY SMT DEF IInv, TypeOK, RunFacts, DatabaseFacts, SyncFacts, SwitchedSince, NoSyncBeforeRepo, RunnerHasScripts,
   InitialisedHasToken, Current, Reachable, Databases, Marks, BootSteps, SyncSteps, EnsurePlatform, gitea, joined

\* A step of the bootstrap.
LEMMA BootIInv == IInv /\ BootNext => IInv'
<1> SUFFICES ASSUME IInv, BootNext PROVE IInv'
  OBVIOUS
<1> USE BoundsAssumption DEF IInv, TypeOK, RunFacts, DatabaseFacts, SyncFacts, SwitchedSince, NoSyncBeforeRepo, RunnerHasScripts,
        InitialisedHasToken, Current, Reachable, Databases, Marks, BootSteps, SyncSteps, BootStep, BootStepBut, Fault, gitea
<1>1. CASE Initialise
  BY <1>1, SMT DEF Initialise
<1>2. CASE Configure
  BY <1>2, SMT DEF Configure
<1>3. CASE StartGitea
  BY <1>3, SMT DEF StartGitea
<1>4. CASE Answered
  BY <1>4, SMT DEF Answered
<1>5. CASE CreateAdmin
  BY <1>5, SMT DEF CreateAdmin
<1>6. CASE TokenValid
  BY <1>6, SMT DEF TokenValid
<1>7. CASE MarkInitialised
  <2>1. boot = "mark" /\ boot' = "create" /\ server # "off" /\ token # "none" /\ ready = "running"
    BY <1>7, SMT DEF MarkInitialised
  <2>2. marks' = marks \/ marks' = marks \cup {"initialised"}
    BY <1>7, Zenon DEF MarkInitialised
  <2>4. marks' \subseteq Marks /\ ("created" \in marks' <=> "created" \in marks)
    <3>1. marks \subseteq {"setup", "initialised", "created"}
      BY SMT
    <3> QED BY <2>2, <3>1, Zenon
  <2>5. faults' \in 0..MaxFaults
    BY <1>7, SMT DEF MarkInitialised
  <2>3. UNCHANGED <<choice, ini, server, token, repo, scripts, ready, sync, lastRun, runner, restarts>>
    BY <1>7, SMT DEF MarkInitialised
  <2> QED BY <2>1, <2>3, <2>4, <2>5, SMT
<1>8. CASE CreateRepo
  <2>1. server \in Databases /\ boot = "create" /\ ready = "running"
    BY <1>8, SMT DEF CreateRepo
  <2>2. repo' \subseteq Databases /\ repo \subseteq repo'
    <3>1. repo \subseteq Databases /\ (repo' = repo \/ repo' = repo \cup {server})
      BY <1>8 DEF CreateRepo
    <3> QED BY <2>1, <3>1, Zenon
  <2>3. \/ boot' = "seed" /\ "created" \in marks /\ repo' = repo
        \/ boot' = "flag" /\ "created" \notin marks /\ server \in repo' /\ repo' # {}
           /\ ("chosen" \in repo' => "chosen" \in repo \/ server = "chosen")
           /\ ("default" \in repo => "default" \in repo')
    BY <1>8, <2>1, SMT DEF CreateRepo
  <2>4. UNCHANGED <<marks, choice, ini, server, token, scripts, ready, sync, lastRun, runner, faults, restarts>>
    BY <1>8, SMT DEF CreateRepo
  <2> QED BY <2>1, <2>2, <2>3, <2>4, SMT
<1>9. CASE SetFlag
  BY <1>9, SMT DEF SetFlag
<1>10. CASE Bootstrapped
  BY <1>10, SMT DEF Bootstrapped, durable
<1> QED BY <1>1, <1>2, <1>3, <1>4, <1>5, <1>6, <1>7, <1>8, <1>9, <1>10 DEF BootNext

\* A step of the scripts sync.
LEMMA SyncIInv == IInv /\ SyncNext => IInv'
<1> SUFFICES ASSUME IInv, SyncNext PROVE IInv'
  OBVIOUS
<1> USE BoundsAssumption DEF IInv, TypeOK, RunFacts, DatabaseFacts, SyncFacts, SwitchedSince, NoSyncBeforeRepo, RunnerHasScripts,
        InitialisedHasToken, Current, Reachable, Databases, Marks, BootSteps, SyncSteps, SyncStep, joined, Fault
<1>1. CASE PlatformReady
  <2>1. repo \subseteq {"default", "chosen"} /\ ("created" \in marks => repo # {})
    BY Zenon
  <2>2. "created" \in marks => "default" \in repo \/ "chosen" \in repo
    BY <2>1, Zenon
  <2>3. server \in repo \/ SwitchedSince
    BY <1>1, <2>2, SMT DEF PlatformReady
  <2> QED BY <1>1, <2>3, SMT DEF PlatformReady
<1>2. CASE NothingToPush
  BY <1>2, SMT DEF NothingToPush
<1>3. CASE SomethingToPush
  BY <1>3, SMT DEF SomethingToPush
<1>4. CASE Push
  BY <1>4, SMT DEF Push
<1>5. CASE PushSomeFail
  BY <1>5, SMT DEF PushSomeFail
<1>6. CASE SyncEnds
  BY <1>6, SMT DEF SyncEnds
<1> QED BY <1>1, <1>2, <1>3, <1>4, <1>5, <1>6 DEF SyncNext

\* A stop of the portal or of the container.
LEMMA StopIInv == IInv /\ (PortalRestarts \/ ContainerRestarts) => IInv'
<1> SUFFICES ASSUME IInv, PortalRestarts \/ ContainerRestarts PROVE IInv'
  OBVIOUS
<1> USE BoundsAssumption DEF IInv, TypeOK, RunFacts, DatabaseFacts, SyncFacts, SwitchedSince, NoSyncBeforeRepo, RunnerHasScripts,
        InitialisedHasToken, Current, Reachable, Databases, Marks, BootSteps, SyncSteps, Stop
<1>1. CASE PortalRestarts
  BY <1>1, SMT DEF PortalRestarts, durable, gitea
<1>2. CASE ContainerRestarts
  BY <1>2, SMT DEF ContainerRestarts
<1> QED BY <1>1, <1>2

LEMMA NextIInv == IInv /\ [Next]_vars => IInv'
<1> SUFFICES ASSUME IInv, [Next]_vars PROVE IInv'
  OBVIOUS
<1>1. CASE SaveDatabase
  BY <1>1, SMT DEF IInv, SaveDatabase, TypeOK, RunFacts, DatabaseFacts, SyncFacts, SwitchedSince, NoSyncBeforeRepo, RunnerHasScripts,
     InitialisedHasToken, Current, Reachable, Databases, Marks, gitea, joined
<1>2. CASE CompleteSetup
  BY <1>2, AskIInv DEF CompleteSetup
<1>3. CASE PollStatus
  BY <1>3, AskIInv DEF PollStatus, durable, gitea, IInv, TypeOK
<1>4. CASE VisitPage
  BY <1>4, AskIInv DEF VisitPage, durable, gitea, IInv, TypeOK
<1>5. CASE BootNext
  BY <1>5, BootIInv
<1>6. CASE FailBoot
  BY <1>6, BoundsAssumption, SMT DEF IInv, FailBoot, Fault, Unfit, Regenerates, TokenAfterFailure, TypeOK, RunFacts, DatabaseFacts, SyncFacts, SwitchedSince, NoSyncBeforeRepo,
     RunnerHasScripts, InitialisedHasToken, Current, Reachable, Databases, Marks, BootSteps, SyncSteps, durable, gitea
<1>7. CASE SyncNext
  BY <1>7, SyncIInv
<1>8. CASE CooldownEnds \/ IntervalPasses \/ RunnerStarts \/ RunnerGivesUp \/ UNCHANGED vars
  BY <1>8, SMT DEF IInv, CooldownEnds, IntervalPasses, RunnerStarts, RunnerGivesUp, Synced, TypeOK, RunFacts,
     DatabaseFacts, SwitchedSince, SyncFacts, NoSyncBeforeRepo, RunnerHasScripts, InitialisedHasToken, Current, vars, durable, gitea,
     joined
<1>9. CASE PortalRestarts \/ ContainerRestarts
  BY <1>9, StopIInv
<1> QED BY <1>1, <1>2, <1>3, <1>4, <1>5, <1>6, <1>7, <1>8, <1>9 DEF Next

LEMMA IInvHolds == Spec => []IInv
BY InitIInv, NextIInv, PTL DEF Spec

\* The variables keep their types, whatever fails and whenever anything restarts.
THEOREM TypeCorrect == Spec => []TypeOK
BY IInvHolds, PTL DEF IInv

\* No sync touches the orchestrator repository of the running server before it was created
\* (_runScriptsSync awaits bootstrapPlatformIfNeeded), but for a database chosen since.
THEOREM SyncAfterRepo == Spec => []NoSyncBeforeRepo
BY IInvHolds, PTL DEF IInv

\* A runner that did not give up waiting finds the scripts of this image.
THEOREM RunnerAfterScripts == Spec => []RunnerHasScripts
BY IInvHolds, PTL DEF IInv

\* An initialised Gitea has a portal token.
THEOREM SentinelAfterToken == Spec => []InitialisedHasToken
BY IInvHolds, PTL DEF IInv

-----------------------------------------------------------------------------
(* The MSPs and their tenants. *)

\* Where the run stands tells what the steps before it left.
MspRunFacts ==
  /\ (step = "idle") = (promise \in {"none", "resolved"})
  /\ step \in {"baseline", "templateFiles"} => "template" \in made
  /\ step \in {"key", "secret", "mark"} => "template" \in made /\ "baseline" \in made
  /\ step = "engineMark" => "engine" \in made
  /\ \/ step \in {"idle", "template", "templateFiles", "baseline", "key"} /\ "msp" \notin settings
     \/ key # 0
  /\ held <= key /\ (step = "sync" => held # 0)

\* The run provisions one repository at a time.
OwnFacts ==
  /\ \A t \in Tenants : own[t] # "idle" => step = "provision"
  /\ \A t, u \in Tenants : own[t] # "idle" /\ own[u] # "idle" => t = u

\* A tenant the run has listed is on its list, has a repository, or is getting one.
ServedFacts ==
  /\ served \subseteq tenants \ deleting
  /\ outcome = "clean" =>
       /\ step = "recreate" => served \subseteq todo \cup made
       /\ step = "provision" => \A t \in served : t \in todo \/ t \in made \/ own[t] \in {"check", "create"}
       /\ step = "sync" => served \subseteq todo /\ served \subseteq made
       /\ step = "push" => /\ served \subseteq todo \cup seeded /\ served \subseteq made
                           /\ held = key => secret \in {key} \cup late \/ served = {}

\* The repository a creation is about to write files into is there.
PostFacts == \A t \in tenants \ deleting : post[t] = "files" => t \in made

Places == MspRunFacts /\ MarksTrue
Serves == OwnFacts /\ ServedFacts /\ CleanRunServes
Creates == PostFacts /\ CreatedIsReady
MspIInv == MspTypeOK /\ Places /\ Serves /\ Creates

\* The shared repositories are none of the tenants'.
LEMMA RepoNames ==
  /\ "template" \in Repos /\ "baseline" \in Repos /\ "engine" \in Repos
  /\ \A t \in Tenants : t \in Repos /\ t # "template" /\ t # "baseline" /\ t # "engine"
  /\ MaxFaults \in Nat /\ MaxRestarts \in Nat /\ MaxPosts \in Nat /\ MaxKeys \in Nat
BY BoundsAssumption, TenantsAssumption DEF Repos, Shared

LEMMA MspInitIInv == MspInit => MspIInv
BY BoundsAssumption, TenantsAssumption, SMT DEF MspInit, MspIInv, MspTypeOK, Places, Serves, Creates, MspRunFacts, OwnFacts,
   ServedFacts, PostFacts, MarksTrue, CleanRunServes, CreatedIsReady, Repos, Shared, Steps, Stages

\* A step of the run, but for its provisioning.
LEMMA MspRunIInv == MspIInv /\ RunNext => MspIInv'
<1> SUFFICES ASSUME MspIInv, RunNext PROVE MspIInv'
  OBVIOUS
<1> USE RepoNames DEF MspIInv, MspTypeOK, Places, Serves, Creates, MspRunFacts, OwnFacts, ServedFacts,
        PostFacts, MarksTrue, CleanRunServes, CreatedIsReady, Steps, Stages,
        RunStep, NoFault, Tolerated, Fault, shared, keys
<1>1. CASE CreateTemplate
  BY <1>1, SMT DEF CreateTemplate
<1>2. CASE SeedTemplate
  BY <1>2, SMT DEF SeedTemplate
<1>3. CASE CreateBaseline
  BY <1>3, SMT DEF CreateBaseline
<1>4. CASE StoreKey
  BY <1>4, SMT DEF StoreKey
<1>5. CASE SetSecret
  BY <1>5, SMT DEF SetSecret, GiveKey
<1>6. CASE Mark
  <2>1. settings' \subseteq {"msp", "engine"} /\ settings \subseteq settings'
    BY <1>6, Zenon DEF Mark
  <2>2. MspIInv /\ UNCHANGED <<made, seeded, key, secret, held, rotating, late, todo, served, own, faults, outcome, promise, tenants,
                           post, missed, deleting, posts, restarts>>
    BY <1>6, Zenon DEF Mark
  <2>3. \/ step = "mark" /\ step' = "engine" /\ settings' = settings \cup {"msp"}
        \/ step = "engineMark" /\ step' = "list" /\ settings' = settings \cup {"engine"}
    BY <1>6, Zenon DEF Mark
  <2> QED BY <2>1, <2>2, <2>3, SMT
<1>7. CASE CreateEngine
  BY <1>7, SMT DEF CreateEngine
<1>8. CASE ListTenants
  BY <1>8, SMT DEF ListTenants
<1>9. CASE BeginSync
  BY <1>9, SMT DEF BeginSync
<1>10. CASE SyncSecret
  <2>1. CASE todo # {} /\ held # 0 /\ GiveKey
    BY <1>10, <2>1, SMT DEF SyncSecret, GiveKey
  <2>2. CASE (todo = {} \/ held = 0) /\ NoFault /\ UNCHANGED <<shared, todo, served, own>>
    <3>1. step = "sync" /\ step' = "push" /\ todo = {}
      BY <1>10, <2>2, SMT DEF SyncSecret
    <3>2. outcome = "clean" => served = {}
      BY <3>1, SMT
    <3> QED BY <1>10, <2>2, <3>1, <3>2, SMT DEF SyncSecret
  <2> QED BY <1>10, <2>1, <2>2, Zenon DEF SyncSecret
<1>11. CASE RunEnds
  BY <1>11, SMT DEF RunEnds, bounds
<1>12. ASSUME NEW t \in Tenants, Recreate(t) PROVE MspIInv'
  BY <1>12, SMT DEF Recreate
<1>13. ASSUME NEW t \in Tenants, Recreated(t) PROVE MspIInv'
  BY <1>13, SMT DEF Recreated
<1>14. ASSUME NEW t \in Tenants, PushWorkflows(t) PROVE MspIInv'
  BY <1>14, SMT DEF PushWorkflows
<1> QED
  BY <1>1, <1>2, <1>3, <1>4, <1>5, <1>6, <1>7, <1>8, <1>9, <1>10, <1>11, <1>12, <1>13, <1>14,
     Zenon DEF RunNext

\* Provisioning, by the run and by a creation.
LEMMA OwnIInv == ASSUME MspIInv, NEW t \in Tenants, ProvisionOwn(t) PROVE MspIInv'
<1> USE RepoNames DEF MspIInv, MspTypeOK, Places, Serves, Creates, MspRunFacts, OwnFacts, ServedFacts,
        PostFacts, MarksTrue, CleanRunServes, CreatedIsReady, Steps, Stages,
        ProvisionOwn, Stage, Fault, keys
<1>1. CASE CheckRepo(own, t, "done")
  BY <1>1, SMT DEF CheckRepo
<1>2. CASE CreateTenantRepo(own, t, "done")
  BY <1>2, SMT DEF CreateTenantRepo
<1>3. CASE WriteFiles(own, t, "done")
  BY <1>3, SMT DEF WriteFiles
<1> QED
  BY <1>1, <1>2, <1>3, Zenon DEF ProvisionOwn

LEMMA PostIInv == ASSUME MspIInv, NEW t \in Tenants, ProvisionPost(t) PROVE MspIInv'
<1> USE RepoNames DEF MspIInv, MspTypeOK, Places, Serves, Creates, MspRunFacts, OwnFacts, ServedFacts,
        PostFacts, MarksTrue, CleanRunServes, CreatedIsReady, Steps, Stages,
        ProvisionPost, Stage, Fault, run, keys
<1>1. CASE CheckRepo(post, t, "idle")
  BY <1>1, SMT DEF CheckRepo
<1>2. CASE CreateTenantRepo(post, t, "idle")
  BY <1>2, SMT DEF CreateTenantRepo
<1>3. CASE /\ WriteFiles(post, t, "trigger")
           /\ missed' = (IF faults' = faults THEN missed ELSE missed \cup {t})
  <2>1. MspTypeOK' /\ Places' /\ Serves'
    BY <1>3, SMT DEF WriteFiles
  <2>2. CASE faults' = faults
    <3>1. t \in tenants \ deleting => t \in seeded'
      BY <1>3, <2>2, SMT DEF WriteFiles
    <3> QED BY <1>3, <2>1, <2>2, <3>1, SMT DEF WriteFiles
  <2>3. CASE faults' # faults
    <3>1. missed' = missed \cup {t} /\ UNCHANGED <<tenants, deleting, made>>
      BY <1>3, <2>3, SMT DEF WriteFiles
    <3>2. \A u \in Tenants : u # t => (u \in seeded' <=> u \in seeded) /\ post'[u] = post[u]
      BY <1>3, SMT DEF WriteFiles
    <3>3. post'[t] = "trigger"
      BY <1>3, SMT DEF WriteFiles
    <3> QED BY <2>1, <3>1, <3>2, <3>3, SMT
  <2> QED BY <2>2, <2>3
<1> QED
  BY <1>1, <1>2, <1>3, Zenon DEF ProvisionPost

\* Asking for the bootstrap starts a run, or leaves the one that is.
LEMMA MspAskIInv ==
  ASSUME MspIInv, EnsureMsp, UNCHANGED <<tenants, shared, own, missed, deleting, bounds>>,
         \/ UNCHANGED post
         \/ \E t \in Tenants : Stage(post, t, "trigger", "wait")
  PROVE  MspIInv'
BY RepoNames, SMT DEF MspIInv, MspTypeOK, Places, Serves, Creates, MspRunFacts, OwnFacts, ServedFacts,
   PostFacts, MarksTrue, CleanRunServes, CreatedIsReady, Steps, Stages, shared, keys, bounds, run, Stage,
   EnsureMsp

\* Tenants come and go.
LEMMA TenantIInv ==
  ASSUME MspIInv, NEW t \in Tenants, Triggered(t) \/ PostTenant(t) \/ DeleteRepo(t) \/ DeleteRow(t)
  PROVE  MspIInv'
<1> USE RepoNames DEF MspIInv, MspTypeOK, Places, Serves, Creates, MspRunFacts, OwnFacts, ServedFacts,
        PostFacts, MarksTrue, CleanRunServes, CreatedIsReady, Steps, Stages, shared, keys, bounds, run,
        Fault, Stage
<1>1. CASE Triggered(t)
  BY <1>1, SMT DEF Triggered
<1>2. CASE PostTenant(t)
  BY <1>2, SMT DEF PostTenant
<1>3. CASE DeleteRepo(t)
  BY <1>3, SMT DEF DeleteRepo
<1>4. CASE DeleteRow(t)
  BY <1>4, SMT DEF DeleteRow
<1> QED
  BY <1>1, <1>2, <1>3, <1>4

\* A run breaks off; the portal restarts.
LEMMA BreakIInv == ASSUME MspIInv, RunThrows \/ Restart PROVE MspIInv'
<1> USE RepoNames DEF MspIInv, MspTypeOK, Places, Serves, Creates, MspRunFacts, OwnFacts, ServedFacts,
        PostFacts, MarksTrue, CleanRunServes, CreatedIsReady, Steps, Stages, shared, keys, Fault
<1>1. CASE RunThrows
  BY <1>1, SMT DEF RunThrows
<1>2. CASE Restart
  BY <1>2, SMT DEF Restart
<1> QED
  BY <1>1, <1>2

\* The key is rotated: the run's is then another, or Gitea has what a rotation gave it.
LEMMA RotateIInv ==
  ASSUME MspIInv, RotateKey \/ \E k \in rotating : GiveRotated(k)
  PROVE  MspIInv'
<1> USE RepoNames DEF MspIInv, MspTypeOK, Places, Serves, Creates, MspRunFacts, OwnFacts, ServedFacts,
        PostFacts, MarksTrue, CleanRunServes, CreatedIsReady, Steps, Stages, bounds, run, Fault
<1>1. CASE RotateKey
  BY <1>1, SMT DEF RotateKey
<1>2. ASSUME NEW k \in rotating, GiveRotated(k) PROVE MspIInv'
  BY <1>2, SMT DEF GiveRotated
<1> QED
  BY <1>1, <1>2

LEMMA MspNextIInv == MspIInv /\ [MspNext]_mspVars => MspIInv'
<1> SUFFICES ASSUME MspIInv, [MspNext]_mspVars PROVE MspIInv'
  OBVIOUS
<1>1. CASE Visit
  BY <1>1, MspAskIInv, Zenon DEF Visit
<1>2. CASE RunNext
  BY <1>2, MspRunIInv
<1>3. CASE RunThrows \/ Restart
  BY <1>3, BreakIInv
<1>4. CASE Provision
  <2>1. ASSUME NEW t \in Tenants, Trigger(t) PROVE MspIInv'
    BY <2>1, MspAskIInv, Zenon DEF Trigger
  <2> QED
    BY <1>4, <2>1, OwnIInv, PostIInv, TenantIInv, Zenon DEF Provision
<1>5. CASE \E t \in Tenants : PostTenant(t) \/ DeleteRepo(t) \/ DeleteRow(t)
  BY <1>5, TenantIInv, Zenon
<1>6. CASE RotateKey \/ \E k \in rotating : GiveRotated(k)
  BY <1>6, RotateIInv
<1>7. CASE UNCHANGED mspVars
  BY <1>7, SMT DEF mspVars, keys, MspIInv, MspTypeOK, Places, Serves, Creates, MspRunFacts, OwnFacts, ServedFacts,
     PostFacts, MarksTrue, CleanRunServes, CreatedIsReady, Stages
<1> QED
  BY <1>1, <1>2, <1>3, <1>4, <1>5, <1>6, <1>7, Zenon DEF MspNext

LEMMA MspIInvHolds == MspSpec => []MspIInv
BY MspInitIInv, MspNextIInv, PTL DEF MspSpec

\* The variables keep their types, whatever fails: no run leaves a promise nobody can
\* join or replace (bootstrapMspIfNeeded).
THEOREM MspTypesHold == MspSpec => []MspTypeOK
<1>1. MspIInv => MspTypeOK
  BY DEF MspIInv
<1> QED BY <1>1, MspIInvHolds, PTL

\* The settings say that a part is set up only when it is (_runMspBootstrap,
\* _runEngineBootstrap).
THEOREM SettingsAreTrue == MspSpec => []MarksTrue
<1>1. MspIInv => MarksTrue
  BY DEF MspIInv, Places
<1> QED BY <1>1, MspIInvHolds, PTL

\* A run without a failed call served every tenant it listed and that was not deleted
\* since, and left Gitea with the key it read unless a rotation came in between
\* (ensureMspTenantReposExist, syncMspTenantWorkflows).
THEOREM CleanRunsServe == MspSpec => []CleanRunServes
<1>1. MspIInv => CleanRunServes
  BY DEF MspIInv, Serves
<1> QED BY <1>1, MspIInvHolds, PTL

\* A tenant that was created has its workflow files unless writing them failed
\* (_provisionTenantRepo, ensureRepoWorkflowFiles).
THEOREM CreationsAreReady == MspSpec => []CreatedIsReady
<1>1. MspIInv => CreatedIsReady
  BY DEF MspIInv, Creates
<1> QED BY <1>1, MspIInvHolds, PTL
=============================================================================
