---------------------------- MODULE MspBootstrap ----------------------------
(***************************************************************************)
(* Setting up one managed service provider (MSP) and its tenants in Gitea: *)
(* the shared repositories (tenant-template, baseline, engine), the secret *)
(* the pipelines authenticate with, which an operator may rotate, and one  *)
(* repository per tenant with its workflow files                           *)
(* (lib/server/platform-bootstrap.ts, api/tenants, api/msps/internal-key). *)
(*                                                                         *)
(* One bootstrap per MSP is in flight at a time and is joined by whoever   *)
(* asks; a tenant that is being created provisions its repository on its   *)
(* own, next to it, and so does the bootstrap for tenants whose repository *)
(* is missing.  Calls to Gitea may fail, MaxFaults times; the portal may   *)
(* restart between two steps.  A repository holds its workflow files or    *)
(* not; other files, variables and branch protection are left out.         *)
(***************************************************************************)
EXTENDS PortalProcess

CONSTANTS
  Tenants,
  MaxPosts,  \* bound: creations
  MaxKeys    \* bound: keys, the first and those that replace it

ASSUME TenantsAssumption ==
  /\ MaxPosts \in Nat /\ MaxKeys \in Nat
  /\ Tenants \cap {"template", "baseline", "engine"} = {}

VARIABLES
  tenants,    \* active tenants of the MSP in the database
  made,       \* repositories that exist
  seeded,     \* those that hold their workflow files
  settings,   \* settings msp_bootstrapped ("msp") and engine_bootstrapped ("engine")
  key,        \* PORTAL_INTERNAL_KEY: the number of the key that is stored, 0 for none
  secret,     \* the one that Gitea has
  held,       \* the one that the run has generated or read last
  rotating,   \* keys stored by a rotation that has still to give them to Gitea
  late,       \* history: those that it gave, or tried to, when another had replaced them
  promise,    \* _mspPromises: "none", "first" or "again" while it runs, "resolved"
  step,       \* where the run in flight stands, "idle" when none is
  todo,       \* tenants its current loop has still to visit
  served,     \* tenants it has listed that were not deleted since
  outcome,    \* "clean" until a call of it fails, then "marred"
  post, own,  \* provisioning of each tenant, by POST /api/tenants and by the run
  missed,     \* tenants whose creation could not write the workflow files
  deleting,   \* tenants whose repository is deleted and whose row is not yet
  posts

keys   == <<key, secret, held, rotating, late>>
shared == <<made, seeded, settings, keys>>
run    == <<promise, step, todo, served, outcome>>
bounds == <<posts, faults, restarts>>
mspVars == <<tenants, made, seeded, settings, keys, promise, step, todo, served, outcome,
            post, own, missed, deleting, posts, faults, restarts>>

Shared == {"template", "baseline", "engine"}
Repos  == Shared \cup Tenants
Steps  == {"idle", "template", "templateFiles", "baseline", "key", "secret", "mark",
           "engine", "engineMark", "list", "recreate", "provision", "sync", "push"}
Stages == {"idle", "check", "create", "files", "trigger", "wait", "done"}
Running == promise \in {"first", "again"}

MspTypeOK ==
  /\ tenants \subseteq Tenants /\ made \subseteq Repos /\ seeded \subseteq made
  /\ settings \subseteq {"msp", "engine"}
  /\ key \in Nat /\ secret \in Nat /\ held \in Nat /\ rotating \subseteq Nat /\ late \subseteq Nat
  /\ promise \in {"none", "first", "again", "resolved"} /\ step \in Steps
  /\ todo \subseteq Tenants /\ served \subseteq Tenants /\ outcome \in {"clean", "marred"}
  /\ post \in [Tenants -> Stages] /\ own \in [Tenants -> Stages]
  /\ missed \subseteq Tenants /\ deleting \subseteq tenants
  /\ posts \in 0..MaxPosts /\ faults \in 0..MaxFaults /\ restarts \in 0..MaxRestarts

MspInit ==
  /\ tenants = {} /\ made = {} /\ seeded = {} /\ settings = {}
  /\ key = 0 /\ secret = 0 /\ held = 0 /\ rotating = {} /\ late = {}
  /\ promise = "none" /\ step = "idle" /\ todo = {} /\ served = {} /\ outcome = "clean"
  /\ post = [t \in Tenants |-> "idle"] /\ own = [t \in Tenants |-> "idle"]
  /\ missed = {} /\ deleting = {}
  /\ posts = 0 /\ faults = 0 /\ restarts = 0

(***************************************************************************)
(* The bootstrap of the MSP.                                               *)
(***************************************************************************)

\* bootstrapMspIfNeeded: what an earlier process did is skipped but for the engine
\* and the tenants.
EnsureMsp ==
  IF promise # "none" THEN UNCHANGED run
  ELSE /\ promise' = (IF "msp" \in settings THEN "again" ELSE "first")
       /\ step' = (IF "msp" \in settings THEN "engine" ELSE "template")
       /\ outcome' = "clean" /\ served' = {} /\ UNCHANGED todo

\* A page of the MSP, or its creation.
Visit ==
  /\ promise = "none" /\ EnsureMsp
  /\ UNCHANGED <<tenants, shared, post, own, missed, deleting, bounds>>

RunStep(from, to) ==
  /\ step = from /\ step' = to
  /\ UNCHANGED <<promise, tenants, post, missed, deleting, posts, restarts>>

\* A call whose failure is logged and passed over.
Tolerated == Fault /\ outcome' = "marred"
NoFault   == UNCHANGED <<faults, outcome>>

\* Mutant: the error is logged and passed over, as in the steps around it.
ThrowSwallowed ==
  /\ step \in {"template", "baseline", "engine"}
  /\ Tolerated
  /\ step' = [template |-> "baseline", baseline |-> "key", engine |-> "engineMark"][step]
  /\ UNCHANGED <<tenants, shared, promise, todo, served, post, own, missed, deleting, posts, restarts>>

\* A creation that throws ends the run: a first run swallows the error and its
\* promise counts as resolved, a later one is dropped and may be tried again.
RunThrows ==
  /\ step \in {"template", "baseline", "engine"}
  /\ Fault
  /\ step' = "idle" /\ outcome' = "marred"
  /\ promise' = (IF promise = "first" THEN "resolved" ELSE "none")
  /\ UNCHANGED <<tenants, shared, todo, served, post, own, missed, deleting, posts, restarts>>

\* A repository that exists is taken as it is, files or not.
CreateTemplate ==
  /\ \/ "template" \in made /\ RunStep("template", "baseline")
     \/ "template" \notin made /\ RunStep("template", "templateFiles")
  /\ made' = made \cup {"template"}
  /\ NoFault /\ UNCHANGED <<seeded, settings, keys, todo, served, own>>

SeedTemplate ==
  /\ RunStep("templateFiles", "baseline")
  /\ \/ seeded' = seeded \cup {"template"} /\ NoFault
     \/ Tolerated /\ UNCHANGED seeded
  /\ UNCHANGED <<made, settings, keys, todo, served, own>>

CreateBaseline ==
  /\ RunStep("baseline", "key") /\ made' = made \cup {"baseline"}
  /\ NoFault /\ UNCHANGED <<seeded, settings, keys, todo, served, own>>

\* The key is generated if none is stored, then given to Gitea.
StoreKey ==
  /\ \/ key = 0 /\ RunStep("key", "secret") /\ key' = 1 /\ held' = 1
     \/ key # 0 /\ RunStep("key", "mark") /\ UNCHANGED <<key, held>>
  /\ NoFault /\ UNCHANGED <<made, seeded, settings, secret, rotating, late, todo, served, own>>

\* A failed call may have set the secret.
GiveKey ==
  /\ \/ secret' = held /\ NoFault
     \/ secret' \in {secret, held} /\ Tolerated
  /\ UNCHANGED <<made, seeded, settings, key, held, rotating, late, todo, served, own>>

SetSecret == RunStep("secret", "mark") /\ GiveKey

Mark ==
  /\ \/ RunStep("mark", "engine") /\ settings' = settings \cup {"msp"}
     \/ RunStep("engineMark", "list") /\ settings' = settings \cup {"engine"}
  /\ NoFault /\ UNCHANGED <<made, seeded, keys, todo, served, own>>

\* bootstrapMspEngineIfNeeded
CreateEngine ==
  /\ \/ "engine" \in settings /\ RunStep("engine", "list") /\ UNCHANGED made
     \/ "engine" \notin settings /\ RunStep("engine", "engineMark") /\ made' = made \cup {"engine"}
  /\ NoFault /\ UNCHANGED <<seeded, settings, keys, todo, served, own>>

\* ensureMspTenantReposExist: the tenants of the moment, one after the other.
ListTenants ==
  /\ RunStep("list", "recreate") /\ todo' = tenants /\ served' = tenants \ deleting
  /\ NoFault /\ UNCHANGED <<shared, own>>

\* Only a missing repository is provisioned, and waited for; one that cannot be asked
\* for counts as missing.
Recreate(t) ==
  /\ t \in todo /\ todo' = todo \ {t}
  /\ \/ t \in made /\ RunStep("recreate", "recreate") /\ NoFault /\ UNCHANGED own
     \/ /\ RunStep("recreate", "provision") /\ own' = [own EXCEPT ![t] = "check"]
        /\ (t \notin made /\ NoFault) \/ (t \in made /\ Tolerated)
  /\ UNCHANGED <<shared, served>>

Recreated(t) ==
  /\ own[t] = "done" /\ RunStep("provision", "recreate")
  /\ own' = [own EXCEPT ![t] = "idle"]
  /\ NoFault /\ UNCHANGED <<shared, todo, served>>

\* Mutant: what an earlier process synced is not synced again.
SyncOnce ==
  /\ todo = {} /\ RunStep("recreate", "sync") /\ held' = key
  /\ todo' = (IF promise = "again" THEN {} ELSE tenants)
  /\ NoFault /\ UNCHANGED <<made, seeded, settings, key, secret, rotating, late, served, own>>

\* _syncMspTenantWorkflows: the tenants are listed again, and the key is read.
BeginSync ==
  /\ todo = {} /\ RunStep("recreate", "sync") /\ todo' = tenants /\ held' = key
  /\ NoFault /\ UNCHANGED <<made, seeded, settings, key, secret, rotating, late, served, own>>

\* With a tenant the key goes to Gitea, after a variable that has to be awaited.
SyncSecret ==
  /\ RunStep("sync", "push")
  /\ \/ todo # {} /\ held # 0 /\ GiveKey
     \/ (todo = {} \/ held = 0) /\ NoFault /\ UNCHANGED <<shared, todo, served, own>>

\* Missing and outdated workflow files of a repository that exists are written.
PushWorkflows(t) ==
  /\ t \in todo /\ todo' = todo \ {t} /\ RunStep("push", "push")
  /\ \/ seeded' = (IF t \in made THEN seeded \cup {t} ELSE seeded) /\ NoFault
     \/ t \in made /\ Tolerated /\ UNCHANGED seeded
  /\ UNCHANGED <<made, settings, keys, served, own>>

RunEnds ==
  /\ step = "push" /\ todo = {} /\ step' = "idle" /\ promise' = "resolved"
  /\ UNCHANGED <<tenants, shared, todo, served, outcome, post, own, missed, deleting, bounds>>

RunNext ==
  \/ CreateTemplate \/ SeedTemplate \/ CreateBaseline \/ StoreKey \/ SetSecret \/ Mark
  \/ CreateEngine \/ ListTenants \/ BeginSync \/ SyncSecret \/ RunEnds
  \/ \E t \in Tenants : Recreate(t) \/ Recreated(t) \/ PushWorkflows(t)

(***************************************************************************)
(* Provisioning a tenant's repository (_provisionTenantRepo), by whoever.  *)
(***************************************************************************)

Stage(who, t, from, to) == who[t] = from /\ who' = [who EXCEPT ![t] = to]

\* The organisation is made sure of, then the repository looked for; an error there
\* counts as a repository that does not exist.
CheckRepo(who, t, failed) ==
  /\ \/ Stage(who, t, "check", IF t \in made THEN "files" ELSE "create") /\ UNCHANGED faults
     \/ Stage(who, t, "check", failed) /\ Fault
     \/ t \in made /\ Stage(who, t, "check", "create") /\ Fault
  /\ UNCHANGED <<made, seeded>>

\* Generated from the template with what that holds, or created empty when there
\* is no template or it cannot be used; another creation in between makes both fail,
\* and the provisioning ends there.
CreateTenantRepo(who, t, failed) ==
  \/ /\ t \notin made /\ Stage(who, t, "create", "files") /\ made' = made \cup {t}
     /\ \/ /\ seeded' = (IF "template" \in seeded THEN seeded \cup {t} ELSE seeded)
           /\ UNCHANGED faults
        \/ "template" \in made /\ Fault /\ UNCHANGED seeded
  \/ /\ Stage(who, t, "create", failed)
     /\ (t \in made /\ UNCHANGED faults) \/ (t \notin made /\ Fault)
     /\ UNCHANGED <<made, seeded>>

\* Mutant: with a template the files are taken to have come from there.
TrustTemplate(who, t, next) ==
  /\ Stage(who, t, "files", next)
  /\ seeded' = (IF t \in made /\ "template" \notin made THEN seeded \cup {t} ELSE seeded)
  /\ UNCHANGED <<made, faults>>

\* ensureRepoWorkflowFiles: what is missing is written, failures are passed over.
WriteFiles(who, t, next) ==
  /\ Stage(who, t, "files", next)
  /\ \/ t \in made /\ seeded' = seeded \cup {t} /\ UNCHANGED faults
     \/ t \notin made /\ UNCHANGED <<seeded, faults>>
     \/ t \in made /\ Fault /\ UNCHANGED seeded
  /\ UNCHANGED made

\* Mutant: the run provisions as a creation does and waits for itself.
ProvisionAndWait(t) ==
  /\ CheckRepo(own, t, "done") \/ CreateTenantRepo(own, t, "done") \/ WriteFiles(own, t, "wait")
  /\ outcome' = (IF faults' = faults THEN outcome ELSE "marred")
  /\ UNCHANGED <<tenants, settings, keys, promise, step, todo, served, post, missed, deleting,
                 posts, restarts>>

\* The run's own provisioning ends there: it must not ask for the run it is part of.
ProvisionOwn(t) ==
  /\ CheckRepo(own, t, "done") \/ CreateTenantRepo(own, t, "done") \/ WriteFiles(own, t, "done")
  /\ outcome' = (IF faults' = faults THEN outcome ELSE "marred")
  /\ UNCHANGED <<tenants, settings, keys, promise, step, todo, served, post, missed, deleting,
                 posts, restarts>>

\* bootstrapTenantRepo goes on to ask for the MSP's bootstrap and waits for it.
ProvisionPost(t) ==
  /\ \/ (CheckRepo(post, t, "idle") \/ CreateTenantRepo(post, t, "idle")) /\ UNCHANGED missed
     \/ /\ WriteFiles(post, t, "trigger")
        /\ missed' = (IF faults' = faults THEN missed ELSE missed \cup {t})
  /\ UNCHANGED <<tenants, settings, keys, run, own, deleting, posts, restarts>>

Trigger(t) ==
  /\ Stage(post, t, "trigger", "wait") /\ EnsureMsp
  /\ UNCHANGED <<tenants, shared, own, missed, deleting, bounds>>

Triggered(t) ==
  /\ ~Running /\ Stage(post, t, "wait", "done")
  /\ UNCHANGED <<tenants, shared, run, own, missed, deleting, bounds>>

(***************************************************************************)
(* Tenants come and go; the portal restarts.                               *)
(***************************************************************************)

\* POST /api/tenants; a slug is taken again only when its last creation has ended.
PostTenant(t) ==
  /\ posts < MaxPosts /\ posts' = posts + 1
  /\ t \notin tenants /\ post[t] \in {"idle", "done"}
  /\ tenants' = tenants \cup {t} /\ post' = [post EXCEPT ![t] = "check"]
  /\ missed' = missed \ {t}
  /\ UNCHANGED <<shared, run, own, deleting, faults, restarts>>

\* DELETE /api/tenants: the repository, when Gitea lets it go, then the row.
DeleteRepo(t) ==
  /\ t \in tenants \ deleting /\ deleting' = deleting \cup {t}
  /\ \/ made' = made \ {t} /\ seeded' = seeded \ {t} /\ UNCHANGED faults
     \/ Fault /\ UNCHANGED <<made, seeded>>
  /\ served' = served \ {t}
  /\ UNCHANGED <<tenants, settings, keys, promise, step, todo, outcome, post, own, missed,
                 posts, restarts>>

DeleteRow(t) ==
  /\ t \in deleting /\ deleting' = deleting \ {t} /\ tenants' = tenants \ {t}
  /\ UNCHANGED <<shared, run, post, own, missed, bounds>>

\* POST /api/msps/[slug]/internal-key: a new key is stored, then given to Gitea, which may
\* fail: there may be no organisation yet.
RotateKey ==
  /\ key < MaxKeys /\ key' = key + 1 /\ rotating' = rotating \cup {key + 1}
  /\ UNCHANGED <<tenants, made, seeded, settings, secret, held, late, run, post, own, missed,
                 deleting, bounds>>

GiveRotated(k) ==
  /\ k \in rotating /\ rotating' = rotating \ {k}
  /\ late' = (IF k = key THEN late ELSE late \cup {k})
  /\ \/ secret' = k /\ UNCHANGED faults
     \/ secret' \in {secret, k} /\ Fault
     \/ made = {} /\ UNCHANGED <<secret, faults>>
  /\ UNCHANGED <<tenants, made, seeded, settings, key, held, run, post, own, missed, deleting,
                 posts, restarts>>

Restart ==
  /\ restarts < MaxRestarts /\ restarts' = restarts + 1
  /\ promise' = "none" /\ step' = "idle" /\ todo' = {} /\ served' = {} /\ outcome' = "clean"
  /\ post' = [t \in Tenants |-> "idle"] /\ own' = [t \in Tenants |-> "idle"]
  /\ deleting' = {} /\ held' = 0 /\ rotating' = {}
  /\ UNCHANGED <<tenants, made, seeded, settings, key, secret, late, missed, posts, faults>>

Provision == \E t \in Tenants : ProvisionOwn(t) \/ ProvisionPost(t) \/ Trigger(t) \/ Triggered(t)

MspNext ==
  \/ Visit \/ RunNext \/ RunThrows \/ Provision
  \/ \E t \in Tenants : PostTenant(t) \/ DeleteRepo(t) \/ DeleteRow(t)
  \/ RotateKey \/ (\E k \in rotating : GiveRotated(k)) \/ Restart

\* The event loop takes the steps of a run and of a provisioning in flight.
MspSpec == MspInit /\ [][MspNext]_mspVars /\ WF_mspVars(RunNext) /\ WF_mspVars(Provision)

(***************************************************************************)
(* Properties.                                                             *)
(***************************************************************************)

\* A setting that says a part was set up was stored after it was, whatever failed
\* and wherever the portal stopped: later processes skip that part for good.
MarksTrue ==
  /\ "msp" \in settings => {"template", "baseline"} \subseteq made
  /\ "engine" \in settings => "engine" \in made

\* A run none of whose calls failed leaves every tenant it listed with a repository
\* that has its workflow files, and Gitea with the key that is stored, although tenants
\* are created and deleted and repositories are provisioned next to it, and whatever became
\* of the key before the run read it (platform-bootstrap.ts:945).  A key stored since is not
\* the run's: it may have put the one before in its place (953), and of two rotations the
\* earlier may be the last to reach Gitea (internal-key/route.ts:34-38).
CleanRunServes ==
  promise = "resolved" /\ outcome = "clean" =>
    /\ served \subseteq seeded
    /\ served # {} /\ held = key => secret \in {key} \cup late

\* A tenant whose creation went past the workflow files has them, unless writing
\* them failed: also when the repository came from a template without files, or the
\* run made it in between (platform-bootstrap.ts:1362, "Always ensure workflows exist").
CreatedIsReady ==
  \A t \in tenants \ (deleting \cup missed) : post[t] \in {"trigger", "wait", "done"} => t \in seeded

\* Nobody waits for himself: a run always ends, and so does a creation that waits for
\* one (platform-bootstrap.ts:680).
EverySetupEnds ==
  /\ Running ~> ~Running
  /\ \A t \in Tenants : post[t] = "check" ~> post[t] \in {"idle", "done"}
=============================================================================
