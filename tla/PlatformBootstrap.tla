------------------------- MODULE PlatformBootstrap -------------------------
(***************************************************************************)
(* How a container brings itself up: the portal starts Gitea and creates   *)
(* its administrator and token (first run only), creates the orchestrator  *)
(* repository once, then pushes the image's PowerShell scripts into it;    *)
(* the runner waits for that last step before it takes jobs                *)
(* (lib/server/platform-bootstrap.ts, portal-warmup.sh, runner-start.sh,   *)
(* entrypoint-aio.sh and the setup wizard's API).                          *)
(*                                                                         *)
(* Promises are modelled as the code uses them: a bootstrap or a sync in   *)
(* flight is joined by whoever asks for it; a failed bootstrap is          *)
(* forgotten and refused for a cooldown, a successful one is kept for the  *)
(* life of the process.  Calls to Gitea may fail, MaxFaults times; the     *)
(* portal or the whole container may stop between two steps.  Gitea runs   *)
(* on the database app.ini named when it was started, and what it stores   *)
(* is in that database.  The pipeline templates, whose writes swallow      *)
(* every error and which nothing waits for, are left out.                  *)
(***************************************************************************)
EXTENDS PortalProcess

Databases == {"default", "chosen"}   \* SQLite, and the server named in the wizard
Marks     == {"setup", "initialised", "created"}

VARIABLES
  marks,       \* durable marks: settings setup_complete ("setup") and
               \* platform_bootstrapped ("created"), file .initialized ("initialised")
  choice,      \* the database the settings name for Gitea
  ini,         \* the database app.ini names
  server,      \* the database the running Gitea is on, "off" when it does not run
  token,       \* where the stored portal token is valid, "nowhere" when Gitea has deleted
               \* it, "none" when there is none
  repo,        \* the databases that hold the orchestrator repository
  scripts,     \* its scripts in each database: "none", "old", or "new": those of this image
  boot,        \* where the platform bootstrap in flight stands, "idle" when none is
  ready,       \* _platformReadyPromise: "none", "running" or "resolved", or "cooling":
               \* none, for the 30 s after a failure
  sync,        \* where the scripts sync in flight stands, "idle" when none is
  lastRun,     \* _scriptsSyncLastRun: "never", "recent" or "past"
  runner       \* runner-start.sh: "waiting", "started", or "forced" after its timeout

gitea   == <<ini, server, token, repo, scripts>>
durable == <<marks, choice, ini, server, token, repo, scripts>>
joined  == <<boot, ready>>
vars == <<marks, choice, ini, server, token, repo, scripts, boot, ready, sync, lastRun,
          runner, faults, restarts>>

BootSteps == {"initialise", "configure", "start", "wait", "admin", "mark",
              "poll", "validate", "create", "flag", "seed"}
SyncSteps == {"await", "diff", "push", "seed"}

TypeOK ==
  /\ marks \subseteq Marks /\ choice \in Databases /\ ini \in Databases
  /\ server \in Databases \cup {"off"} /\ token \in Databases \cup {"nowhere", "none"}
  /\ repo \subseteq Databases /\ scripts \in [Databases -> {"none", "old", "new"}]
  /\ boot \in BootSteps \cup {"idle"} /\ sync \in SyncSteps \cup {"idle"}
  /\ ready \in {"none", "running", "resolved", "cooling"}
  /\ lastRun \in {"never", "recent", "past"}
  /\ runner \in {"waiting", "started", "forced"}
  /\ faults \in 0..MaxFaults /\ restarts \in 0..MaxRestarts

Init ==
  /\ marks = {} /\ choice = "default"
  /\ ini = "default" /\ server = "off" /\ token = "none"
  /\ repo = {} /\ scripts = [db \in Databases |-> "none"]
  /\ boot = "idle" /\ ready = "none"
  /\ sync = "idle" /\ lastRun = "never" /\ runner = "waiting"
  /\ faults = 0 /\ restarts = 0

(***************************************************************************)
(* Who asks for what.                                                      *)
(***************************************************************************)

\* bootstrapPlatformIfNeeded: the caller joins the bootstrap in flight or the
\* one that succeeded, is refused during the cooldown, or starts one.
EnsurePlatform ==
  IF ready = "none"
  THEN boot' = "initialise" /\ ready' = "running"
  ELSE UNCHANGED joined

\* syncScriptsToGitea starts a run unless one is in flight or one succeeded
\* within the interval; the run asks for the platform bootstrap first, and ends at
\* once when that is refused.
MaySync == sync = "idle" /\ lastRun # "recent" /\ ready # "cooling"
Synced  == sync = "idle" /\ lastRun # "never"

\* Wizard, step database-save: an external database is chosen for Gitea.
SaveDatabase ==
  /\ "setup" \notin marks /\ choice = "default" /\ choice' = "chosen"
  /\ UNCHANGED <<marks, gitea, joined, sync, lastRun, runner, faults, restarts>>

\* Wizard, step complete: setup ends and the bootstrap is started at once.
CompleteSetup ==
  /\ "setup" \notin marks /\ marks' = marks \cup {"setup"}
  /\ EnsurePlatform
  /\ UNCHANGED <<choice, gitea, sync, lastRun, runner, faults, restarts>>

\* GET /api/health/sync-status: a public path that portal-warmup.sh and
\* runner-start.sh poll from the first seconds of a container.
PollStatus ==
  /\ ~Synced /\ MaySync /\ sync' = "await" /\ EnsurePlatform
  /\ UNCHANGED <<durable, lastRun, runner, faults, restarts>>

\* A page of a signed-in user asks for the bootstrap, then for the sync.
VisitPage ==
  /\ "setup" \in marks
  /\ EnsurePlatform
  /\ sync' = (IF MaySync THEN "await" ELSE sync)
  /\ UNCHANGED <<durable, lastRun, runner, faults, restarts>>

CooldownEnds ==
  /\ ready = "cooling" /\ ready' = "none"
  /\ UNCHANGED <<durable, boot, lastRun, sync, runner, faults, restarts>>

IntervalPasses ==
  /\ lastRun = "recent" /\ lastRun' = "past"
  /\ UNCHANGED <<durable, joined, sync, runner, faults, restarts>>

(***************************************************************************)
(* The platform bootstrap, one action per call to the system or to Gitea.  *)
(***************************************************************************)

BootStepBut(from, to) ==   \* with or without a failed call that does not end the run
  /\ boot = from /\ boot' = to
  /\ UNCHANGED <<choice, ready, sync, lastRun, runner, restarts>>
BootStep(from, to) == BootStepBut(from, to) /\ UNCHANGED faults

\* The command line works on the database of app.ini, which the running server may not be
\* on yet, and has no tables there; requests need a token of the running server.
Regenerates == boot = "admin" \/ (boot = "validate" /\ token # server)
Unfit == (Regenerates /\ ini # server) \/ (boot = "create" /\ token # server)

\* A token is deleted before its successor is generated.
TokenAfterFailure ==
  IF boot \in {"admin", "validate"} /\ token # "none" THEN token' \in {token, "nowhere"} ELSE UNCHANGED token

\* Mutant: the promise of a failed run is kept.
FailBootKept ==
  /\ boot \in {"configure", "start", "wait", "admin", "poll", "validate", "create"}
  /\ Fault \/ (Unfit /\ UNCHANGED faults)
  /\ boot' = "idle" /\ TokenAfterFailure
  /\ sync' = (IF sync = "await" THEN "idle" ELSE sync)
  /\ UNCHANGED <<marks, choice, ini, server, repo, scripts, ready, lastRun, runner, restarts>>

\* A step that throws ends the run and the sync that waits for it; what the steps
\* before it did stands.  The promise is dropped, callers are refused for 30 s.
FailBoot ==
  /\ boot \in {"configure", "start", "wait", "admin", "poll", "validate", "create"}
  /\ Fault \/ (Unfit /\ UNCHANGED faults)
  /\ boot' = "idle" /\ ready' = "cooling" /\ TokenAfterFailure
  /\ sync' = (IF sync = "await" THEN "idle" ELSE sync)
  /\ UNCHANGED <<marks, choice, ini, server, repo, scripts, lastRun, runner, restarts>>

\* _initializeGitea branches on the sentinel file.
Initialise ==
  /\ BootStep("initialise", IF "initialised" \in marks THEN "poll" ELSE "configure")
  /\ UNCHANGED <<marks, gitea>>

\* First run: app.ini is patched with the settings' database.
Configure ==
  /\ BootStep("configure", "start") /\ ini' = choice
  /\ UNCHANGED <<marks, server, token, repo, scripts>>

\* supervisorctl start gitea: a server that runs already stays as it is.
StartGitea ==
  /\ BootStep("start", "wait")
  /\ server' = (IF server = "off" THEN ini ELSE server)
  /\ UNCHANGED <<marks, ini, token, repo, scripts>>

\* Mutant: the sentinel is written as soon as Gitea answers.
AnsweredMarks ==
  /\ server # "off"
  /\ BootStep("wait", "admin") \/ BootStep("poll", "validate")
  /\ marks' = marks \cup {"initialised"}
  /\ UNCHANGED gitea

\* The first run waits for the server, later runs poll the managed one.
Answered ==
  /\ server # "off"
  /\ BootStep("wait", "admin") \/ BootStep("poll", "validate")
  /\ UNCHANGED <<marks, gitea>>

\* _regenerateGiteaAdminAndToken: on the first run, and later when the stored
\* token is not valid, for which an error counts.
CreateAdmin ==
  /\ \/ BootStep("admin", "mark") \/ (token # server /\ BootStep("validate", "create"))
     \/ token = server /\ BootStepBut("validate", "create") /\ Fault
  /\ token' = ini
  /\ UNCHANGED <<marks, ini, server, repo, scripts>>

TokenValid ==
  /\ token = server /\ BootStep("validate", "create")
  /\ UNCHANGED <<marks, gitea>>

\* The sentinel is written last: until then every start is a first run.  It is not
\* noticed when that fails.
MarkInitialised ==
  /\ BootStepBut("mark", "create")
  /\ \/ marks' = marks \cup {"initialised"} /\ UNCHANGED faults
     \/ UNCHANGED marks /\ Fault
  /\ UNCHANGED gitea

\* _bootstrapPlatform creates the orchestrator repository unless a setting says
\* that an earlier start did; the setting is stored by a later step.
CreateRepo ==
  /\ \/ "created" \in marks /\ BootStep("create", "seed") /\ UNCHANGED repo
     \/ /\ "created" \notin marks /\ token = server
        /\ BootStep("create", "flag") /\ repo' = repo \cup {server}
  /\ UNCHANGED <<marks, ini, server, token, scripts>>

SetFlag ==
  /\ BootStep("flag", "seed") /\ marks' = marks \cup {"created"}
  /\ UNCHANGED gitea

\* After the template writes the run returns and its promise is kept.
Bootstrapped ==
  /\ boot = "seed" /\ boot' = "idle" /\ ready' = "resolved"
  /\ UNCHANGED <<durable, sync, lastRun, runner, faults, restarts>>

(***************************************************************************)
(* The scripts sync.                                                       *)
(***************************************************************************)

SyncStep(from, to) ==
  /\ sync = from /\ sync' = to
  /\ UNCHANGED <<marks, choice, ini, server, token, repo, joined, runner, restarts>>

\* Mutant: a bootstrap in flight is not waited for.
PlatformBusy ==
  /\ ready # "none" /\ SyncStep("await", "diff")
  /\ UNCHANGED <<scripts, lastRun, faults>>

\* The wait for the platform bootstrap ends when that is done.
PlatformReady ==
  /\ ready = "resolved" /\ SyncStep("await", "diff")
  /\ UNCHANGED <<scripts, lastRun, faults>>

\* Is the remote tree that of the image's files?
Current   == server \in repo /\ scripts[server] = "new"
Reachable == server \in repo /\ token = server

\* The files are compared with the tree; one that cannot be read counts as empty.
NothingToPush ==
  /\ Current /\ Reachable /\ SyncStep("diff", "idle") /\ lastRun' = "recent"
  /\ UNCHANGED <<scripts, faults>>

SomethingToPush ==
  /\ SyncStep("diff", "push")
  /\ (~(Current /\ Reachable) /\ UNCHANGED faults) \/ Fault
  /\ UNCHANGED <<scripts, lastRun>>

\* One commit for all files, file by file when that fails.
Push ==
  /\ Reachable /\ SyncStep("push", "seed")
  /\ scripts' = [scripts EXCEPT ![server] = "new"] /\ lastRun' = "recent"
  /\ UNCHANGED faults

\* Mutant: the throttle is advanced whatever failed.
PushThrottled ==
  /\ SyncStep("push", "seed")
  /\ (~Reachable /\ UNCHANGED faults) \/ Fault
  /\ lastRun' = "recent"
  /\ UNCHANGED scripts

\* A sync with a file that failed does not advance the throttle.
PushSomeFail ==
  /\ SyncStep("push", "seed")
  /\ (~Reachable /\ UNCHANGED faults) \/ Fault
  /\ UNCHANGED <<scripts, lastRun>>

SyncEnds ==
  /\ SyncStep("seed", "idle")
  /\ UNCHANGED <<scripts, lastRun, faults>>

(***************************************************************************)
(* The runner, and stops.                                                  *)
(***************************************************************************)

\* runner-start.sh waits for Gitea, then for a sync that succeeded.
RunnerStarts ==
  /\ runner = "waiting" /\ server # "off" /\ Synced /\ runner' = "started"
  /\ UNCHANGED <<durable, joined, sync, lastRun, faults, restarts>>

\* 150 polls without such an answer: the script warns and goes on.
RunnerGivesUp ==
  /\ runner = "waiting" /\ server # "off" /\ ~Synced /\ runner' = "forced"
  /\ UNCHANGED <<durable, joined, sync, lastRun, faults, restarts>>

Stop ==   \* what is in the portal's memory is lost
  /\ restarts < MaxRestarts /\ restarts' = restarts + 1
  /\ boot' = "idle" /\ ready' = "none"
  /\ sync' = "idle" /\ lastRun' = "never"
  /\ UNCHANGED faults

\* The portal dies and supervisord starts it again.
PortalRestarts == Stop /\ UNCHANGED <<durable, runner>>

\* The container starts again, from the same image or from one whose scripts
\* differ.  entrypoint-aio.sh writes an external database of the settings into
\* app.ini and starts Gitea only when it is initialised.
ContainerRestarts ==
  /\ Stop
  /\ runner' = "waiting"
  /\ ini' = (IF choice = "chosen" THEN "chosen" ELSE ini)
  /\ server' = (IF "initialised" \in marks THEN ini' ELSE "off")
  /\ \/ UNCHANGED scripts
     \/ scripts' = [db \in Databases |-> IF db \in repo /\ scripts[db] = "new"
                                         THEN "old" ELSE scripts[db]]
  /\ UNCHANGED <<marks, choice, token, repo>>

BootNext ==
  \/ Initialise \/ Configure \/ StartGitea \/ Answered \/ CreateAdmin \/ TokenValid
  \/ MarkInitialised \/ CreateRepo \/ SetFlag \/ Bootstrapped

SyncNext ==
  \/ PlatformReady \/ NothingToPush \/ SomethingToPush
  \/ Push \/ PushSomeFail \/ SyncEnds

Next ==
  \/ SaveDatabase \/ CompleteSetup \/ PollStatus \/ VisitPage
  \/ CooldownEnds \/ IntervalPasses
  \/ BootNext \/ FailBoot \/ SyncNext
  \/ RunnerStarts \/ RunnerGivesUp \/ PortalRestarts \/ ContainerRestarts

\* Steps of a run in flight are taken by the event loop; the cooldown and the
\* polls of the start scripts come round.
Spec ==
  /\ Init /\ [][Next]_vars
  /\ WF_vars(BootNext) /\ WF_vars(SyncNext)
  /\ WF_vars(CooldownEnds) /\ WF_vars(PollStatus)

(***************************************************************************)
(* Properties.                                                             *)
(***************************************************************************)

\* The server runs on another database than the one that was in use when the repository was
\* created, and the setting that says so keeps it from being created anew.
SwitchedSince ==
  "created" \in marks /\ server = "chosen" /\ "default" \in repo

\* No sync reads or writes the orchestrator repository of the running server before the
\* bootstrap has created it: the reason the comment at platform-bootstrap.ts:143 gives for
\* sharing the promise.  A database chosen after a first bootstrap has none (387).
NoSyncBeforeRepo == sync \in {"diff", "push", "seed"} => server \in repo \/ SwitchedSince

\* A runner that did not give up waiting finds the scripts of this image in the
\* repository (runner-start.sh:10), whatever failed and whoever restarted.
RunnerHasScripts == runner = "started" => Current

\* Once the sentinel is there, a token was stored: a stop anywhere in the first
\* run makes the next start a first run again.
InitialisedHasToken == "initialised" \in marks => token # "none"

\* As long as somebody asks and the database is not switched, the platform comes
\* up from any point a failure or a restart leaves it at: the scripts of the image
\* are in the repository in the end, and stay.
PlatformComesUp == [](choice = "default") => <>[]Current
=============================================================================
