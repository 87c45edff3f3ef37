---------------------------- MODULE UpdateWizard ----------------------------
(***************************************************************************)
(* The software update wizard of the portal: app/api/admin/platform/update *)
(* with lib/server/app-updater.ts, update-session.ts and scripts-update.ts.*)
(* One session file says where the update is.  A continue request downloads*)
(* and extracts the release, verifies it, migrates the database, swaps the *)
(* current link and asks supervisor for a restart; a resume request of the *)
(* restarted portal proposes the scripts as a pull request.  Every log line*)
(* of a request writes its in-memory session over the file.  Beside it the *)
(* portal syncs its scripts to the orchestrator (platform-bootstrap.ts).   *)
(*                                                                         *)
(* Versions are ordered by their number, 0 is the portal baked into the    *)
(* image, and version v needs schema v, the most demanding release train.  *)
(* A step is what happens between two awaits of a request.                 *)
(***************************************************************************)
EXTENDS Naturals

CONSTANTS
  Last,          \* versions 1 .. Last get published
  MaxSessions,   \* bound: sessions started
  MaxFaults,     \* bound: calls that fail
  MaxCrashes     \* bound: portal crashes and container restarts

ASSUME ConstantsAssumption ==
  /\ Last \in Nat /\ MaxSessions \in Nat
  /\ MaxFaults \in Nat /\ MaxCrashes \in Nat

VARIABLES
  file,      \* the session file: the session's id and step; id 0: no session
  target,    \* target[i]: version session i updates to
  at,        \* at[i]: where the request working on session i is
  latest,    \* newest published version
  release,   \* release[v]: the extracted release under /data/app/releases
  schema,    \* schema version of the database
  current,   \* version /data/app/current links to; 0: no link
  installed, \* version in installed-version.json
  appLayer,  \* does supervisor start the portal of /data/app/current?
  running,   \* version of the running portal
  restart,   \* has supervisor been asked to restart the portal?
  scripts,   \* version of the scripts on the orchestrator's main branch
  branches,  \* versions v whose branch updates/scripts-v<v> was made
  read,      \* read[i]: staged scripts that session i's pull request proposes
  base,      \* base[i]: scripts on main when session i's branch was made
  syncing,   \* staged scripts the portal's sync has read and not yet pushed
  swapped,   \* history: has the link moved since the portal started?
  overlap,   \* history: was a session started while a request was under way?
  sessions,  \* sessions started so far
  faults,    \* failed calls so far
  crashes    \* crashes so far

disk   == <<release, schema, current, installed>>
portal == <<appLayer, running, restart, swapped, syncing>>
git    == <<scripts, branches, read, base>>
bounds == <<overlap, sessions, faults, crashes>>
vars == <<file, target, at, latest, disk, portal, git, bounds>>

Versions == 1 .. Last
Ids      == 1 .. MaxSessions
Steps    == {"none", "step1", "step2a", "step2b", "restarting", "step3", "step4", "failed"}
Places   == {"none", "download", "extract", "migrate", "link", "linked",
             "diff", "branch", "push"}

TypeOK ==
  /\ file \in [id : 0 .. MaxSessions, step : Steps]
  /\ target \in [Ids -> 0 .. Last]
  /\ at \in [Ids -> Places]
  /\ latest \in 0 .. Last
  /\ release \in [Versions -> {"none", "damaged", "whole"}]
  /\ schema \in 0 .. Last
  /\ current \in 0 .. Last
  /\ installed \in 0 .. Last
  /\ appLayer \in BOOLEAN
  /\ running \in 0 .. Last
  /\ restart \in BOOLEAN
  /\ scripts \in 0 .. Last
  /\ branches \subseteq 0 .. Last
  /\ read \in [Ids -> 0 .. Last]
  /\ base \in [Ids -> 0 .. Last]
  /\ syncing \subseteq 0 .. Last
  /\ swapped \in BOOLEAN
  /\ overlap \in BOOLEAN
  /\ sessions \in 0 .. MaxSessions
  /\ faults \in 0 .. MaxFaults
  /\ crashes \in 0 .. MaxCrashes

NoSession == [id |-> 0, step |-> "none"]

\* A container on a new volume.
Init ==
  /\ file = NoSession
  /\ target = [i \in Ids |-> 0]
  /\ at = [i \in Ids |-> "none"]
  /\ latest = 0
  /\ release = [v \in Versions |-> "none"]
  /\ schema = 0 /\ current = 0 /\ installed = 0
  /\ appLayer = FALSE /\ running = 0 /\ restart = FALSE
  /\ scripts = 0 /\ branches = {}
  /\ read = [i \in Ids |-> 0]
  /\ base = [i \in Ids |-> 0]
  /\ syncing = {} /\ swapped = FALSE /\ overlap = FALSE
  /\ sessions = 0 /\ faults = 0 /\ crashes = 0

Write(i, step) == file' = [id |-> i, step |-> step]
Move(i, place) == at' = [at EXCEPT ![i] = place]
UnderWay       == \E i \in Ids : at[i] # "none"

\* Migrations are applied one by one: where those under way may stop.
SchemaMayBe ==
  {schema} \cup UNION {schema .. target[i] : i \in {j \in Ids : at[j] = "migrate"}}

\* Is another request extracting the release i is working on?
SharedExtraction(i) ==
  \E j \in Ids \ {i} : at[j] = "extract" /\ target[j] = target[i]

-----------------------------------------------------------------------------
(* Sessions. *)

Publish ==
  /\ latest < Last
  /\ latest' = latest + 1
  /\ UNCHANGED <<file, target, at, disk, portal, git, bounds>>

\* action start: only when there is a release newer than the installed one; the
\* body may name another version.  A session that is there is overwritten.
Start ==
  /\ sessions < MaxSessions
  /\ latest > installed
  /\ sessions' = sessions + 1
  /\ \E v \in 1 .. latest : target' = [target EXCEPT ![sessions'] = v]
  /\ Write(sessions', "step1")
  /\ overlap' = (overlap \/ UnderWay)
  /\ UNCHANGED <<at, latest, disk, portal, git, faults, crashes>>

\* action cancel: clears the file, whatever is under way.
Cancel ==
  /\ file # NoSession
  /\ file' = NoSession
  /\ UNCHANGED <<target, at, latest, disk, portal, git, bounds>>

\* The catch clause of a request.
Failed(i) == Write(i, "failed") /\ Move(i, "none")

\* Manifest and checksums, then on to the migration.
Verify(i, state) ==
  IF state = "whole" THEN Write(i, "step2a") /\ Move(i, "migrate") ELSE Failed(i)

\* Mutant: a release that is there is taken as it is.
ContinueUnverified(i) ==
  /\ file.id = i
  /\ file.step \in {"step1", "failed"}
  /\ Write(i, "step2a")
  /\ IF release[target[i]] = "none" THEN Move(i, "download") ELSE Move(i, "migrate")
  /\ UNCHANGED <<target, latest, disk, portal, git, bounds>>

\* action continue: claims the session; a release with a manifest is not
\* downloaded again.
Continue(i) ==
  /\ file.id = i
  /\ file.step \in {"step1", "failed"}
  /\ IF release[target[i]] = "none"
       THEN Write(i, "step2a") /\ Move(i, "download")
       ELSE Verify(i, release[target[i]])
  /\ UNCHANGED <<target, latest, disk, portal, git, bounds>>

-----------------------------------------------------------------------------
(* Step 2: executeWizardStep2. *)

\* The tarball is on disk, tar starts to write the release directory: with a
\* manifest, sooner or later, a continue request takes it for extracted.
Extract(i) ==
  /\ at[i] = "download"
  /\ \E state \in {"none", "damaged"} :
       /\ release[target[i]] # "none" => state = "damaged"
       /\ release' = [release EXCEPT ![target[i]] = state]
  /\ Write(i, "step2a") /\ Move(i, "extract")
  /\ UNCHANGED <<target, latest, schema, current, installed, portal, git, bounds>>

Extracted(i) ==
  /\ at[i] = "extract"
  /\ \E state \in IF SharedExtraction(i) THEN {"damaged", "whole"} ELSE {"whole"} :
       /\ release' = [release EXCEPT ![target[i]] = state]
       /\ Verify(i, state)
  /\ UNCHANGED <<target, latest, schema, current, installed, portal, git, bounds>>

\* Mutant: the migrations are left to the swapped portal.
MigrateLater(i) ==
  /\ at[i] = "migrate"
  /\ Write(i, "step2b") /\ Move(i, "link")
  /\ UNCHANGED <<target, latest, disk, portal, git, bounds>>

\* run-migrations.mjs applies what is missing.
Migrate(i) ==
  /\ at[i] = "migrate"
  /\ schema' = IF schema < target[i] THEN target[i] ELSE schema
  /\ Write(i, "step2b") /\ Move(i, "link")
  /\ UNCHANGED <<target, latest, release, current, installed, portal, git, bounds>>

\* ln -sfn in a child process.
Link(i) ==
  /\ at[i] = "link"
  /\ current' = target[i]
  /\ swapped' = TRUE
  /\ Write(i, "step2b") /\ Move(i, "linked")
  /\ UNCHANGED <<target, latest, release, schema, installed, appLayer, running, restart,
                 syncing, git, bounds>>

\* Mutant: the version is recorded without the link.
RecordUnlinked(i) ==
  /\ at[i] \in {"link", "linked"}
  /\ installed' = target[i]
  /\ Write(i, "restarting") /\ Move(i, "none")
  /\ restart' = TRUE
  /\ UNCHANGED <<target, latest, release, schema, current, appLayer, running, swapped, syncing,
                 git, bounds>>

\* installed-version.json, then supervisorctl restart, detached.
Record(i) ==
  /\ at[i] = "linked"
  /\ installed' = target[i]
  /\ Write(i, "restarting") /\ Move(i, "none")
  /\ restart' = TRUE
  /\ UNCHANGED <<target, latest, release, schema, current, appLayer, running, swapped, syncing,
                 git, bounds>>

-----------------------------------------------------------------------------
(* Step 3: proposeScriptsUpdatePR, and the scripts sync beside it. *)

\* action resume: claims the session.
Resume(i) ==
  /\ file = [id |-> i, step |-> "restarting"]
  /\ Write(i, "step3") /\ Move(i, "diff")
  /\ UNCHANGED <<target, latest, disk, portal, git, bounds>>

\* The staging directories were chosen when the container started.
Staged == IF appLayer THEN current ELSE 0

\* syncScriptsToGitea, which page loads and the warm-up start: one at a time.
SyncScripts ==
  /\ syncing = {}
  /\ scripts # Staged
  /\ syncing' = {Staged}
  /\ UNCHANGED <<file, target, at, latest, disk, appLayer, running, restart, swapped, git, bounds>>

\* What was read goes straight to main, or fails.
PushScripts ==
  /\ syncing # {}
  /\ scripts' \in syncing \cup {scripts}
  /\ syncing' = {}
  /\ UNCHANGED <<file, target, at, latest, disk, appLayer, running, restart, swapped,
                 branches, read, base, bounds>>

\* No difference: the update is complete and the session is cleared.
NoScripts(i) ==
  /\ at[i] = "diff"
  /\ Staged = scripts
  /\ file' = NoSession /\ Move(i, "none")
  /\ UNCHANGED <<target, latest, disk, portal, git, bounds>>

\* The staged files that differ from main are what will be proposed.
ReadScripts(i) ==
  /\ at[i] = "diff"
  /\ Staged # scripts
  /\ read' = [read EXCEPT ![i] = Staged]
  /\ Move(i, "branch")
  /\ UNCHANGED <<file, target, latest, disk, portal, scripts, branches, base, bounds>>

\* Gitea refuses a branch that is there already.
CreateBranch(i) ==
  /\ at[i] = "branch"
  /\ IF target[i] \in branches
       THEN Failed(i) /\ UNCHANGED <<branches, base>>
       ELSE /\ branches' = branches \cup {target[i]}
            /\ base' = [base EXCEPT ![i] = scripts]
            /\ Move(i, "push") /\ UNCHANGED file
  /\ UNCHANGED <<target, latest, disk, portal, scripts, read, bounds>>

\* Files and pull request; step4 waits for the approval.
CreatePullRequest(i) ==
  /\ at[i] = "push"
  /\ Write(i, "step4") /\ Move(i, "none")
  /\ UNCHANGED <<target, latest, disk, portal, git, bounds>>

\* Mutant: the caller names the pull request, whatever the session.
ApproveNamed(i) ==
  /\ read[i] # base[i]
  /\ scripts = base[i]
  /\ scripts' = read[i]
  /\ file' = NoSession
  /\ UNCHANGED <<target, at, latest, disk, portal, branches, read, base, bounds>>

\* POST .../update/approve merges the session's pull request and clears the
\* session; Gitea merges when main still is the branch's base or has its
\* content, every two versions being taken to differ in the same files.
Approve(i) ==
  /\ file = [id |-> i, step |-> "step4"]
  /\ scripts \in {base[i], read[i]}
  /\ scripts' = read[i]
  /\ file' = NoSession
  /\ UNCHANGED <<target, at, latest, disk, portal, branches, read, base, bounds>>

-----------------------------------------------------------------------------
(* Failures. *)

\* A call of the request fails: download, tar, node, ln, a file or Gitea.
Fault(i) ==
  /\ faults < MaxFaults
  /\ at[i] # "none"
  /\ faults' = faults + 1
  /\ Failed(i)
  /\ schema' \in SchemaMayBe
  /\ UNCHANGED <<target, latest, release, current, installed, portal, git, overlap, sessions, crashes>>

\* Requests and a sync under way die with the portal process.
PortalStarts == /\ at' = [i \in Ids |-> "none"]
                /\ syncing' = {} /\ swapped' = FALSE

\* supervisorctl restart, which Record asked for.
RestartPortal ==
  /\ restart
  /\ restart' = FALSE
  /\ PortalStarts
  /\ running' = Staged
  /\ schema' \in SchemaMayBe
  /\ UNCHANGED <<file, target, latest, release, current, installed, appLayer, git, bounds>>

Crash ==
  /\ crashes < MaxCrashes
  /\ crashes' = crashes + 1
  /\ PortalStarts
  /\ running' = Staged
  /\ schema' \in SchemaMayBe
  /\ UNCHANGED <<file, target, latest, release, current, installed, appLayer, restart, git, overlap, sessions, faults>>

\* entrypoint-aio.sh points supervisor at the app layer if there is one.
RestartContainer ==
  /\ crashes < MaxCrashes
  /\ crashes' = crashes + 1
  /\ restart' = FALSE
  /\ PortalStarts
  /\ appLayer' = (current # 0)
  /\ running' = current
  /\ schema' \in SchemaMayBe
  /\ UNCHANGED <<file, target, latest, release, current, installed, git, overlap, sessions, faults>>

RequestStep(i) ==
  \/ Extract(i) \/ Extracted(i) \/ Migrate(i) \/ Link(i) \/ Record(i)
  \/ NoScripts(i) \/ ReadScripts(i) \/ CreateBranch(i) \/ CreatePullRequest(i)

Next ==
  \/ Publish \/ Start \/ Cancel \/ SyncScripts \/ PushScripts \/ RestartPortal \/ Crash \/ RestartContainer
  \/ \E i \in Ids : \/ Continue(i) \/ Resume(i) \/ Approve(i)
                    \/ RequestStep(i) \/ Fault(i)

Spec == Init /\ [][Next]_vars

-----------------------------------------------------------------------------
(* Properties. *)

\* Neither the linked portal nor the one that runs is ahead of the database,
\* whichever requests failed, died or were retried and whenever it restarted.
SchemaBeforeCode == current <= schema /\ running <= schema

\* Unless sessions overlapped, the link is only moved to a release that is
\* extracted and verified, by continue requests and their retries after
\* failures, crashes and cancels that were overwritten.
LinkedWhole ==
  [][current' # current => overlap \/ release[current'] = "whole"]_vars

\* When the wizard says that the swap is done, the link and the record both
\* name the session's release, newer or older than the one before.
SwapRecorded ==
  file.step \in {"restarting", "step3", "step4"} =>
    overlap \/ (current = target[file.id] /\ installed = target[file.id])

\* Whoever writes the orchestrator's scripts, an approval of a pull request made
\* before other syncs, restarts and sessions, or a sync: they are those of the
\* release that is linked then.  Only a sync may be late, by a portal whose link
\* has moved and that has not been restarted yet.
ScriptsFollowLink ==
  [][scripts' # scripts /\ (file' # file \/ ~swapped) => overlap \/ scripts' = current]_vars
=============================================================================
