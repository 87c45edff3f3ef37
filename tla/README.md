# Config365: verification project

TLA+ models of [Config365](../src/README.md), a self-hosted service that plans,
approves and applies Microsoft 365 configuration for many tenants: a Next.js
portal, a Gitea server whose Actions run the pipelines, runner shards on the same
host, PowerShell scripts that call Microsoft Graph, and a small token service.

## 1. Inventory

| Component | State it keeps | Operations | Talks to |
|---|---|---|---|
| Deploy pipeline: approval gate (`pipeline-templates/deploy-pipeline.yml`, `app/api/pipelines/*`) | runs and their jobs, one approval issue per run with its comments, recorded rejections | dispatch, plan, open issue, resume check, poll, expire, verify, apply; approve, reject, cancel, status | Gitea issues and runs, portal |
| Deploy pipeline: pending group actions (`deploy-pipeline.yml`, `Invoke-AddUsersToGroup.ps1`, `UserComplianceClient.tsx`) | pending files in the tenant repository, clones, result file in `/tmp` | queue, plan, apply, subtract, push | Graph, Gitea contents API |
| App update wizard (`lib/server/app-updater.ts`, `update-session.ts`, `scripts-update.ts`, `app/api/admin/platform/update/*`) | session file, release directories, current link, scripts pull request | start, continue, resume, cancel, approve; download, migrate, swap, restart | GitHub, Gitea, process supervisor |
| Import jobs (`lib/server/import-job-store.ts`, `import-commit.ts`, `app/api/git/import-jobs/*`) | job directory with metadata and staged files | create, stage batch, commit, poll, cancel, expire | Gitea batch commits |
| Tenant tokens (`lib/tenant-auth.ts`, `token-store.ts`, `token-backend*.ts`, `token-crypto.ts`, `token-api-server.ts`) | token rows, pending device codes, encryption key | device start and poll, refresh, exchange, disconnect | Entra ID, SQLite, MSSQL, Key Vault |
| Apply scope (`deploy-pipeline.yml`, `WhatIfModal.tsx`, `Common-IgnoreHelpers.ps1`) | published plan, list of planned files, skip file of a run, ignore file | publish, mark, save, flush, select, clean up | Gitea contents API, gate |
| Apps and printers pages (`AppsClient.tsx`, `PrintersClient.tsx`, `Common-Apps.ps1`) | the folder of a package, its groups, its removal manifest | deploy, save, remove; discover | Gitea contents API, pending actions |
| Baseline page and viewer (`BaselineClient.tsx`, `ViewerClient.tsx`, `app/api/git/file`) | the file on show with its sha and its sidecar's, policies and sidecars in the baseline repository, the removal tree | open, save, remove from Git, stage for removal, keep a sidecar, copy from a tenant | Gitea contents API, apply scope |
| Blob backup (`backup-gitea-blob.sh`, `backup-cron-wrapper.sh`, `lib/server/backup-scheduler.ts`) | lock file, status, archives | cron tick, run now, upload, prune | Azure Blob |
| Platform bootstrap and scripts sync (`lib/server/platform-bootstrap.ts`, `app/api/setup/route.ts`, `app/api/health/sync-status/route.ts`, `portal-warmup.sh`, `runner-start.sh`) | readiness promise, cool-down, sync promise, start-up marks, Gitea's database | ensure platform, sync scripts, start the runner | Gitea, settings |
| MSP and tenant bootstrap (`lib/server/platform-bootstrap.ts`, `app/api/tenants/route.ts`, `app/api/msps/[slug]/internal-key/route.ts`) | promise and marks per MSP, shared repositories, key and its secret, tenant repositories | bootstrap MSP, create, provision, delete a tenant, sync workflow files, rotate the key | Gitea, settings |
| Settings, setup, session, authorisation (`lib/server/settings-store.ts`, `tenant-store.ts`, `session.ts`, `authz.ts`, ...) | settings tables, sessions | get, set, guard | database |
| Pure algorithms (`lib/*.ts`) | none | version comparison, AppLocker overlays, normalisation, thresholds | - |
| Runner scripts (`runner/scripts/**`) | tenant configuration behind Graph | configure, back up, remove, split groups | Graph |
| Container (`entrypoint-aio.sh`, `supervisord.conf`, `runner-start.sh`, ...) | volumes, processes | boot, shard set-up | all |

### What is hard about it

* Several actors work on one Gitea repository (portal handlers, a deploy run, a
  backup run, operators in Gitea itself) with reads and writes in different steps.
* Handlers of the portal are `async`: every `await` lets another request in, and
  several calls are fired and forgotten.
* Runner shards share one host: `/tmp` is visible to every run.
* Jobs die, containers restart, approvals arrive late, twice or against each other.

### What makes each component correct

* **Gate**: nothing is applied without an approval of that very run; a denial that
  came first binds; opening an issue closes the ones before it; a run that waits can be
  decided in the portal; a run that nobody answers ends.
* **Queued group changes and removals**: a request stays queued until it is carried
  out and leaves the queue then; what arrives during a run survives that run; a
  run acts on what its plan showed.
* **Update wizard**: the linked code never runs ahead of the database schema, only
  verified releases are linked, what is reported as swapped is linked and recorded, the
  scripts follow the linked portal, a retry repairs what a failure left.
* **Import jobs**: "imported" means every file is in the repository; progress is
  never more than what was written; nothing is written before the upload is
  complete; a removed job stays removed; polling ends.
* **Tenant tokens**: the tokens of a row come from one sign-in; a newer sign-in is
  not replaced by an older token; a disconnected tenant stays disconnected; a code
  that was redeemed leaves its tokens behind.
* **Apply scope**: an apply job processes what its plan listed, nothing more; the plan
  on show is that of the run that waits; a mark that was written is honoured.
* **Package edits**: what a page reports as saved or removed is so; a package that is
  gone is queued for removal; groups exist before they are assigned; a run finds the
  files of one layout.
* **Baseline edits**: a policy is in the baseline or staged for removal until somebody
  gives it up; what is reported as removed is gone with its sidecar; nobody's edit is
  replaced or removed by a page that has not shown it.
* **Platform**: concurrent callers share one attempt; a failed one is retried; the
  scripts sync finds its repository, the runner finds the scripts, and in the end
  everything is up, whatever failed or restarted on the way.
* **MSP and tenants**: a mark in the settings is true; a run without failures leaves
  every tenant it listed with a repository, workflow files and secret; a tenant whose
  creation was answered has its repository; nobody waits for himself.
* **Blob backup**: one backup at a time; its status is that of the last run.
* **Pure algorithms**: each agrees with its unit tests.

## 2. Plan

| # | Module | Composes, abstracts | Status |
|---|---|---|---|
| 1 | `Deployment` | abstract specification of the gate | done |
| 2 | `DeployGate` | implements `Deployment` | done |
| 3 | `PendingActions` | assumes the serialised runs that `DeployGate` establishes | done |
| 4 | `UpdateWizard` | the wizard, the scripts sync and the boot together | done |
| 5 | `ImportJob` | browser, portal and repository together | done |
| 6 | `TenantTokens` | token service, page and Entra ID over one row; the backends' reads and writes in one module, SQLite and MSSQL being the behaviours in which nothing comes between them | done |
| 7 | `ApplyScope` | details the plan and apply of the runs that `DeployGate` lets through one at a time | done |
| 8 | `PackageEdits` | the pages that feed the runs and `PendingActions`' removal queue | done |
| 9 | `PlatformBootstrap` | portal, Gitea, start scripts and runner of one container | done |
| 10 | `MspBootstrap` | relies on the platform that `PlatformBootstrap` brings up | done |
| 11 | `BaselineEdits` | the pages that edit what `ApplyScope` plans and applies | done |
| - | `BlobBackup`, operators for the pure algorithms | | not written, see section 7 |

How they lean on each other: `PlatformBootstrap` ends where `MspBootstrap` begins (a
Gitea that answers), which makes the repositories that all others work on.
`PendingActions` and `ApplyScope` take from `DeployGate` that one run of a tenant is
active at a time (`OneActiveRun`, proved there) and add what its jobs read and write;
`PackageEdits` produces the removal manifests `PendingActions` queues, `BaselineEdits` the
changes of the baseline that `ApplyScope` lists; `UpdateWizard`
and `PlatformBootstrap` both have the boot and the scripts sync, the one with the
versions, the other with the failures of a first start. Each is checked by itself: the
product of two would show nothing that the shared guarantee does not.

Modules are written to be proved about: constants with named, weak assumptions, one
action per operation, invariants of named conjuncts, recursion only as functions.

## 3. The modules

Every module's header says what its step is. In the portal that is what happens
between two `await`s, in the pipelines a workflow step, on Gitea's side one call.

### DeployGate and Deployment

`DeployGate` is the life of the deploy runs of one tenant repository. `pc[r]` is the step a run
is at (`plan`, the gate's `issue`, `resume`, `poll`, `expired`, the apply job's `verify`,
`apply`); what a run ended as is not kept, no property asks. `issue` and `comments` are the
run's approval issue; a run opens at most one, so the issue is named by its run. `calls` are the
calls the reject handler has made and does not wait for, `rejected` the runs in the portal's
settings. Actions correspond one to one to steps of `deploy-pipeline.yml` (`Plan`,
`CreateIssue`, `ResumeCheck`, `PollTick`, `Expire`, `ExpireCancel`, `VerifyApproval`, `Apply`),
to the concurrency group (`Start`), to the portal's handlers (`Approve`, `Reject*`,
`CancelPipeline`, `CloseStaleIssue`) and to what may go wrong (`JobFails`, `RestartStep`; failed
reads and dropped errors are alternatives inside the actions). A listing of stale issues that is
lost, in whole or from some page on, leaves what it missed open (`CreateIssue`; `blind` is
history). A step that restarts begins again wherever it was, in the expiry branch too, with its
issue then closed as `expired`. Comments that are no decision are left out.

`Deployment` is the promise without issues, comments or time: plan, ask, be approved,
apply, one run at a time. `Deploy == INSTANCE Deployment WITH ...` is the mapping.

### PendingActions

The queues in the tenant repository (`queue`, `removals`), the deploy run that carries
them out (`stage`, `plan`, `clone`, `subtract`) and the result file in `/tmp` that all
tenants' runs on the host share (`resultFile`). The portal adds to the queues at any time;
a run plans on one clone, applies on another, and its cleanup subtracts what the result
file says from what the queue is by then. `asked` and `askedApps` are history: what
was asked for and not carried out. Adding and removing group members is carried out
alike and is not told apart; the order of a file's entries is left out.

### UpdateWizard

The session file, the requests working on sessions (`target`, `at`), the disk
(`release`, `schema`, `current`, `installed`), the process (`appLayer`, `running`,
`restart`) and the orchestrator repository (`scripts`, `branches`, `read`, `base`). A session
may aim at any published version (the API takes `targetVersion`, although the page never
sends it) and may be started, or cancelled, under a request. What step 3 proposes is what the
portal has staged when it compares, whatever the session aims at. A request that is
under way keeps writing its in-memory session over the file, which is why `Write` is
part of nearly every action. Versions are their numbers and version `v` needs schema
`v`; every two versions are taken to differ in the same script files. `SyncScripts` and
`PushScripts` are the portal's own script sync, which reads the files of one version and
pushes them later; `RestartContainer` is the choice `entrypoint-aio.sh` makes at boot.
`swapped` and `overlap` are history. Left out: `scripts/app-update.sh` run by hand, the
`CONFIG365_SKIP_*` switches, the platform-version block of the start handler.

### ImportJob

Browser (`client`, `todo`), job directory (`phase`, `old`, `uploaded`, `committed`,
`staged`), the commit in the background (`worker`, `files`, `left`, `seen`) and the
repository (`repo`, with `wrote` as history). Batches and chunks are any subset of the
right size; a failed chunk falls back to writing file by file, with the look-up and
the write as two steps. Paths carry how often a prefix was put before them, the only
normalisation the model keeps. Left out: the `import-zip` route, which commits in one
request, and the text of errors.

### TenantTokens

One tenant's row (`row`), the requests under way on it (`req[r]`: its kind, the await it
is at, what it has read), the page that starts and polls a device code (`page`) and Entra
ID (`code`, `signIn`, `due`). A step of a request is what happens between two awaits:
the read of the row, the call to Entra ID, the merge, the write. The Key Vault backend
reads and writes in two calls, which is why `save` and `saveWrite` are two steps.
`newest`, `void` and `saved` are history. The answer to a redeemed code may be lost
(`AnswerLost`: the service gives up, or cannot read it), and a disconnect may fail and be
reported as done. A portal that stops waiting (`PortalGivesUp`) leaves the
service's request running. Left out: the Exchange and SharePoint requests, which save
nothing, and encryption of the row.

### ApplyScope

A run clears the plan on show, publishes its own with the list of its files, waits, applies on a
fresh clone and cleans up (`run`, `stage`, `plan`, `scopes`); any of these steps may fail
(`failed`), and what the workflow does after a failed one is in the action. `baseline` says that
the plan has something for the baseline; with nothing to list the list is not written
(`Publish`). The WhatIf window (`modal`) keeps marks, a sha and a timer; `saves` are its writes
under way, each with the reading of the new sha as a second step. `doubtful` is history: the
marks of a window need not be in the file. `Selected` is what `Common-IgnoreHelpers.ps1` leaves
of the changed files. `Unmatched` are the files whose mark becomes a pattern that does not match
them.

### PackageEdits

The files of one package (`repo[f]`: the operation that wrote it), and the pages' handlers as
lists of calls still to be made (`page[p].todo`). `Read`, `List` and `Write` carry out the next
one, fail it, or take an error for "not there" where the code does; `Write` compares the sha
that was read. `sort` is the kind of package: winget writes both scripts of an app, chocolatey
only the install script, a custom app those that are filled in (its detection script is left
out), so a save keeps what `Kept` names: a custom app's other scripts, and an icon that the
configuration does not name, even when it was removed. A removal walks the folders (`Walk`),
deletes what it found (`DeleteAll`) and queues the manifest. `abandoned` notes a removal that
failed with no other one under way (`GivesWay`); it failed too when it found nothing. A run may
clone in any state: `Discovered` is what `Common-Apps.ps1` finds in it.

### BaselineEdits

The policies, their removal manifests and their monitor sidecars (`repo[l]`), what each
browser shows (`page`), the files it is opening (`loads`: the answers of two files may come
in any order) and its handlers (`jobs`), which carry what they took from the page when the
button was pressed. `Read` and `Write` make the next call of a handler, fail it, lose its
answer, or take an error for "not there" where the code does; `Follows` is the order of the
calls, `Given` the sha each write is made with. The sha of a file is its contents. `seen`,
`givenUp`, `report` and `crossed` are history, the last being the policies that were saved or
staged while the editor held another one's contents. A manifest names a policy (`Describes`),
which is what the removal script goes by. The folder's own sidecar of a copy is left out.

### PlatformBootstrap

Marks that survive (`marks`: `setup_complete`, `platform_bootstrapped`, `.initialized`),
Gitea and its database (`ini`, `server`, `token`, `repo`, `scripts`), the promises
(`boot`, `ready`, `sync`, `lastRun`) and the runner. `BootNext` and `SyncNext` carry a run
from await to await; `EnsurePlatform` joins, starts or refuses it. Gitea's command line works
on the database of `app.ini`, requests on that of the running server: `CreateAdmin` makes the
token in the one, `Unfit` are the steps that then fail in the other. A failed generation may
have deleted the token before (`TokenAfterFailure`), and the sentinel may silently not be
written (`MarkInitialised`). Restarts are of the portal
or of the container, the latter with the image's or a new set of scripts.

`PortalProcess` holds what this module and the next one share: calls that fail and restarts.

### MspBootstrap

The rows (`tenants`), the repositories (`made`, `seeded`), the marks (`settings`), the key that
is stored and the one Gitea has (`key`, `secret`, numbered in the order they were generated),
the run of the MSP (`promise`, `step`, `todo`) and the provisioning of each tenant by
`POST /api/tenants` (`post`) and by the run (`own`). `outcome` notes whether a call of the run
has failed, `served` the tenants it has listed. A creation that provisions waits for
nobody but its own calls; its trigger of the bootstrap is not awaited. An operator may rotate
the key (`RotateKey`, `GiveRotated`): it is stored at once and given to Gitea later, or not at
all. The run gives Gitea what it has read before (`held`); `late` notes keys that a rotation
gave when another had replaced them.

## 4. Runs

| Run | Question | What it shows |
|---|---|---|
| `gate` | can racing operators, restarts, failures and expiry get an unapproved run applied, hide a waiting run or leave two issues? does a run end when nobody answers? is `Deployment` implemented? | no, but for a lost listing (two issues) and a restart in the expiry branch (an issue marked expired); a first denial binds unless the window had passed; yes; yes |
| `pending` | does a cleanup drop requests it did not carry out, or that came later? | not with its own result file |
| `update` | do failed, crashed, cancelled and repeated updates to newer and older versions keep database, link, record and scripts in order? | the schema always; the rest unless a session was started under the request of another, and but for a sync by a portal that has not been restarted yet |
| `import` | can an import be reported, counted, written early or revived wrongly? does the browser stop polling? | no, with lost answers, failed chunks, removals and a restart; yes, unless the restart orphaned the commit it waits for |
| `tokens` | do overlapping requests, time limits and restarts mix sign-ins, bring back old ones, undo a disconnect or lose a redeemed code? | sign-ins are never mixed; only a write over what its request has not seen brings one back; a redeemed code is saved unless the answer was lost, the store failed or the service restarted |
| `scope` | does a run apply more than it showed, is another run's plan shown, are marks lost? | not unless publishing, or clearing, failed or there was no file to list; marks written hold unless their writes overlapped, were dropped or replaced by another window's, or do not match |
| `packages` | do overlapping, failing saves and removals leave a package in a state nobody was told of? | only where handlers overlap or an error is taken for "not there"; a custom app keeps the scripts a save does not fill in |
| `baseline` | can overlapping, broken off or crossed edits of policies lose a policy, an edit nobody has seen, or report a removal that is not one? | no, unless somebody else wrote to the policy, an error was taken for "not there" or the editor held another policy's contents |
| `platform` | does a first start survive failures and restarts at any point, and in the right order? | yes, everything comes up unless Gitea's database is switched after a first bootstrap |
| `msp` | do marks, creations and runs keep what they promise while tenants come and go and the key is rotated? | yes; a run whose call failed promises nothing, nor does any run for a key stored after it read the one it gives |
| `gate_rejected` | "so the apply job never runs" (`settings-store.ts`) | violated: approval and rejection within one poll interval, the cancel call fails |
| `pending_removals` | a queued removal is kept until it is done (`AppsClient.tsx`) | violated: the cleanup removes manifests of skipped or failed removals |

### Bounds

* `gate`: two runs are enough for one run to overtake, queue behind or close the issue
  of another; two decisions per issue for an approval and a denial in either order; one
  fault, a step that begins anew or a lost listing. No symmetry, as it checks liveness.
  `gate_rejected` concerns one run.
* `pending`: two tenants share the host, one file, user and app each; every hazard
  relates one request to one run and at most one run of the other tenant. Histories
  are finite by themselves, so runs repeat without a bound.
* `update`: two releases, so that an update and a downgrade follow each other; three
  sessions, so that a repeated one follows both, or overlaps; one failed call and two crashes
  (two of the three once sessions have overlapped, `OverlapBound`).
* `import`: two imports of the same two files, batches and chunks of one, so that
  uploads and commits interleave; two faults, one restart.
* `tokens`: two requests, because every race is between a reader and one writer; two codes for
  an old and a new sign-in; three pairs of tokens, so that one is refreshed; one fault, of each
  of its kinds.
* `scope`: two files, one of them with a pattern that does not match it; two runs, for the
  files of an earlier one, with one window, two edits, two marks and one failed call of the
  browser, while the steps of a run may fail at will; or two windows and four marks for one
  run in which nothing fails (the constraint `Bound`): that many until a window's write is
  taken because the file has the contents again that it knows.
* `packages`: two pages and three operations, so that a removal meets a save and a third
  operation follows; one failed call. Only winget's saves create groups or have icons (`Plain`);
  the other kinds write them by the same calls.
* `baseline`: two pages and two policies, for edits of the same policy and answers of the
  other one; two files opened and three handlers, so that a removal meets two edits, or two
  pages one policy; one new contents, one failure. Two copies, and three files opened, were
  only explored in part.
* `platform`: four failed calls and four restarts; the counters only keep the behaviours
  finite, the steps have no other bound.
* `msp`: one tenant, created twice, two failed calls, one restart, two keys, so that one is
  rotated under the run or two rotations cross. Tenants meet only in the lists of the run; the
  proofs hold for any set of them, and any number of keys.
* The violations are reached with less; their configurations are as small as they go.

`CHECK_DEADLOCK FALSE`: runs, sessions, imports and operations are bounded sets, and the
system rests when all of them are over and nobody posts anything. The platform always
has a next step (its start script polls), so there deadlock is checked.

### Fairness

* `DeployGate`: `WF` of `Start` (Gitea starts a queued run when the group is free), of
  `RunnerStep` (a runner carries on with its job) and of `WindowCloses` (time passes).
  Operators, failures and restarts get none; restarts are bounded.
* `ImportJob`: `WF` of `CommitStep` (the event loop resumes the commit) and of `Poll`
  (`baseline-import.ts` polls in a loop). A restart leaves a job in `committing` for ever
  (`import-job-store.ts:246`), so `PollingEnds` excepts the imports it orphaned.
* `PlatformBootstrap`: `WF` of `BootNext` and `SyncNext` (the event loop), of
  `CooldownEnds` (time passes) and of `PollStatus`: `portal-warmup.sh` and
  `runner-start.sh` poll for ten minutes after a start and open pages do later.
* `MspBootstrap`: `WF` of `RunNext` and of `Provision` (the event loop). Neither operators
  nor the page that would start a second run have any.
* The other modules state safety only: what would have to happen in them is up to
  operators, or to a browser that may be closed at any time.

## 5. Proofs

All theorems hold for any constants that satisfy the `ASSUME` of the module, which says
no more than that bounds are natural numbers, sizes positive, the file set finite and
the placeholder values fresh.

* `DeployPipelineProofs`, the gate: `TypeCorrect`, `ApplyIsApproved`, `SingleOpenIssue`,
  `WaitingIsVisible`, `DenialBinds`, `Implementation`. `IInv` adds what the checked invariants
  lean on: one active run (`OneActiveRun`, the concurrency group), no issue or comment before
  the gate job (`NoEarlyIssue`), every call of the reject handler comes after its comment
  (`CallsFollowDenial`, hence a closed issue of a waiting run is a denied one, or says that it
  has expired), and a run past the gate was approved first or late (`GatePassed`).
  `Implementation` maps every step to a step or stutter of `Deployment`; it needs
  `NoEarlyIssue`, since an approval counts there only for a run past its plan.
* `DeployPipelineProofs`, the queues: `PendingTypesHold`, `OwnResultIsSafe`,
  `LateRequestsAreSafe`. `PendingIInv`: what a run has cloned stays queued until its cleanup,
  because runs of one tenant are serialised and only cleanups shrink a queue (`CloneQueued`); a
  run's own result, and what is subtracted from it, was cloned and carried out (`ResultDone`,
  `SubtractDone`).
* `UpdateWizardProofs`: `SchemaFirst` for every operator (`SchemaIInv`: a request past
  the migration aims at a schema the database has), also with overlapping sessions and
  downgrades. `SwapsRecorded`, `ScriptsFollow` and `OnlyWholeLinked` say nothing once a session
  was started under another's request (`overlap`) and rest on `SoloIInv`: the newest session is
  the one worked on (`NewestOnly`), past the link its target is linked (`LinkedIsTarget`), what
  is proposed and what a sync has read is what is linked (`ProposedIsCurrent`,
  `SyncIsStaged`), and what is past the verification is extracted (`VerifiedWhole`).
* `ImportJobProofs`: `TypeCorrect`, `ImportedIsWritten`, `ProgressIsWritten`,
  `WholeImportStaged`, `RemovedForGood`, for any number of files. The argument counts:
  staged and still to be uploaded paths always make up the import (`Target`), a commit
  has read all of it, and has written what is not left to write. The counters are
  compared with cardinalities, hence the lemmas on `Finalize` and finite sets.

* `ApplyScopeProofs`: `TypeCorrect`, `AppliedIsPlanned`, `ShownIsWaiting`,
  `WrittenMarksAreKept`, for any number of files, windows, runs and faults. `Published` is the
  strengthening: past the publishing step a run's list and plan are there unless that step
  failed or the list is empty, and before it no other run's plan is on show unless the clearing
  failed. For the marks it is `Kept`: those of a window without doubts are none, wait for its
  timer (`TimerSaves`), are in its only write under way, or are in the file of the run it shows
  (`LiveRun`). The attempt showed that two windows are worse off than one: the sha of a file is
  that of its contents, so a late write of one window is taken when the file has come back to
  what that window knows, and replaces the marks of the other without an error on either side.
  `WrittenMarksHold` therefore counts another window's write as a doubt.
* `BootstrapProofs`, the platform: `TypeCorrect`, `SyncAfterRepo`, `RunnerAfterScripts`,
  `SentinelAfterToken`, for any number of failures and restarts. `RunFacts` says what the
  place of a bootstrap in flight tells about Gitea, the token and the repository, and that
  a stored mark or a kept promise implies a repository, in the running server's database when
  the mark does not say that it was made before; `DatabaseFacts`, that Gitea goes from SQLite to
  the chosen database and never back, tells where a repository can be; `SyncFacts` that a sync counts
  as done only while the scripts in Gitea are those of the image.
* `BootstrapProofs`, the MSPs: `MspTypesHold`, `SettingsAreTrue`, `CleanRunsServe`,
  `CreationsAreReady`, for any set of tenants. `MspRunFacts`: which shared repositories and
  which key there are at each step of a run; `OwnFacts`: it provisions one repository at a
  time; `ServedFacts`: in a clean run a listed tenant is still on the list, has its
  repository or is getting it, loop by loop, and after the sync's call Gitea has the key it
  read; `PostFacts`: a creation that writes files has
  a repository to write them to.

* `TenantTokensProofs`: `TypeCorrect`, `OneSignIn`, `NewestStays`, `DisconnectIsFinal`,
  `RedeemedStays`, for any number of requests, codes and tokens. `Whole` says what makes a
  row, or what a request has read or is about to write, one sign-in; `Carried` what a request
  knows at each await, above all that a refresh carries on the sign-in it has read;
  `CodeFacts` that a code whose start has still to save it is nowhere else, so that no
  disconnect has ended it; `PendingNotVoid` that the pending code of a row nobody wrote over
  is not one a disconnect ended. `RedeemedStays` has an induction of its own on top.

* `BaselineEditsProofs`: `TypeCorrect`, `NothingForgotten`, `RemovalsDone`, `TakesWhatIsSeen`,
  for any policies, pages and bounds. `Inv` says of every handler at which steps it can be
  (`InStep`), that what a removal is about to delete has been staged unless somebody gave the
  policy up (`StagedFirst`), and what a removal that nobody disturbed has done so far
  (`DoneSoFar`); that a policy nobody gave up is described by one of its two files is an
  induction of its own (`Named`), as only crossed contents break it. `Inv2` is about shas:
  whoever holds one has seen those contents somewhere (`ShaSeen`); new contents have a number
  nobody has used (`Numbered`), so contents are known at one path only, but for what a staging
  writes (`OnePath`). The lemmas on `Proceed` say what a call does to the other handlers, the
  reports and the pages, so that each action is argued once.

* `PackageEditsProofs`: `PackageInvHolds`, `TypeCorrect`, `ReportsAreTrue`,
  `RemovalsAreQueued`, `GroupsExist`, `OneLayoutOnly`, for any pages, operations and faults.
  A handler is argued about by the set of its pending calls (`Pending`), which are of its
  kind (`Made`) and in the order of their places (`Place`, `InOrder`), not by a case per
  position. None of the checked invariants is inductive: "reported as saved" is
  about the end of a handler, so `DoneOrPending` says of every point on the way that what
  an undisturbed handler has not done yet is pending; `GroupOrPending` says the same of
  the group a configuration will assign. `RemovalUnderWay` keeps the promise of the
  queue while removals overlap, `CleanUnlessMixed` and `SplitStandsAlone` that of the layout.
  The lemmas on sequences of calls come first; each step of a handler is then argued once
  for the handler itself and once for all the others (`Calm`). `RemovalQueued` was false for
  four operations before a removal that finds nothing counted as given up: the proof found
  it, the run's three operations do not reach it.

The runs check what could be wrong and leave types to the proofs: the type invariant of
every module is proved, and no run checks one.

Every invariant and every action property that a run checks and that holds is proved.
Only model-checked: the liveness properties (`DispatchedRunEnds`, `PollingEnds`,
`PlatformComesUp`, `EverySetupEnds`), which are beyond the prover, as are ENABLED,
induction over data and RECURSIVE operators (no module declares one). `Deployment` states safety
only, so `Implementation` covers all of it. For the violated properties the counterexample
is the result.

## 6. Known deviations that no run checks

Met while modelling; the models do what the code does.

* **Gate and queues**: cleanup of a run that broke off subtracts an earlier run's result
  file, although the pipeline says "Subtract only users processed by this Apply run"
  (`deploy-pipeline.yml:1936`; `OwnResultDropsOnlyDone` excepts it). Users queued during
  the gate are processed though the plan never showed them (`deploy-pipeline.yml:1276`). A lost
  listing of stale issues leaves them open beside the new one (`:1126`). A polling step that
  restarts after it has closed its issue as expired (`:1183`) polls that issue for another six
  hours, out of the portal's sight.
* **Update**: a retry does not repair a broken extraction: `app-updater.ts:451` takes a
  directory with a `manifest.json` for an extracted release, so one that broke off behind
  that file fails its verification on every retry, although `session/route.ts:142-143` calls
  the failure retryable (`LinkedWhole` shows that it is never linked). The first update
  leaves the image's portal running until the container restarts (`entrypoint-aio.sh:303`,
  against `DEPLOY.md`). The scripts sync pushes to main what `DEPLOY.md` says "still need
  Gitea PR approval" (`platform-bootstrap.ts:1112`). The branch of a scripts pull request is
  named by the session's version and never removed: a second session for that version fails
  in its third step for good (`scripts-update.ts:124`). A cancel, or a new session, is
  overwritten by the next log line of a request under way (`update-session.ts:67`).
* **Import**: a path prefix is put before an import's paths three times
  (`zip-import-browser.ts:48`, `baseline-import.ts:74`, `import-job-store.ts:141`): `Finalize`
  is applied three times. Cancelling does not remove the job: the DELETE is sent with the
  signal that is aborted already (`baseline-import.ts:168`), so `Abort` leaves it.
* **Tokens**: polls of one page overlap; a start whose page has gone replaces the code of a
  newer one, and a poll's clear wipes a newer code (`tenant-auth.ts:255`); a refresh under way
  re-creates the row after a disconnect; Key Vault loses updates between its read and its write;
  tokens are lost with Entra ID's answer to a redeemed code (`:206`); a vault that refuses the
  deletion is reported as disconnected (`token-status/route.ts:101`). `NewestKept` and
  `DisconnectHolds` hold where no such write happened.
* **Scope**: the pattern made for a mark lacks the item's type and never matches items in
  service folders (`Unmatched`); the window drops its timer when it closes or is rendered
  anew; a mark set during the first save is refused silently; a window opened again starts
  without marks; a run whose list was not published applies everything. So does one whose list
  is empty although its plan has a removal or an error for the baseline: `Set-Content` makes no
  file of nothing (`deploy-pipeline.yml:947`, against the comment above it).
* **Packages**: an error answer is taken for "not there"; overlapping saves both report success;
  a run that clones in the middle of a save finds the new configuration with old scripts; an app
  saved again while its removal is queued is removed later (`AppsClient.tsx:639`); a custom app
  saved with a script left empty keeps the one of an earlier save, or of one that failed
  (`AppsClient.tsx:649`); a split printer's removal names its master only.
* **Baseline edits**: of two files that are being opened the later answer fills the editor:
  a removal from the tenants can write a manifest that names the other policy before its
  delete is refused (`BaselineClient.tsx:484`, `:566`), and with the second reading of a save
  still under way (`:596`) even report success: the removal then goes by the wrong name
  (`Remove-Intune.ps1:101`) and the policy stays with the tenants for good. `NotForgotten`
  excepts the policies it happened to (`crossed`). A sidecar that was cleared leaves its old sha
  with the page (`:824` ignores `undefined`): a removal afterwards deletes the policy and
  reports failure. Copies do not look at the answers to their sidecar writes
  (`ViewerClient.tsx:1130`, `:1145`).
* **Groups**: the groups tab replaces the whole groups file by the page's copy, and its `GET`
  answers `{}` on error; the sync writes the tenants' cache to a repository `<slug>` instead of
  `tenant-<slug>` (`app/api/git/groups-sync/route.ts:48`).
* **Removals**: `Remove-ConditionalAccess.ps1:7` says that it "runs BEFORE
  Configure-ConditionalAccess.ps1", but the removal steps come after all applies
  (`deploy-pipeline.yml:1694`): a policy in both trees is created and removed in every run.
* **Platform**: `GET /api/health/sync-status` is public, starts the bootstrap (`:28`) and is
  polled by `portal-warmup.sh`, so Gitea is started, on SQLite, before anybody has opened the
  wizard; `entrypoint-aio.sh:468` says "First run — Gitea startup deferred until wizard
  completes". The database chosen in the wizard reaches Gitea with the next container
  start, as an empty Gitea in which `platform_bootstrapped` prevents the repository from
  being created again: the scripts sync then runs without a repository, which the comment at
  `platform-bootstrap.ts:143-145` says cannot happen, on every start. `NoSyncBeforeRepo`
  (`SwitchedSince`) and `PlatformComesUp` except it.
* **MSP**: a first run that failed counts as done until the portal restarts (`:657`); the
  promise of a run is kept, so tenants created later are not synced by it although the comment
  says "Always run the sync body" (`:912`); a DELETE whose repository deletion fails leaves an
  orphan that a tenant of the same name adopts; a key that was stored with no tenant there is
  set as a secret by a later process only; a run that read the key before a rotation puts the
  old one in its place (`:945`, `:953`), and of two rotations the earlier may reach Gitea last
  (`internal-key/route.ts:34-38`): `CleanRunServes` excepts both (the rest
  `platform-bootstrap.ts`).

Hazards seen and not covered by a property: a portal that dies in a step whose session the
wizard cannot resume (`UpdateWizard.tsx:323`); a migration and its version row in two transactions
(`db-sqlite-schema.ts:81`); `app-update.sh` next to the wizard; adds before removes whatever
their order (`Invoke-AddUsersToGroup.ps1:253`); the poll whose answer removes the job
(`import-jobs/[id]/route.ts:40`); the browser's view of a zip's single root
(`zip-import.ts:74`); the runner's three hours against the gate's six (`config-shard.yml:10`).

## 7. Not modelled

* **Blob backup**: two shell scripts around one `flock`; what they share is the lock, which
  is the operating system's, and a status file.
* **Settings, setup, sessions, authorisation**: reads and writes of single rows with one
  synchronous database handle, and guards without state.
* **Pure algorithms**: functions over texts, XML and JSON, whose correctness lies in the
  characters the models abstract from; their unit tests say it better.
* **Runner scripts**: one Graph call after another in one process. What they leave for the
  pipeline is in `PendingActions`, what they select in `ApplyScope`, what they discover in
  `PackageEdits`.
* **Portal pages**: rendering and forms, more than half of the implementation's lines. The
  loops in them that drive shared state are in the modules above.
* **Documentation and templates**: no behaviour.

Inside the modelled parts, each module's header and section 3 say what it leaves out.
`PROJECT.json` lists all components, and every hazard with the properties that cover it.
