----------------------------- MODULE ImportJob -----------------------------
(***************************************************************************)
(* Zip imports into the baseline repository: the browser's upload          *)
(* (lib/client/baseline-import.ts), the portal's job directory             *)
(* (lib/server/import-job-store.ts) and the commit to Gitea                *)
(* (lib/server/import-commit.ts, batchPutFiles of gitea.ts).  A job is     *)
(* created, takes its files in batches and is committed in the background  *)
(* while the browser polls it.  The commit writes chunks of files; when a  *)
(* chunk fails it starts over, file by file.                               *)
(*                                                                         *)
(* Every import brings its own version of the same files, named after its  *)
(* job.  Path prefixes are abstracted to how often one was put before a    *)
(* path.  A step is what happens between two awaits.                       *)
(***************************************************************************)
EXTENDS Naturals, FiniteSets

CONSTANTS
  Jobs, Files,     \* imports, and the files of each
  Nobody,          \* whose version a file not in the repository is
  BatchSize,       \* files in an upload
  ChunkSize,       \* files in a commit
  PathPrefix,      \* does the user give a path prefix?
  Deletes,         \* does anyone call DELETE?
  MaxFaults,       \* bound: calls that fail or whose answer is lost
  MaxCrashes       \* bound: portal restarts

ASSUME ConstantsAssumption ==
  /\ IsFiniteSet(Files) /\ Files # {}
  /\ Nobody \notin Jobs
  /\ BatchSize \in Nat \ {0} /\ ChunkSize \in Nat \ {0}
  /\ PathPrefix \in BOOLEAN /\ Deletes \in BOOLEAN
  /\ MaxFaults \in Nat /\ MaxCrashes \in Nat

VARIABLES
  client,    \* client[j]: what the browser of import j is doing
  todo,      \* todo[j]: paths the browser still has to upload
  phase,     \* phase[j]: the job's phase; "gone" once its directory is removed
  old,       \* old[j]: is the job older than an hour?
  uploaded,  \* uploaded[j], committed[j]: the counters of the job
  committed,
  staged,    \* staged[j]: paths in the job directory
  worker,    \* worker[j]: the commit under way
  files,     \* files[j]: paths it has read
  left,      \* left[j]: those it still has to write
  seen,      \* seen[j]: path and version it looked up last
  repo,      \* repo[p]: whose version the repository has
  wrote,     \* history: wrote[j], the paths import j ever wrote
  faults, crashes

browser == <<client, todo>>
job     == <<phase, old, uploaded, committed, staged>>
commit  == <<worker, files, left, seen>>
git     == <<repo, wrote>>
bounds  == <<faults, crashes>>
vars    == <<browser, job, commit, git, bounds>>

Paths == [file : Files, prefixes : 0 .. 3]
Total == Cardinality(Files)
NoLookup == [path |-> Nobody, version |-> Nobody]

TypeOK ==
  /\ client \in [Jobs -> {"idle", "upload", "poll", "imported", "failed", "cancelled"}]
  /\ todo \in [Jobs -> SUBSET Paths]
  /\ phase \in [Jobs -> {"none", "uploading", "committing", "done", "error", "gone"}]
  /\ old \in [Jobs -> BOOLEAN]
  /\ uploaded \in [Jobs -> 0 .. Total]
  /\ committed \in [Jobs -> 0 .. Total]
  /\ staged \in [Jobs -> SUBSET Paths]
  /\ worker \in [Jobs -> {"off", "batch", "get", "put"}]
  /\ files \in [Jobs -> SUBSET Paths]
  /\ left \in [Jobs -> SUBSET Paths]
  /\ seen \in [Jobs -> [path : Paths \cup {Nobody}, version : Jobs \cup {Nobody}]]
  /\ repo \in [Paths -> Jobs \cup {Nobody}]
  /\ wrote \in [Jobs -> SUBSET Paths]
  /\ faults \in 0 .. MaxFaults
  /\ crashes \in 0 .. MaxCrashes

Init ==
  /\ client = [j \in Jobs |-> "idle"] /\ todo = [j \in Jobs |-> {}]
  /\ phase = [j \in Jobs |-> "none"] /\ old = [j \in Jobs |-> FALSE]
  /\ uploaded = [j \in Jobs |-> 0] /\ committed = [j \in Jobs |-> 0]
  /\ staged = [j \in Jobs |-> {}]
  /\ worker = [j \in Jobs |-> "off"]
  /\ files = [j \in Jobs |-> {}] /\ left = [j \in Jobs |-> {}]
  /\ seen = [j \in Jobs |-> NoLookup]
  /\ repo = [p \in Paths |-> Nobody] /\ wrote = [j \in Jobs |-> {}]
  /\ faults = 0 /\ crashes = 0

Become(j, state) == client' = [client EXCEPT ![j] = state]
Run(j, state)    == worker' = [worker EXCEPT ![j] = state]
SomeOf(S, n)     == {B \in SUBSET S : Cardinality(B) = IF Cardinality(S) < n THEN Cardinality(S) ELSE n}

\* finalizeImportPaths, for paths that need no other normalisation.
Finalize(P) ==
  IF PathPrefix THEN {[p EXCEPT !.prefixes = @ + 1] : p \in P} ELSE P

-----------------------------------------------------------------------------
(* The job store. *)

\* rmSync of the directories of the jobs in K.
Remove(K) ==
  /\ phase' = [j \in Jobs |-> IF j \in K THEN "gone" ELSE phase[j]]
  /\ staged' = [j \in Jobs |-> IF j \in K THEN {} ELSE staged[j]]

Exists(j) == phase[j] \notin {"none", "gone"}

\* createImportJob, after cleaning up what is too old; zip and paths were
\* prepared by extractBaselineZipInBrowser and runBaselineImport.
Create(j) ==
  /\ client[j] = "idle"
  /\ LET stale == {k \in Jobs : Exists(k) /\ old[k]} IN
     /\ phase' = [k \in Jobs |-> CASE k = j -> "uploading" [] k \in stale -> "gone"
                                   [] OTHER -> phase[k]]
     /\ staged' = [k \in Jobs |-> IF k \in stale THEN {} ELSE staged[k]]
  /\ Become(j, "upload")
  /\ todo' = [todo EXCEPT ![j] = Finalize(Finalize([file : Files, prefixes : {0}]))]
  /\ UNCHANGED <<old, uploaded, committed, commit, git, bounds>>

\* Age matters only while another import may still be created.
HourPasses(j) ==
  /\ Exists(j) /\ ~old[j] /\ \E k \in Jobs : client[k] = "idle"
  /\ old' = [old EXCEPT ![j] = TRUE]
  /\ UNCHANGED <<browser, phase, uploaded, committed, staged, commit, git, bounds>>

\* Mutant: files that cannot be written are skipped, and counted.
UploadSkipping(j) ==
  /\ client[j] = "upload" /\ todo[j] # {}
  /\ \E batch \in SomeOf(todo[j], BatchSize) : \E written \in SUBSET batch :
       IF phase[j] = "uploading" /\ uploaded[j] + Cardinality(batch) <= Total
         THEN /\ staged' = [staged EXCEPT ![j] = @ \cup Finalize(written)]
              /\ uploaded' = [uploaded EXCEPT ![j] = @ + Cardinality(batch)]
              /\ todo' = [todo EXCEPT ![j] = @ \ batch]
              /\ UNCHANGED client
         ELSE Become(j, "failed") /\ UNCHANGED <<staged, uploaded, todo>>
  /\ UNCHANGED <<phase, old, committed, commit, git, bounds>>

\* stageImportBatch, for the browser's next batch.
Upload(j) ==
  /\ client[j] = "upload" /\ todo[j] # {}
  /\ \E batch \in SomeOf(todo[j], BatchSize) :
       IF phase[j] = "uploading" /\ uploaded[j] + Cardinality(batch) <= Total
         THEN /\ staged' = [staged EXCEPT ![j] = @ \cup Finalize(batch)]
              /\ uploaded' = [uploaded EXCEPT ![j] = @ + Cardinality(batch)]
              /\ todo' = [todo EXCEPT ![j] = @ \ batch]
              /\ UNCHANGED client
         ELSE Become(j, "failed") /\ UNCHANGED <<staged, uploaded, todo>>
  /\ UNCHANGED <<phase, old, committed, commit, git, bounds>>

\* startImportJobCommit: the commit reads the staged files before its first await.
StartCommit(j) ==
  /\ client[j] = "upload" /\ todo[j] = {}
  /\ IF phase[j] = "uploading" /\ uploaded[j] = Total
       THEN /\ phase' = [phase EXCEPT ![j] = "committing"]
            /\ committed' = [committed EXCEPT ![j] = 0]
            /\ Run(j, "batch")
            /\ files' = [files EXCEPT ![j] = staged[j]]
            /\ left' = [left EXCEPT ![j] = staged[j]]
            /\ Become(j, "poll")
       ELSE Become(j, "failed") /\ UNCHANGED <<phase, committed, worker, files, left>>
  /\ UNCHANGED <<todo, old, uploaded, staged, seen, git, bounds>>

\* GET by the browser; a finished job is removed as it is reported.
Poll(j) ==
  /\ client[j] = "poll"
  /\ phase[j] \in {"done", "error", "gone"}
  /\ IF phase[j] = "done"
       THEN Become(j, "imported") /\ Remove({j})
       ELSE Become(j, "failed") /\ UNCHANGED <<phase, staged>>
  /\ UNCHANGED <<todo, old, uploaded, committed, commit, git, bounds>>

\* The user cancels: the DELETE carries the signal that is aborted already,
\* so the browser never sends it.
Abort(j) ==
  /\ client[j] \in {"upload", "poll"}
  /\ Become(j, "cancelled")
  /\ UNCHANGED <<todo, job, commit, git, bounds>>

\* cancelImportJob: not while the commit is under way.
Delete(j) ==
  /\ Deletes
  /\ phase[j] \in {"uploading", "error"}
  /\ Remove({j})
  /\ UNCHANGED <<browser, old, uploaded, committed, commit, git, bounds>>

-----------------------------------------------------------------------------
(* The commit: runImportJobCommit. *)

\* Mutant: the progress is that of the file about to be written.
ProgressAhead(j, n) ==
  committed' = [committed EXCEPT ![j] =
                  IF phase[j] # "committing" THEN @ ELSE IF n < Total THEN n + 1 ELSE n]

\* The progress callback and the end of the commit read the job anew.
Progress(j, n) ==
  committed' = [committed EXCEPT ![j] = IF phase[j] = "committing" THEN n ELSE @]

WriteToRepo(j, P) ==
  /\ repo' = [p \in Paths |-> IF p \in P THEN j ELSE repo[p]]
  /\ wrote' = [wrote EXCEPT ![j] = @ \cup P]

\* Mutant: the end of the commit trusts the job it read at its start.
EndUnread(j, result) ==
  /\ Run(j, "off")
  /\ phase' = [phase EXCEPT ![j] = result]
  /\ staged' = IF result = "done" THEN [staged EXCEPT ![j] = {}] ELSE staged

\* Mutant: a failed commit is only logged.
EndLogged(j, result) ==
  /\ Run(j, "off")
  /\ phase' = [phase EXCEPT ![j] = IF Exists(j) /\ result = "done" THEN result ELSE @]
  /\ staged' = IF Exists(j) /\ result = "done" THEN [staged EXCEPT ![j] = {}] ELSE staged

\* Mutant: a failed commit counts as done.
EndDone(j, result) ==
  /\ Run(j, "off")
  /\ phase' = [phase EXCEPT ![j] = IF Exists(j) THEN "done" ELSE @]
  /\ staged' = IF Exists(j) THEN [staged EXCEPT ![j] = {}] ELSE staged

End(j, result) ==
  /\ Run(j, "off")
  /\ phase' = [phase EXCEPT ![j] = IF Exists(j) THEN result ELSE @]
  /\ staged' = IF Exists(j) /\ result = "done" THEN [staged EXCEPT ![j] = {}] ELSE staged

\* After a file or a chunk: the next one, or the end.
GoOn(j, next) ==
  /\ Progress(j, Cardinality(files[j] \ left'[j]))
  /\ IF left'[j] = {}
       THEN End(j, "done")
       ELSE Run(j, next) /\ UNCHANGED <<phase, staged>>

CommitChunk(j) ==
  /\ worker[j] = "batch"
  /\ \E chunk \in SomeOf(left[j], ChunkSize) :
       /\ WriteToRepo(j, chunk)
       /\ left' = [left EXCEPT ![j] = @ \ chunk]
  /\ GoOn(j, "batch")
  /\ UNCHANGED <<browser, old, uploaded, files, seen, bounds>>

\* importViaSequentialPut: look the file up, then write it.
LookUp(j) ==
  /\ worker[j] = "get"
  /\ \E p \in left[j] : seen' = [seen EXCEPT ![j] = [path |-> p, version |-> repo[p]]]
  /\ Run(j, "put")
  /\ UNCHANGED <<browser, job, files, left, git, bounds>>

\* Gitea refuses the write when the file has changed since.
Put(j) ==
  /\ worker[j] = "put"
  /\ IF repo[seen[j].path] = seen[j].version
       THEN /\ WriteToRepo(j, {seen[j].path})
            /\ left' = [left EXCEPT ![j] = @ \ {seen[j].path}]
            /\ GoOn(j, "get")
       ELSE End(j, "error") /\ UNCHANGED <<git, left, committed>>
  /\ seen' = [seen EXCEPT ![j] = NoLookup]
  /\ UNCHANGED <<browser, old, uploaded, files, bounds>>

-----------------------------------------------------------------------------
(* Failures. *)

Fault == faults < MaxFaults /\ faults' = faults + 1 /\ UNCHANGED crashes

\* A chunk fails, whether Gitea made the commit or not: file by file from the
\* beginning.
ChunkFails(j) ==
  /\ worker[j] = "batch"
  /\ Fault
  /\ \E chunk \in SomeOf(left[j], ChunkSize) \cup {{}} : WriteToRepo(j, chunk)
  /\ left' = [left EXCEPT ![j] = files[j]]
  /\ Run(j, "get")
  /\ UNCHANGED <<browser, job, files, seen>>

\* A lookup or a write fails, the write perhaps after it was made.
PutFails(j) ==
  /\ worker[j] \in {"get", "put"}
  /\ Fault
  /\ \/ UNCHANGED git
     \/ /\ worker[j] = "put" /\ repo[seen[j].path] = seen[j].version
        /\ WriteToRepo(j, {seen[j].path})
  /\ End(j, "error")
  /\ seen' = [seen EXCEPT ![j] = NoLookup]
  /\ UNCHANGED <<browser, old, uploaded, committed, files, left>>

\* The browser loses an answer or cannot reach the portal; a poll may have
\* removed the finished job.
AnswerLost(j) ==
  /\ client[j] \in {"upload", "poll"}
  /\ Fault
  /\ Become(j, "failed")
  /\ \/ UNCHANGED <<phase, staged>>
     \/ client[j] = "poll" /\ phase[j] = "done" /\ Remove({j})
  /\ UNCHANGED <<todo, old, uploaded, committed, commit, git>>

\* The job directories survive a restart of the portal, the commits do not.
Crash ==
  /\ crashes < MaxCrashes
  /\ crashes' = crashes + 1
  /\ worker' = [j \in Jobs |-> "off"]
  /\ UNCHANGED <<browser, job, files, left, seen, git, faults>>

CommitStep(j) == CommitChunk(j) \/ LookUp(j) \/ Put(j)

ImportStep(j) ==
  \/ Create(j) \/ Upload(j) \/ StartCommit(j) \/ Poll(j) \/ Abort(j)
  \/ HourPasses(j) \/ Delete(j)
  \/ CommitStep(j)
  \/ ChunkFails(j) \/ PutFails(j) \/ AnswerLost(j)

Next == Crash \/ \E j \in Jobs : ImportStep(j)

Spec == Init /\ [][Next]_vars

\* Node runs the commit's continuations, and the browser keeps polling.
Fairness == \A j \in Jobs : WF_vars(CommitStep(j)) /\ WF_vars(Poll(j))

LiveSpec == Spec /\ Fairness

-----------------------------------------------------------------------------
(* Properties. *)

\* What is reported as imported has been written to Gitea, every file of it,
\* and the count says so.
DoneIsImported ==
  \A j \in Jobs :
    phase[j] = "done" \/ client[j] = "imported" =>
      Cardinality(wrote[j]) = Total /\ committed[j] = Total

\* The progress shown is never more than what Gitea has got.
ProgressIsReal ==
  \A j \in Jobs : committed[j] <= Cardinality(wrote[j])

\* Nothing of an import reaches Gitea before its last batch is staged.
AllStagedFirst ==
  \A j \in Jobs : wrote[j] # {} => Cardinality(files[j]) = Total

\* A job that was removed, by a poll, a DELETE or for its age, does not come
\* back when its commit ends.
GoneStaysGone ==
  [][\A j \in Jobs : phase[j] = "gone" => phase'[j] = "gone"]_vars

\* A commit that a restart of the portal has ended, and nothing resumes.
Orphaned(j) == crashes > 0 /\ phase[j] = "committing" /\ worker[j] = "off"

\* The browser's polling comes to an end, whatever fails and whatever other
\* imports do, unless a restart took the commit it waits for.
PollingEnds ==
  \A j \in Jobs : client[j] = "poll" ~> client[j] # "poll" \/ Orphaned(j)
=============================================================================
