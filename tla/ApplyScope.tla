----------------------------- MODULE ApplyScope -----------------------------
(***************************************************************************)
(* What an approved run applies.  The plan job publishes the plan and the  *)
(* list of changed files in the tenant's repository (deploy-pipeline.yml); *)
(* operators look at the plan in the portal and mark items to be left out  *)
(* of this run (WhatIfModal.tsx) or edit the ignore file; the apply job    *)
(* clones the repository anew and takes what these files leave             *)
(* (Common-IgnoreHelpers.ps1).                                             *)
(*                                                                         *)
(* One run at a time is under way, as DeployGate shows; approval itself is *)
(* modelled there.  An item is a file of the baseline and the pattern that *)
(* names it.  The sha of a file is its contents: Gitea refuses a write     *)
(* whose sha is not that of the file, and one without a sha of a file that *)
(* exists.  Comments and the order of patterns are left out.               *)
(***************************************************************************)
EXTENDS Naturals, FiniteSets

CONSTANTS
  Items,       \* files of the baseline
  Unmatched,   \* those that the pattern made for a mark does not match
  Modals,      \* browsers with the WhatIf window
  MaxRuns,     \* bound: runs
  MaxChanges,  \* bound: edits of the baseline and of the ignore file
  MaxToggles,  \* bound: marks set or taken away for one run
  MaxFaults,   \* bound: failed calls of browsers
  NoFile       \* contents of a file that does not exist

ASSUME UnmatchedAssumption == Unmatched \subseteq Items
ASSUME BoundsAssumption == {MaxRuns, MaxChanges, MaxToggles, MaxFaults} \subseteq Nat
ASSUME NoFileAssumption == \A f \in SUBSET Items : f # NoFile

Runs == 1 .. MaxRuns
Set  == SUBSET Items
File == Set \cup {NoFile}
Patterns(f) == IF f = NoFile THEN {} ELSE f

VARIABLES
  run,      \* the last run that was started
  stage,    \* where it is
  pending,  \* baseline files that differ from the tenant's configuration
  listed,   \* listed[r]: the files whose change the plan of r lists
  baseline, \* has_baseline_changes: files to write, something to remove or an error
  failed,   \* which of its steps have failed
  plan,     \* config/deploy-plan-latest.json: whose plan it is, or 0
  scopes,   \* the runs r with a file .baseline-apply-<r>
  skip,     \* skip[r]: the file .baseline-skip-<r>
  ignore,   \* the patterns in .baseline-ignore
  modal,    \* modal[m]: the window of m
  saves,    \* saves[m]: writes of the skip file that m has under way
  changes, toggles, faults,   \* counters for the bounds
  applied,  \* history: what it has applied
  doubtful  \* history, doubtful[m]: the last write of m was dropped or refused, or
            \* overlapped with another one of m, or another window's write came after it

pipeline == <<run, stage, pending, listed, baseline, failed, plan, scopes, applied, ignore, changes>>
skipping == <<skip, modal, saves, toggles, doubtful>>
vars     == <<pipeline, skipping, faults>>

NoTimer == [set |-> NoFile, sha |-> NoFile]
Closed  == [open |-> FALSE, shows |-> 0, marked |-> {}, sha |-> NoFile, timer |-> NoTimer]

TypeOK ==
  /\ run \in 0 .. MaxRuns /\ stage \in {"idle", "clear", "publish", "gate", "apply", "cleanup"}
  /\ pending \in Set /\ ignore \in Set
  /\ listed \in [Runs -> Set] /\ baseline \in BOOLEAN /\ applied \in Set
  /\ failed \subseteq {"clear", "publish", "cleanup"}
  /\ plan \in 0 .. MaxRuns /\ scopes \subseteq Runs
  /\ skip \in [Runs -> File]
  /\ modal \in [Modals -> [open : BOOLEAN, shows : 0 .. MaxRuns, marked : Set, sha : File,
                           timer : [set : File, sha : File]]]
  /\ saves \in [Modals -> SUBSET [want : Set, sha : File, run : Runs,
                                  step : {"send", "reread"}, live : BOOLEAN]]
  /\ changes \in 0 .. MaxChanges /\ toggles \in 0 .. MaxToggles /\ faults \in 0 .. MaxFaults
  /\ doubtful \in [Modals -> BOOLEAN]

Init ==
  /\ run = 0 /\ stage = "idle" /\ pending = {}
  /\ listed = [r \in Runs |-> {}] /\ baseline = FALSE /\ applied = {} /\ failed = {}
  /\ plan = 0 /\ scopes = {} /\ skip = [r \in Runs |-> NoFile]
  /\ ignore = {}
  /\ modal = [m \in Modals |-> Closed] /\ saves = [m \in Modals |-> {}]
  /\ changes = 0 /\ toggles = 0 /\ faults = 0
  /\ doubtful = [m \in Modals |-> FALSE]

Fault   == faults < MaxFaults /\ faults' = faults + 1
NoFault == UNCHANGED faults

-----------------------------------------------------------------------------
(* The runs. *)

\* The baseline is edited: a file differs from the tenant's configuration.
BaselineChanges(i) ==
  /\ changes < MaxChanges /\ changes' = changes + 1
  /\ i \notin pending /\ pending' = pending \cup {i}
  /\ UNCHANGED <<run, stage, listed, baseline, failed, plan, scopes, applied, ignore,
                 skipping, faults>>

\* The plan job clones both repositories and compares what is not ignored; it also
\* counts what would be removed and what it failed to compare.
Start ==
  /\ stage = "idle" /\ run < MaxRuns
  /\ run' = run + 1 /\ stage' = "clear"
  /\ listed' = [listed EXCEPT ![run + 1] = pending \ ignore]
  /\ baseline' \in BOOLEAN /\ (pending \ ignore # {} => baseline')
  /\ failed' = {} /\ applied' = {}
  /\ UNCHANGED <<pending, plan, scopes, ignore, changes, skipping, faults>>

\* A step that the job continues after when it fails, as it does on a rejected push.
TryStep(name, next, effect) ==
  /\ stage = name
  /\ \/ effect /\ UNCHANGED failed
     \/ UNCHANGED <<plan, scopes>> /\ failed' = failed \cup {name}
  /\ stage' = next
  /\ UNCHANGED <<run, pending, listed, baseline, applied, ignore, changes, skipping, faults>>

\* Mutant: plans are left to the clean-up of the run that published them.
ClearNothing == TryStep("clear", "publish", UNCHANGED <<plan, scopes>>)

ClearStalePlans == TryStep("clear", "publish", plan' = 0 /\ UNCHANGED scopes)

\* The plan and the list.  Set-Content, given nothing, makes no file: there is no list
\* without files, although the comment above it says so.
Publish ==
  /\ plan' = run
  /\ scopes' = IF listed[run] # {} THEN scopes \cup {run} ELSE scopes

\* The run goes on when there is anything to do, if only in groups.
PublishPlan ==
  \E hasPending \in BOOLEAN :
    /\ run # 0 /\ (baseline => hasPending)
    /\ TryStep("publish", IF hasPending THEN "gate" ELSE "idle", Publish)

\* The gate: see DeployGate.
Approve ==
  /\ stage = "gate" /\ stage' = "apply"
  /\ UNCHANGED <<run, pending, listed, baseline, failed, plan, scopes, applied, ignore, changes,
                 skipping, faults>>

\* Rejected, expired, or a job that failed before the apply job began.
RunStops ==
  /\ stage \in {"clear", "publish", "gate"} /\ stage' = "idle"
  /\ UNCHANGED <<run, pending, listed, baseline, failed, plan, scopes, applied, ignore, changes,
                 skipping, faults>>

\* The marks in the skip file of the run.  Their patterns are made without the item's
\* type, <folder>/*/<name>.json, which matches no file in a service's own folder and none
\* that is not named like its item.
Skipped == Patterns(skip[run]) \ Unmatched

\* Mutant: the steps for the baseline look at deploy_options only.
SelectedAnyway ==
  LET scope == IF run \in scopes THEN listed[run] ELSE Items
  IN  (pending \cap scope) \ (ignore \cup Skipped)

\* What the apply job's clone selects: whatever differs when there is no list, but
\* nothing when the plan job found nothing to do in the baseline.
Selected ==
  LET scope == IF ~baseline THEN {} ELSE IF run \in scopes THEN listed[run] ELSE Items
  IN  (pending \cap scope) \ (ignore \cup Skipped)

\* The apply job clones and carries out all of it, or a part when it fails.
Apply(done) ==
  /\ stage = "apply" /\ done \subseteq Selected
  /\ pending' = pending \ done
  /\ applied' = done
  /\ stage' = "cleanup"
  /\ UNCHANGED <<run, listed, baseline, failed, plan, scopes, ignore, changes, skipping, faults>>

CleanUp == TryStep("cleanup", "idle", plan' = 0 /\ UNCHANGED scopes)

\* The maintenance job removes scope files of old runs; a run that waits is
\* younger than the retention, which counts days.
RemoveScope(r) ==
  /\ r \in scopes /\ (r = run => stage = "idle")
  /\ scopes' = scopes \ {r}
  /\ UNCHANGED <<run, stage, pending, listed, baseline, failed, plan, applied, ignore,
                 changes, skipping, faults>>

-----------------------------------------------------------------------------
(* Files in Gitea. *)

\* May a write with this sha replace the file?
Accepts(file, sha) == file = sha

-----------------------------------------------------------------------------
(* The WhatIf window. *)

\* Loads the plan.  No mark for the run is set, whatever the skip file says.
Open(m) ==
  /\ ~modal[m].open /\ plan # 0
  /\ modal' = [modal EXCEPT ![m] = [Closed EXCEPT !.open = TRUE, !.shows = plan]]
  /\ saves' = [saves EXCEPT ![m] = {[s EXCEPT !.live = FALSE] : s \in @}]
  /\ doubtful' = [doubtful EXCEPT ![m] = FALSE]
  /\ UNCHANGED <<pipeline, skip, toggles, faults>>

\* Mutant: the timer saves the marks from before the click.
ToggleBehind(m, i) ==
  LET w == modal[m]
      next == IF i \in w.marked THEN w.marked \ {i} ELSE w.marked \cup {i}
  IN  /\ w.open /\ i \in listed[w.shows] /\ toggles < MaxToggles
      /\ toggles' = toggles + 1
      /\ modal' = [modal EXCEPT ![m].marked = next, ![m].timer = [set |-> w.marked, sha |-> w.sha]]
      /\ UNCHANGED <<pipeline, skip, saves, doubtful, faults>>

\* A mark for this run; the timer, set anew, keeps the sha known at the click.
Toggle(m, i) ==
  LET w == modal[m]
      next == IF i \in w.marked THEN w.marked \ {i} ELSE w.marked \cup {i}
  IN  /\ w.open /\ i \in listed[w.shows] /\ toggles < MaxToggles
      /\ toggles' = toggles + 1
      /\ modal' = [modal EXCEPT ![m].marked = next, ![m].timer = [set |-> next, sha |-> w.sha]]
      /\ UNCHANGED <<pipeline, skip, saves, doubtful, faults>>

\* After 800 ms.  No marks and no file known: nothing is sent.
SaveSkipFile(m) ==
  LET t == modal[m].timer
  IN  /\ t # NoTimer
      /\ modal' = [modal EXCEPT ![m].timer = NoTimer]
      /\ saves' = IF t.set = {} /\ t.sha = NoFile THEN saves
                  ELSE [saves EXCEPT ![m] = @ \cup {[want |-> t.set, sha |-> t.sha,
                          run |-> modal[m].shows, step |-> "send", live |-> TRUE]}]
      /\ doubtful' = [doubtful EXCEPT ![m] = @ \/ \E s \in saves[m] : s.step = "send"]
      /\ UNCHANGED <<pipeline, skip, toggles, faults>>

IsLast(m, s) == s.live /\ s.want = modal[m].marked
Alone(m, s)  == ~\E t \in saves[m] \ {s} : t.step = "send"

\* The write, or the removal when nothing is marked.  Refused or lost, nobody is told;
\* a removal forgets the sha whatever the answer, but not without one.
SaveLands(m, s) ==
  \E done, answered \in BOOLEAN :
    LET removes == s.want = {} IN
    /\ s \in saves[m] /\ s.step = "send"
    /\ done => Accepts(skip[s.run], s.sha)
    /\ IF answered /\ (done <=> Accepts(skip[s.run], s.sha)) THEN NoFault ELSE Fault
    /\ skip' = IF done THEN [skip EXCEPT ![s.run] = IF removes THEN NoFile ELSE s.want] ELSE skip
    /\ saves' = [saves EXCEPT ![m] = (@ \ {s}) \cup
         IF done /\ answered /\ ~removes THEN {[s EXCEPT !.step = "reread"]} ELSE {}]
    /\ modal' = IF answered /\ s.live /\ removes THEN [modal EXCEPT ![m].sha = NoFile] ELSE modal
    /\ doubtful' = [n \in Modals |->
         IF n # m THEN doubtful[n] \/ (done /\ modal[n].shows = s.run)
         ELSE IF done THEN doubtful[m] /\ ~(IsLast(m, s) /\ Alone(m, s))
         ELSE doubtful[m] \/ IsLast(m, s)]
    /\ UNCHANGED <<pipeline, toggles>>

\* After a write the window reads the sha the file has by then.
SaveRereads(m, s) ==
  /\ s \in saves[m] /\ s.step = "reread"
  /\ saves' = [saves EXCEPT ![m] = @ \ {s}]
  /\ \/ NoFault /\ modal' = IF s.live /\ skip[s.run] # NoFile
                            THEN [modal EXCEPT ![m].sha = skip[s.run]] ELSE modal
     \/ Fault /\ UNCHANGED modal
  /\ UNCHANGED <<pipeline, skip, toggles, doubtful>>

\* The effect that holds the timer is cleaned up: the comparison of an item is opened
\* or closed, or the page around the window is drawn anew.
DropTimer(m) ==
  /\ modal[m].open /\ modal[m].timer # NoTimer
  /\ modal' = [modal EXCEPT ![m].timer = NoTimer]
  /\ doubtful' = [doubtful EXCEPT ![m] = TRUE]
  /\ UNCHANGED <<pipeline, skip, saves, toggles, faults>>

Close(m) ==
  /\ modal[m].open
  /\ modal' = [modal EXCEPT ![m].open = FALSE, ![m].timer = NoTimer]
  /\ doubtful' = [doubtful EXCEPT ![m] = @ \/ modal[m].timer # NoTimer]
  /\ UNCHANGED <<pipeline, skip, saves, toggles, faults>>

\* Somebody adds a pattern to the ignore file or takes one out.
EditIgnore(i) ==
  /\ changes < MaxChanges /\ changes' = changes + 1
  /\ ignore' = IF i \in ignore THEN ignore \ {i} ELSE ignore \cup {i}
  /\ UNCHANGED <<run, stage, pending, listed, baseline, failed, plan, scopes, applied,
                 skipping, faults>>

-----------------------------------------------------------------------------
RunStep   == \/ Start \/ ClearStalePlans \/ PublishPlan \/ Approve \/ RunStops
             \/ CleanUp
             \/ \E done \in Set : Apply(done)
             \/ \E i \in Items : BaselineChanges(i) \/ EditIgnore(i)
             \/ \E r \in Runs : RemoveScope(r)
SkipStep  == \E m \in Modals :
               \/ Open(m) \/ SaveSkipFile(m) \/ DropTimer(m) \/ Close(m)
               \/ \E i \in Items : Toggle(m, i)
               \/ \E s \in saves[m] : SaveLands(m, s) \/ SaveRereads(m, s)
Next == RunStep \/ SkipStep
Spec == Init /\ [][Next]_vars

-----------------------------------------------------------------------------
(* Properties. *)

\* A run applies nothing that its plan did not list (deploy-pipeline.yml:915-917),
\* whatever was added to the baseline or edited in between: also when it has only group
\* members to change.  Two cases have no list and take whatever differs by then: the
\* step that publishes it has failed, or the plan has a removal or an error but no file.
PlannedOnly ==
  run # 0 => \/ applied \subseteq listed[run]
             \/ "publish" \in failed
             \/ baseline /\ listed[run] = {}

\* The portal shows the plan of the run that waits; that of another one, "ghost
\* actions" (deploy-pipeline.yml:110), only when two steps of the job have failed.
NoGhostPlan ==
  stage \in {"gate", "apply"} /\ plan # run =>
    /\ "publish" \in failed
    /\ plan # 0 => "clear" \in failed

\* What an open window has written as its marks is left out of the run
\* (WhatIfModal.tsx:1293-1346), when no write of the last marks was dropped and none of
\* another window came after them, but for files that its pattern does not match.
WrittenMarksHold ==
  [][\A m \in Modals :
       /\ stage = "apply" /\ stage' = "cleanup"
       /\ modal[m].open /\ modal[m].shows = run
       /\ modal[m].timer = NoTimer /\ saves[m] = {} /\ ~doubtful[m]
       => applied' \cap modal[m].marked \subseteq Unmatched]_vars
=============================================================================
