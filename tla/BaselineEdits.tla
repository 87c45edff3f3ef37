---------------------------- MODULE BaselineEdits ---------------------------
(***************************************************************************)
(* The policies of a baseline repository and the pages that edit them: the *)
(* baseline page (BaselineClient.tsx), which saves a policy, keeps its     *)
(* monitor sidecar, removes it from Git or moves it to baseline-remove/,   *)
(* and the viewer (ViewerClient.tsx), which copies a tenant's policy over  *)
(* it.  A handler works with what the page held when its button was        *)
(* pressed; each of its calls is on one file (api/git/file), and the       *)
(* operator may meanwhile open another policy.  Answers of two files that  *)
(* are being opened arrive in any order.                                   *)
(*                                                                         *)
(* The sha of a file is its contents.  Contents name the policy they       *)
(* describe, which an edit does not change.  Folder sidecars, the viewer's *)
(* own sidecar panel and the groups tab are left out.                      *)
(***************************************************************************)
EXTENDS Naturals, FiniteSets

CONSTANTS
  Policies,   \* policies, each with a path of its own
  Pages,      \* browsers
  None,       \* no file, no sha, nothing selected
  MaxClicks,  \* bound: policies opened
  MaxJobs,    \* bound: buttons pressed
  MaxWrites,  \* bound: new contents
  MaxFaults   \* bound: failed calls

ASSUME BoundsAssumption == {MaxClicks, MaxJobs, MaxWrites, MaxFaults} \subseteq Nat

Deploy(q) == <<"baseline", q>>
Staged(q) == <<"baseline-remove", q>>
Marks(q)  == <<"sidecar", q>>
Listed    == {"baseline", "baseline-remove"} \X Policies    \* what the page lists
Paths     == Listed \cup ({"sidecar"} \X Policies)
InDeploy(l) == l[1] = "baseline"

Contents == [of : Policies \cup {None}, ver : Nat, reason : BOOLEAN]
ASSUME NoneAssumption == None \notin Policies \cup Paths \cup Contents

\* Contents are records: the policy they describe, a version, and whether they give the
\* reason of a removal.  The removal manifest of what the editor holds is an empty file if
\* the editor is empty.
Manifest(c) == IF c = None THEN [of |-> None, ver |-> 0, reason |-> FALSE]
               ELSE [c EXCEPT !.reason = TRUE]

VARIABLES
  repo,     \* repo[l]: the file at path l
  page,     \* page[p]: what the baseline page of p shows: the path selected, the editor's
            \* contents, the sha of the file and of its sidecar, whether it is loading
  loads,    \* loads[p]: files that p is opening, each with the answer it waits for
  jobs,     \* jobs[p]: handlers of p under way: what they took from the page, the sha they
            \* have read since, the call to be made next
  clicks, pressed, writes, faults,   \* counters for the bounds
  seen,     \* history, seen[p]: contents p has loaded of a path, has put there, or has taken
            \* the sha of when it read its own save again
  givenUp,  \* history: policies removed from Git, or whose staged removal was cancelled,
            \* and not written since but in the middle of a removal
  crossed,  \* history: policies saved or staged when the editor held no contents of theirs,
            \* those of a file that was opened before it or none
  report    \* history: the removal that p reports as done, and whether nobody else wrote
            \* to the policy and no answer in it was an error

counters == <<clicks, pressed, writes, faults>>
vars     == <<repo, page, loads, jobs, counters, seen, givenUp, crossed, report>>

Blank == [at |-> None, content |-> None, sha |-> None, marks |-> None, loading |-> FALSE]

Original(q) == [of |-> q, ver |-> 0, reason |-> FALSE]

Init ==
  /\ \E marked \in SUBSET Policies :
       repo = [l \in Paths |-> IF InDeploy(l) \/ (l[1] = "sidecar" /\ l[2] \in marked)
                               THEN Original(l[2]) ELSE None]
  /\ page = [p \in Pages |-> Blank] /\ loads = [p \in Pages |-> {}] /\ jobs = [p \in Pages |-> {}]
  /\ clicks = 0 /\ pressed = 0 /\ writes = 0 /\ faults = 0
  /\ seen = [p \in Pages |-> {}] /\ givenUp = {} /\ crossed = {}
  /\ report = [p \in Pages |-> None]

Fault   == faults < MaxFaults /\ faults' = faults + 1
NoFault == UNCHANGED faults

-----------------------------------------------------------------------------
(* Opening a file. *)

\* A file that is not being opened already; what else was selected or shown is forgotten.
Click(p, l) ==
  /\ clicks < MaxClicks /\ clicks' = clicks + 1
  /\ repo[l] # None /\ \A d \in loads[p] : d.at # l
  /\ page' = [page EXCEPT ![p] = [Blank EXCEPT !.at = l, !.loading = TRUE]]
  /\ loads' = [loads EXCEPT ![p] = @ \cup {[at |-> l, step |-> "file"]}]
  /\ report' = [report EXCEPT ![p] = None]
  /\ UNCHANGED <<repo, jobs, pressed, writes, faults, seen, givenUp, crossed>>

Loaded(p, d) == loads' = [loads EXCEPT ![p] = @ \ {d}]

\* The answer fills the editor whatever is selected by now; of a file that is gone it
\* empties the editor and leaves the sha alone.
FileAnswers(p, d) ==
  /\ d \in loads[p] /\ d.step = "file"
  /\ LET file  == repo[d.at]
         shown == [page[p] EXCEPT !.content = file, !.sha = IF file = None THEN @ ELSE file]
     IN  \/ /\ NoFault
            /\ page' = [page EXCEPT ![p] = [shown EXCEPT !.loading = @ /\ InDeploy(d.at)]]
            /\ loads' = [loads EXCEPT ![p] = (@ \ {d}) \cup
                 IF InDeploy(d.at) THEN {[d EXCEPT !.step = "sidecar"]} ELSE {}]
            /\ seen' = IF file # None THEN [seen EXCEPT ![p] = @ \cup {<<d.at, file>>}] ELSE seen
         \/ /\ Fault /\ page' = [page EXCEPT ![p].loading = FALSE]
            /\ Loaded(p, d) /\ UNCHANGED seen
  /\ UNCHANGED <<repo, jobs, clicks, pressed, writes, givenUp, crossed, report>>

\* An error is taken for a sidecar that does not exist.
SidecarAnswers(p, d) ==
  /\ d \in loads[p] /\ d.step = "sidecar" /\ Loaded(p, d)
  /\ \E sha \in {repo[Marks(d.at[2])], None} :
       /\ IF sha = repo[Marks(d.at[2])] THEN NoFault ELSE Fault
       /\ page' = [page EXCEPT ![p].marks = sha, ![p].loading = FALSE]
  /\ UNCHANGED <<repo, jobs, clicks, pressed, writes, seen, givenUp, crossed, report>>

-----------------------------------------------------------------------------
(* The buttons. *)

Doing(p, kinds) == \E j \in jobs[p] : j.kind \in kinds
Removal == {"git", "tenants"}
Ready(p) == page[p].at # None /\ ~page[p].loading
Fresh(q) == [of |-> q, ver |-> writes + 1, reason |-> FALSE]

\* Does what the editor holds describe this policy?
Describes(content, q) == content # None /\ content.of = q

Press(p, kind, l, content, sha, marks, step) ==
  /\ pressed < MaxJobs /\ pressed' = pressed + 1
  /\ jobs' = [jobs EXCEPT ![p] = @ \cup {[kind |-> kind, at |-> l, content |-> content, sha |-> sha,
                marks |-> marks, got |-> None, step |-> step, clean |-> TRUE]}]
  /\ crossed' = IF kind \in {"save", "tenants"} /\ ~Describes(content, l[2])
                THEN crossed \cup {l[2]} ELSE crossed
  /\ UNCHANGED <<repo, loads, clicks, faults, seen, givenUp, report>>

\* New contents, no more than the bound.
Writes == writes < MaxWrites /\ writes' = writes + 1

\* The operator has edited the policy in the editor.
SaveFile(p) ==
  /\ Ready(p) /\ InDeploy(page[p].at) /\ page[p].content # None /\ ~Doing(p, {"save"}) /\ Writes
  /\ LET edited == [page[p].content EXCEPT !.ver = writes + 1]
     IN  /\ page' = [page EXCEPT ![p].content = edited]
         /\ Press(p, "save", page[p].at, edited, page[p].sha, None, "put")

\* The file is deleted, in the staging tree too, which takes back a staged removal.
RemoveFromGit(p) ==
  /\ Ready(p) /\ page[p].sha # None /\ ~Doing(p, Removal) /\ UNCHANGED <<page, writes>>
  /\ Press(p, "git", page[p].at, None, page[p].sha, page[p].marks, "delete")

\* The policy moves to baseline-remove/: a later run removes it from the tenants.
RemoveFromTenants(p) ==
  /\ Ready(p) /\ page[p].sha # None /\ InDeploy(page[p].at) /\ ~Doing(p, Removal)
  /\ UNCHANGED <<page, writes>>
  /\ Press(p, "tenants", page[p].at, page[p].content, page[p].sha, page[p].marks, "check")

\* Fields chosen in the monitor panel, or the last of them taken away.
SaveSidecar(p) ==
  /\ Ready(p) /\ InDeploy(page[p].at) /\ UNCHANGED page
  /\ \/ /\ Writes
        /\ Press(p, "mark", page[p].at, Fresh(page[p].at[2]), None, None, "look")
     \/ /\ page[p].marks # None /\ UNCHANGED writes
        /\ \A j \in jobs[p] : j.kind = "clear" => j.at # page[p].at
        /\ Press(p, "clear", page[p].at, None, None, page[p].marks, "erase")

\* The viewer copies a tenant's policy, with the fields to monitor or without.
CopyToBaseline(p, q) ==
  /\ ~Doing(p, {"copy"}) /\ Writes /\ UNCHANGED page
  /\ \E marks \in {None, Fresh(q)} : Press(p, "copy", Deploy(q), Fresh(q), None, marks, "look")

-----------------------------------------------------------------------------
(* The calls of a handler. *)

Reading == {"check", "look", "find", "reread"}

\* The file that the next call is about.
Target(j) ==
  CASE j.step \in {"check", "stage"} -> Staged(j.at[2])
    [] j.step \in {"delete", "put"} -> j.at
    [] j.step = "reread" /\ j.kind = "save" -> j.at
    [] j.step = "look" /\ j.kind = "copy" -> j.at
    [] OTHER -> Marks(j.at[2])

\* Mutant: a removal reads the sha just before it deletes, as the viewer's copy does.
GivenFresh(j) ==
  CASE j.step = "delete" -> repo[j.at]
    [] j.step \in {"unmark", "erase"} -> j.marks
    [] j.step = "put" /\ j.kind = "save" -> j.sha
    [] OTHER -> j.got

\* The sha that a write gives.
Given(j) ==
  CASE j.step = "delete" -> j.sha
    [] j.step \in {"unmark", "erase"} -> j.marks
    [] j.step = "put" /\ j.kind = "save" -> j.sha
    [] OTHER -> j.got

\* What a write writes, None where it deletes.
Wanted(j) ==
  CASE j.step = "stage" -> Manifest(j.content)
    [] j.step = "put" -> j.content
    [] j.step = "write" -> IF j.kind = "copy" THEN j.marks ELSE j.content
    [] OTHER -> None

\* Mutant: only a sidecar that the page knows of is deleted.
AfterDeleteKnown(j) ==
  IF ~InDeploy(j.at) THEN "done" ELSE IF j.marks # None THEN "unmark" ELSE "done"

\* A removal goes on to the sidecar: the one the page knows of, or it looks for one.
AfterDelete(j) ==
  IF ~InDeploy(j.at) THEN "done" ELSE IF j.marks # None THEN "unmark" ELSE "find"

\* A sidecar that was looked for is written or deleted.
AfterFind(j) ==
  IF j.kind = "copy" /\ j.marks # None THEN "write" ELSE IF j.got # None THEN "drop" ELSE "done"

\* Mutant: the policy is deleted before its removal is staged.
FollowsDeleteFirst(j) ==
  CASE j.step = "check" -> "delete"
    [] j.step = "delete" -> IF j.kind = "tenants" THEN "stage" ELSE AfterDelete(j)
    [] j.step = "stage" -> AfterDelete(j)
    [] j.step = "find" -> AfterFind(j)
    [] j.step = "look" -> IF j.kind = "copy" THEN "put" ELSE "write"
    [] j.step = "put" -> IF j.kind = "save" THEN "reread" ELSE "find"
    [] j.step = "write" /\ j.kind = "mark" -> "reread"
    [] OTHER -> "done"

\* What follows a call that succeeded; "done" is the end.
Follows(j) ==
  CASE j.step = "check" -> "stage"
    [] j.step = "stage" -> "delete"
    [] j.step = "delete" -> AfterDelete(j)
    [] j.step = "find" -> AfterFind(j)
    [] j.step = "look" -> IF j.kind = "copy" THEN "put" ELSE "write"
    [] j.step = "put" -> IF j.kind = "save" THEN "reread" ELSE "find"
    [] j.step = "write" /\ j.kind = "mark" -> "reread"
    [] OTHER -> "done"

\* Where the handler is afterwards.  An error ends it, but not a removal that only had
\* to look for the sidecar.
Goes(j) == [j EXCEPT !.step = Follows(j), !.got = IF j.step \in Reading THEN @ ELSE None]
Fails(j) ==
  IF j.kind \in Removal /\ j.step \in {"find", "drop"}
  THEN [j EXCEPT !.step = "done", !.clean = FALSE] ELSE [j EXCEPT !.step = "failed"]

\* A write overtakes the removals of the policy that are under way.
Overtaken(js, q) ==
  {IF j.at[2] = q /\ j.kind \in Removal THEN [j EXCEPT !.clean = FALSE] ELSE j : j \in js}

\* The handler goes on or ends.  A removal that is done clears the selection; the sha read
\* again after a save or a sidecar's goes to the page, whatever is selected there.
Proceed(p, j, next) ==
  LET q      == IF repo' = repo THEN None ELSE j.at[2]
      ended  == next.step \in {"done", "failed"}
      gone   == j.kind \in Removal /\ next.step = "done"
  IN  /\ jobs' = [r \in Pages |->
           IF r = p THEN Overtaken(jobs[p] \ {j}, q) \cup (IF ended THEN {} ELSE {next})
           ELSE Overtaken(jobs[r], q)]
      /\ report' = [r \in Pages |->
           IF r = p /\ gone THEN [job |-> j, clean |-> next.clean]
           ELSE IF report[r] # None /\ report[r].job.at[2] = q
                THEN [report[r] EXCEPT !.clean = FALSE] ELSE report[r]]
      /\ page' = [page EXCEPT ![p] =
           IF gone THEN [Blank EXCEPT !.loading = page[p].loading]
           ELSE IF j.step = "reread" /\ ended /\ next.step = "done"
                THEN CASE j.kind = "mark" -> [@ EXCEPT !.marks = next.got]
                       [] j.kind # "mark" /\ next.got # None -> [@ EXCEPT !.sha = next.got]
                       [] OTHER -> @
                ELSE @]
      /\ UNCHANGED <<loads, clicks, pressed, writes, crossed>>

\* The file's sha, which an error answer leaves out as a missing file does.  The second
\* reading of a save or of a sidecar takes no notice of an error.
Read(p, j) ==
  /\ j \in jobs[p] /\ j.step \in Reading /\ UNCHANGED repo
  /\ LET file == repo[Target(j)] IN
     \/ /\ NoFault /\ Proceed(p, j, Goes([j EXCEPT !.got = file]))
        /\ seen' = IF j.step = "reread" /\ j.kind = "save" /\ file # None
                   THEN [seen EXCEPT ![p] = @ \cup {<<j.at, file>>}] ELSE seen
     \/ /\ Fault /\ UNCHANGED seen
        /\ \/ Proceed(p, j, Fails(j))
           \/ /\ file # None /\ j.step # "reread"
              /\ Proceed(p, j, Goes([j EXCEPT !.got = None, !.clean = j.kind \notin Removal]))
  /\ UNCHANGED givenUp

\* Does Gitea take a write that gives this sha?
Accepts(l, sha) == repo[l] = sha

\* A removal of q to the tenants is past its staging and has the policy to delete.
HalfMoved(q) ==
  \E r \in Pages : \E j \in jobs[r] : j.kind = "tenants" /\ j.at[2] = q /\ j.step = "delete"

\* A write that is refused is an error; one that is made may have its answer lost.
Write(p, j) ==
  /\ j \in jobs[p] /\ j.step \notin Reading
  /\ LET l == Target(j) IN
     \/ /\ Accepts(l, Given(j)) /\ repo' = [repo EXCEPT ![l] = Wanted(j)]
        /\ seen' = IF j.step = "put" THEN [seen EXCEPT ![p] = @ \cup {<<l, j.content>>}] ELSE seen
        /\ givenUp' = IF j.kind = "git" /\ j.step = "delete" THEN givenUp \cup {l[2]}
                      ELSE IF j.step = "put" /\ ~HalfMoved(l[2]) THEN givenUp \ {l[2]} ELSE givenUp
        /\ \/ NoFault /\ Proceed(p, j, Goes(j))
           \/ Fault /\ Proceed(p, j, Fails(j))
     \/ /\ UNCHANGED <<repo, seen, givenUp>> /\ Proceed(p, j, Fails(j))
        /\ IF Accepts(l, Given(j)) THEN Fault ELSE NoFault

\* The page is loaded anew in the middle of something.
Reload(p) ==
  /\ loads[p] # {} \/ jobs[p] # {}
  /\ Fault /\ page' = [page EXCEPT ![p] = Blank]
  /\ loads' = [loads EXCEPT ![p] = {}] /\ jobs' = [jobs EXCEPT ![p] = {}]
  /\ report' = [report EXCEPT ![p] = None]
  /\ UNCHANGED <<repo, clicks, pressed, writes, seen, givenUp, crossed>>

Next ==
  \E p \in Pages :
    \/ \E l \in Listed : Click(p, l)
    \/ \E d \in loads[p] : FileAnswers(p, d) \/ SidecarAnswers(p, d)
    \/ SaveFile(p) \/ RemoveFromGit(p) \/ RemoveFromTenants(p) \/ SaveSidecar(p)
    \/ \E q \in Policies : CopyToBaseline(p, q)
    \/ \E j \in jobs[p] : Read(p, j) \/ Write(p, j)
    \/ Reload(p)
Spec == Init /\ [][Next]_vars

-----------------------------------------------------------------------------
(* Properties. *)

\* A removal that is reported as done is done, unless somebody else wrote to the policy
\* or an answer in it was an error: the file and its sidecar are gone, and what goes to
\* the tenants is staged (BaselineClient.tsx:514-585).
ReportedIsGone ==
  \A p \in Pages :
    report[p] # None /\ report[p].clean =>
      LET j == report[p].job
          q == j.at[2] IN
      /\ repo[j.at] = None
      /\ InDeploy(j.at) => repo[Marks(q)] = None
      /\ j.kind = "tenants" => repo[Staged(q)] = Manifest(j.content)

\* A policy that was not removed from Git, nor its staged removal cancelled, is in the
\* baseline or staged for removal, whichever call failed and whoever else was at it; a
\* policy in neither stays with the tenants for good.  Written again it counts anew, but
\* not while a removal is between its staging and its deletion.  The file describes the
\* policy, as the removal goes by what the manifest names (Remove-Intune.ps1:101-105),
\* unless the editor held something else when it was saved or staged
\* (BaselineClient.tsx:553-585).
NotForgotten ==
  \A q \in Policies \ givenUp :
    \E l \in {Deploy(q), Staged(q)} : Describes(repo[l], q) \/ (repo[l] # None /\ q \in crossed)

\* Only the viewer replaces contents of a policy that its page has not seen: a save or a
\* removal of the baseline page takes away what it has loaded of that very path, has put
\* there, or found when it read its own save again.  What a staging has written may be
\* the same in two places, and have been seen in the other (BaselineClient.tsx:536-607).
NoEditUnseen ==
  [][\A p \in Pages : \A j \in jobs[p] :
       /\ j.kind # "copy" /\ j.step \in {"put", "delete"}
       /\ repo[j.at] # None /\ repo'[j.at] # repo[j.at] /\ Write(p, j)
       => \E l \in Listed : /\ <<l, repo[j.at]>> \in seen[p]
                            /\ l = j.at \/ repo[j.at] \in {Manifest(repo[j.at]), Manifest(None)}]_vars
=============================================================================
