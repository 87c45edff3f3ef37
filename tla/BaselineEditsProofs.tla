------------------------- MODULE BaselineEditsProofs -------------------------
(* The baseline's invariants, proved for any policies, pages and bounds.      *)
EXTENDS BaselineEdits, TLAPS

Kinds    == {"save", "git", "tenants", "mark", "clear", "copy"}
Steps    == {"check", "stage", "delete", "unmark", "find", "drop", "erase", "look", "put", "write", "reread"}
File     == Contents \cup {None}
Load     == [at : Listed, step : {"file", "sidecar"}]
Window   == [at : Listed \cup {None}, content : File, sha : File, marks : File, loading : BOOLEAN]
Job      == [kind : Kinds, at : Listed, content : File, sha : File, marks : File, got : File,
             step : Steps, clean : BOOLEAN]
Report   == [job : Job, clean : BOOLEAN]

TypeOK ==
  /\ repo \in [Paths -> File] /\ page \in [Pages -> Window]
  /\ loads \in [Pages -> SUBSET Load] /\ jobs \in [Pages -> SUBSET Job]
  /\ clicks \in Nat /\ pressed \in Nat /\ writes \in Nat /\ faults \in Nat
  /\ seen \in [Pages -> SUBSET (Listed \X Contents)] /\ givenUp \subseteq Policies
  /\ report \in [Pages -> {None} \cup Report]

\* The steps that a handler may be at; what it is to write is something.
WellFormed(j) ==
  /\ j.kind = "save"    => InDeploy(j.at) /\ j.content # None /\ j.step \in {"put", "reread"}
  /\ j.kind = "git"     => j.step \in {"delete", "unmark", "find", "drop"}
  /\ j.kind = "tenants" => j.step \in {"check", "stage", "delete", "unmark", "find", "drop"} /\ InDeploy(j.at)
  /\ j.kind = "mark"    => j.content # None /\ j.step \in {"look", "write", "reread"}
  /\ j.kind = "clear"   => j.step = "erase"
  /\ j.kind = "copy"    => /\ InDeploy(j.at) /\ j.content # None
                           /\ j.step \in {"look", "put", "find", "write", "drop"}

InStep == \A p \in Pages : \A j \in jobs[p] : WellFormed(j)

\* What is about to be deleted has been staged.
StagedFirst ==
  \A p \in Pages : \A j \in jobs[p] :
    j.kind = "tenants" /\ j.step = "delete" /\ j.at[2] \notin givenUp => repo[Staged(j.at[2])] # None

\* What a removal that nobody has disturbed has done so far.
DoneSoFar ==
  \A p \in Pages : \A j \in jobs[p] :
    j.kind \in Removal /\ j.clean =>
      /\ j.step \in {"unmark", "find", "drop"} => repo[j.at] = None
      /\ j.kind = "tenants" /\ j.step \notin {"check", "stage"} => repo[Staged(j.at[2])] = Manifest(j.content)

ShaSeen ==
  \A p \in Pages :
    /\ page[p].sha # None => \E l \in Listed : <<l, page[p].sha>> \in seen[p]
    /\ \A j \in jobs[p] : j.kind \in {"save", "git", "tenants"} /\ j.sha # None
                          => \E l \in Listed : <<l, j.sha>> \in seen[p]

\* Contents that are at a path, have been or are about to be put there.
Coming(l, c) ==
  \E p \in Pages : \E j \in jobs[p] :
    j.kind \in {"save", "copy"} /\ j.step \in {"look", "put"} /\ j.at = l /\ j.content = c
Known(l, c) == repo[l] = c \/ (\E p \in Pages : <<l, c>> \in seen[p]) \/ Coming(l, c)
ForRemoval(c) == c \in {Manifest(c), Manifest(None)}

Held(c) == \E p \in Pages : page[p].content = c \/ \E j \in jobs[p] : j.content = c
Numbered == \A c \in Contents : Held(c) \/ (\E l \in Listed : Known(l, c)) => c.ver <= writes

OnePath ==
  \A l, m \in Listed, c \in Contents : Known(l, c) /\ Known(m, c) => l = m \/ ForRemoval(c)

\* A policy that was not given up has a file, whatever it describes.
Somewhere == \A q \in Policies \ givenUp : repo[Deploy(q)] # None \/ repo[Staged(q)] # None

Inv == TypeOK /\ InStep /\ StagedFirst /\ Somewhere /\ DoneSoFar /\ ReportedIsGone
Inv2 == ShaSeen /\ Numbered /\ OnePath

-----------------------------------------------------------------------------
(* Records. *)

Ended == [kind : Kinds, at : Listed, content : File, sha : File, marks : File, got : File,
          step : Steps \cup {"done", "failed"}, clean : BOOLEAN]

\* A manifest is a file, and writing one of it again changes nothing.
LEMMA ManifestFile ==
  ASSUME NEW c \in File
  PROVE  /\ Manifest(c) \in Contents /\ ForRemoval(Manifest(c))
         /\ c # None => Manifest(c).ver = c.ver
         /\ c = None => Manifest(c).ver = 0
  <1>1. CASE c = None
    BY <1>1 DEF Manifest, Contents, ForRemoval
  <1>2. CASE c # None
    <2>1. c \in Contents /\ Manifest(c) = [c EXCEPT !.reason = TRUE]
      BY <1>2 DEF File, Manifest
    <2>2. Manifest(c) \in Contents /\ Manifest(c).ver = c.ver
      BY <2>1 DEF Contents
    <2>3. Manifest(c) # None
      BY <2>2, NoneAssumption
    <2>4. Manifest(Manifest(c)) = Manifest(c)
      BY <2>1, <2>3 DEF Manifest, Contents
    <2>5. QED
      BY <1>2, <2>2, <2>4 DEF ForRemoval
  <1>3. QED
    BY <1>1, <1>2

LEMMA NoFile == None \notin Policies /\ None \notin Listed /\ None \notin Contents
  BY NoneAssumption DEF Paths

LEMMA PathsOf ==
  ASSUME NEW q \in Policies
  PROVE  /\ Deploy(q) \in Listed /\ Staged(q) \in Listed /\ Marks(q) \in Paths
         /\ Deploy(q) \in Paths /\ Staged(q) \in Paths /\ Marks(q) \notin Listed
         /\ Deploy(q) # Staged(q) /\ InDeploy(Deploy(q)) /\ ~InDeploy(Staged(q))
         /\ Deploy(q)[2] = q /\ Staged(q)[2] = q /\ Marks(q)[2] = q
  BY DEF Deploy, Staged, Marks, Listed, Paths, InDeploy

LEMMA ListedPath ==
  ASSUME NEW l \in Listed
  PROVE  /\ l \in Paths /\ l[2] \in Policies
         /\ InDeploy(l) => l = Deploy(l[2])
         /\ ~InDeploy(l) => l = Staged(l[2])
  BY DEF Deploy, Staged, Listed, Paths, InDeploy

\* Where a handler goes after a call.
LEMMA GoesOn ==
  ASSUME NEW j \in Job
  PROVE  /\ Goes(j) \in Ended /\ Goes(j).step = Follows(j) /\ Goes(j).step # "failed"
         /\ Goes(j).kind = j.kind /\ Goes(j).at = j.at /\ Goes(j).content = j.content
         /\ Goes(j).sha = j.sha /\ Goes(j).marks = j.marks /\ Goes(j).clean = j.clean
         /\ Goes(j).got = IF j.step \in Reading THEN j.got ELSE None
  <1>1. Follows(j) \in Steps \cup {"done"}
    BY DEF Follows, AfterDelete, AfterFind, Steps
  <1>2. "failed" \notin Steps \cup {"done"}
    BY DEF Steps
  <1>3. None \in File
    BY DEF File
  <1>4. QED
    BY <1>1, <1>2, <1>3 DEF Goes, Job, Ended

LEMMA FailsSo ==
  ASSUME NEW j \in Job
  PROVE  /\ Fails(j) \in Ended /\ Fails(j).step \in {"done", "failed"}
         /\ Fails(j).kind = j.kind
         /\ Fails(j).step = "done" => j.kind \in Removal /\ ~Fails(j).clean
  BY DEF Fails, Job, Ended

\* A handler with what it has read, or with an error that it takes for no file.
LEMMA WithAnswer ==
  ASSUME NEW j \in Job, NEW file \in File
  PROVE  LET k == [j EXCEPT !.got = file] IN
         /\ k \in Job /\ k.kind = j.kind /\ k.at = j.at /\ k.content = j.content /\ k.sha = j.sha
         /\ k.marks = j.marks /\ k.step = j.step /\ k.clean = j.clean /\ k.got = file
  BY DEF Job

LEMMA WithError ==
  ASSUME NEW j \in Job
  PROVE  LET k == [j EXCEPT !.got = None, !.clean = j.kind \notin Removal] IN
         /\ k \in Job /\ k.kind = j.kind /\ k.at = j.at /\ k.content = j.content /\ k.sha = j.sha
         /\ k.marks = j.marks /\ k.step = j.step /\ k.got = None
         /\ k.clean => j.kind \notin Removal
  <1> DEFINE k(c) == [j EXCEPT !.got = None, !.clean = c]
  <1>1. PICK c \in BOOLEAN : c = (j.kind \notin Removal)
    OBVIOUS
  <1>2. /\ k(c) \in Job /\ k(c).kind = j.kind /\ k(c).at = j.at /\ k(c).content = j.content
        /\ k(c).sha = j.sha /\ k(c).marks = j.marks /\ k(c).step = j.step /\ k(c).got = None
        /\ k(c).clean = c
    BY <1>1 DEF Job, File
  <1> HIDE DEF k
  <1>3. k(j.kind \notin Removal) = k(c)
    BY <1>1
  <1>4. k(c).clean => j.kind \notin Removal
    BY <1>1, <1>2
  <1>5. QED
    BY <1>2, <1>3, <1>4 DEF k

-----------------------------------------------------------------------------
(* What a handler's call does to the handlers and to the pages. *)

Kept(k, m) ==
  /\ m.kind = k.kind /\ m.at = k.at /\ m.content = k.content /\ m.sha = k.sha
  /\ m.marks = k.marks /\ m.got = k.got /\ m.step = k.step /\ (m.clean => k.clean)

LEMMA Overtakes ==
  ASSUME NEW S \in SUBSET Job, NEW q
  PROVE  /\ Overtaken(S, q) \in SUBSET Job
         /\ \A m \in Overtaken(S, q) :
              \E k \in S : Kept(k, m) /\ (k.at[2] = q /\ k.kind \in Removal => ~m.clean)
  <1> SUFFICES ASSUME NEW m \in Overtaken(S, q)
               PROVE  /\ m \in Job
                      /\ \E k \in S : Kept(k, m) /\ (k.at[2] = q /\ k.kind \in Removal => ~m.clean)
    OBVIOUS
  <1>1. PICK k \in S : m = IF k.at[2] = q /\ k.kind \in Removal THEN [k EXCEPT !.clean = FALSE] ELSE k
    BY DEF Overtaken
  <1>2. m \in Job /\ Kept(k, m) /\ (k.at[2] = q /\ k.kind \in Removal => ~m.clean)
    BY <1>1 DEF Job, Kept
  <1>3. QED
    BY <1>2

\* Another handler only loses its good name, if it removes what is written to; the handler
\* itself is replaced by what follows, unless it has ended.
LEMMA HandlersAfter ==
  ASSUME TypeOK, NEW p \in Pages, NEW j \in jobs[p], NEW next \in Ended, Proceed(p, j, next)
  PROVE  /\ jobs' \in [Pages -> SUBSET Job]
         /\ \A r \in Pages : \A m \in jobs'[r] :
              \/ r = p /\ m = next /\ next.step \notin {"done", "failed"}
              \/ \E k \in jobs[r] :
                   /\ Kept(k, m)
                   /\ repo' # repo /\ k.at[2] = j.at[2] /\ k.kind \in Removal => ~m.clean
  <1> DEFINE q    == IF repo' = repo THEN None ELSE j.at[2]
             e    == next.step \in {"done", "failed"}
             J(r) == IF r = p THEN Overtaken(jobs[p] \ {j}, q) \cup (IF e THEN {} ELSE {next})
                     ELSE Overtaken(jobs[r], q)
  <1>1. jobs' = [r \in Pages |-> J(r)]
    BY DEF Proceed
  <1>2. \A r \in Pages : jobs[r] \in SUBSET Job
    BY DEF TypeOK
  <1>3. ~e => next \in Job
    BY DEF Ended, Job
  <1>4. ASSUME NEW r \in Pages, NEW m \in J(r)
        PROVE  /\ m \in Job
               /\ \/ r = p /\ m = next /\ ~e
                  \/ \E k \in jobs[r] :
                       Kept(k, m) /\ (repo' # repo /\ k.at[2] = j.at[2] /\ k.kind \in Removal => ~m.clean)
    <2>1. CASE r = p /\ m \notin Overtaken(jobs[p] \ {j}, q)
      BY <1>3, <1>4, <2>1
    <2>2. CASE r # p \/ m \in Overtaken(jobs[p] \ {j}, q)
      <3>1. PICK S \in SUBSET jobs[r] : m \in Overtaken(S, q)
        BY <1>4, <2>2
      <3>2. S \in SUBSET Job
        BY <1>2
      <3>3. /\ m \in Job
            /\ \E k \in S : Kept(k, m) /\ (k.at[2] = q /\ k.kind \in Removal => ~m.clean)
        BY <3>1, <3>2, Overtakes
      <3>4. QED
        BY <3>3
    <2>3. QED
      BY <2>1, <2>2
  <1>5. \A r \in Pages : J(r) \in SUBSET Job
    BY <1>4
  <1> HIDE DEF J, e
  <1>6. jobs' \in [Pages -> SUBSET Job]
    BY <1>1, <1>5
  <1>7. \A r \in Pages : jobs'[r] = J(r)
    BY <1>1
  <1>8. QED
    BY <1>4, <1>6, <1>7 DEF e

\* A report is about the handler that has ended, and is overtaken as a removal is.
LEMMA ReportsAfter ==
  ASSUME TypeOK, NEW p \in Pages, NEW j \in jobs[p], NEW next \in Ended, Proceed(p, j, next)
  PROVE  /\ report' \in [Pages -> {None} \cup Report]
         /\ \A r \in Pages :
              \/ /\ r = p /\ j.kind \in Removal /\ next.step = "done"
                 /\ report'[r].job = j /\ report'[r].clean = next.clean
              \/ report'[r] = report[r] /\ (repo' # repo /\ report[r] # None => report[r].job.at[2] # j.at[2])
              \/ report[r] # None /\ ~report'[r].clean
  <1> DEFINE q    == IF repo' = repo THEN None ELSE j.at[2]
             gone == j.kind \in Removal /\ next.step = "done"
             R(r) == IF r = p /\ gone THEN [job |-> j, clean |-> next.clean]
                     ELSE IF report[r] # None /\ report[r].job.at[2] = q
                          THEN [report[r] EXCEPT !.clean = FALSE] ELSE report[r]
  <1>1. report' = [r \in Pages |-> R(r)]
    BY DEF Proceed
  <1>2. j \in Job /\ next.clean \in BOOLEAN /\ report \in [Pages -> {None} \cup Report]
    BY DEF TypeOK, Ended
  <1>3. ASSUME NEW r \in Pages
        PROVE  /\ R(r) \in {None} \cup Report
               /\ \/ /\ r = p /\ j.kind \in Removal /\ next.step = "done"
                     /\ R(r).job = j /\ R(r).clean = next.clean
                  \/ R(r) = report[r] /\ (repo' # repo /\ report[r] # None => report[r].job.at[2] # j.at[2])
                  \/ report[r] # None /\ ~R(r).clean
    <2>1. CASE r = p /\ gone
      BY <1>2, <2>1 DEF Report
    <2>2. CASE ~(r = p /\ gone) /\ report[r] # None /\ report[r].job.at[2] = q
      <3>1. report[r] \in Report
        BY <1>2, <2>2
      <3>2. R(r) = [report[r] EXCEPT !.clean = FALSE]
        BY <2>2
      <3>3. R(r) \in Report /\ ~R(r).clean
        BY <3>1, <3>2 DEF Report
      <3>4. QED
        BY <2>2, <3>3
    <2>3. CASE ~(r = p /\ gone) /\ ~(report[r] # None /\ report[r].job.at[2] = q)
      BY <1>2, <2>3
    <2>4. QED
      BY <2>1, <2>2, <2>3
  <1> HIDE DEF R
  <1>4. QED
    BY <1>1, <1>3

\* The page is cleared, or takes a sha that its handler has read again.
LEMMA PagesAfter ==
  ASSUME TypeOK, NEW p \in Pages, NEW j \in jobs[p], NEW next \in Ended, Proceed(p, j, next)
  PROVE  /\ page' \in [Pages -> Window]
         /\ \A r \in Pages :
              /\ page'[r].content \in {None, page[r].content}
              /\ \/ page'[r].sha \in {None, page[r].sha}
                 \/ /\ r = p /\ page'[r].sha = next.got
                    /\ j.step = "reread" /\ next.step = "done" /\ j.kind # "mark"
  <1> DEFINE w == page[p]
             v == IF j.kind \in Removal /\ next.step = "done" THEN [Blank EXCEPT !.loading = w.loading]
                  ELSE IF j.step = "reread" /\ next.step \in {"done", "failed"} /\ next.step = "done"
                       THEN CASE j.kind = "mark" -> [w EXCEPT !.marks = next.got]
                              [] j.kind # "mark" /\ next.got # None -> [w EXCEPT !.sha = next.got]
                              [] OTHER -> w
                       ELSE w
  <1>1. page' = [page EXCEPT ![p] = v]
    BY DEF Proceed
  <1>2. w \in Window /\ next.got \in File /\ j \in Job
    BY DEF TypeOK, Ended
  <1>3. /\ v \in Window /\ v.content \in {None, w.content}
        /\ \/ v.sha \in {None, w.sha}
           \/ v.sha = next.got /\ j.step = "reread" /\ next.step = "done" /\ j.kind # "mark"
    <2>1. CASE j.kind \in Removal /\ next.step = "done"
      <3>1. v = [Blank EXCEPT !.loading = w.loading]
        BY <2>1
      <3>2. QED
        BY <1>2, <3>1 DEF Blank, Window, File
    <2>2. CASE ~(j.kind \in Removal /\ next.step = "done")
      <3>1. \/ v = w
            \/ j.kind = "mark" /\ v = [w EXCEPT !.marks = next.got]
            \/ /\ v = [w EXCEPT !.sha = next.got]
               /\ j.step = "reread" /\ next.step = "done" /\ j.kind # "mark"
        <4>1. CASE ~(j.step = "reread" /\ next.step = "done")
          BY <2>2, <4>1
        <4>2. CASE j.step = "reread" /\ next.step = "done" /\ j.kind = "mark"
          BY <2>2, <4>2
        <4>3. CASE j.step = "reread" /\ next.step = "done" /\ j.kind # "mark" /\ next.got # None
          BY <2>2, <4>3
        <4>4. CASE j.step = "reread" /\ next.step = "done" /\ j.kind # "mark" /\ next.got = None
          BY <2>2, <4>4
        <4>5. QED
          BY <4>1, <4>2, <4>3, <4>4
      <3> HIDE DEF v
      <3>2. QED
        BY <1>2, <3>1 DEF Window
    <2>3. QED
      BY <2>1, <2>2
  <1> HIDE DEF v
  <1>4. page \in [Pages -> Window]
    BY DEF TypeOK
  <1>5. page' \in [Pages -> Window] /\ \A r \in Pages : page'[r] = IF r = p THEN v ELSE page[r]
    BY <1>1, <1>3, <1>4
  <1>6. ASSUME NEW r \in Pages
        PROVE  /\ page'[r].content \in {None, page[r].content}
               /\ \/ page'[r].sha \in {None, page[r].sha}
                  \/ /\ r = p /\ page'[r].sha = next.got
                     /\ j.step = "reread" /\ next.step = "done" /\ j.kind # "mark"
    <2>1. CASE r = p
      BY <1>3, <1>5, <2>1
    <2>2. CASE r # p
      BY <1>5, <2>2
    <2>3. QED
      BY <2>1, <2>2
  <1>7. QED
    BY <1>5, <1>6

-----------------------------------------------------------------------------
(* Types, and which step a handler of each kind may be at. *)

Started(kind, l, content, sha, marks, step) ==
  [kind |-> kind, at |-> l, content |-> content, sha |-> sha, marks |-> marks, got |-> None,
   step |-> step, clean |-> TRUE]

LEMMA Presses ==
  ASSUME TypeOK, NEW p \in Pages, NEW kind \in Kinds, NEW l \in Listed, NEW content \in File,
         NEW sha \in File, NEW marks \in File, NEW step \in Steps,
         Press(p, kind, l, content, sha, marks, step)
  PROVE  LET new == Started(kind, l, content, sha, marks, step) IN
         /\ pressed' \in Nat /\ jobs' \in [Pages -> SUBSET Job]
         /\ \A r \in Pages : \A m \in jobs'[r] : m \in jobs[r] \/ (r = p /\ m = new)
         /\ UNCHANGED <<repo, loads, clicks, faults, seen, givenUp, report>>
  <1> DEFINE new == Started(kind, l, content, sha, marks, step)
  <1>1. new \in Job
    BY DEF Started, Job, File
  <1>2. jobs' = [jobs EXCEPT ![p] = @ \cup {new}]
    BY DEF Press, Started
  <1>3. pressed' \in Nat /\ UNCHANGED <<repo, loads, clicks, faults, seen, givenUp, report>>
    BY DEF Press, TypeOK
  <1> HIDE DEF new
  <1>4. jobs \in [Pages -> SUBSET Job]
    BY DEF TypeOK
  <1>5. /\ jobs' \in [Pages -> SUBSET Job]
        /\ \A r \in Pages : \A m \in jobs'[r] : m \in jobs[r] \/ (r = p /\ m = new)
    <2>1. jobs[p] \cup {new} \in SUBSET Job
      BY <1>1, <1>4
    <2>2. /\ jobs' \in [Pages -> SUBSET Job]
          /\ \A r \in Pages : jobs'[r] = IF r = p THEN jobs[p] \cup {new} ELSE jobs[r]
      BY <1>2, <1>4, <2>1
    <2>3. ASSUME NEW r \in Pages, NEW m \in jobs'[r]
          PROVE  m \in jobs[r] \/ (r = p /\ m = new)
      <3>1. CASE r = p
        BY <2>2, <3>1
      <3>2. CASE r # p
        BY <2>2, <3>2
      <3>3. QED
        BY <3>1, <3>2
    <2>4. QED
      BY <2>2, <2>3
  <1>6. QED
    BY <1>3, <1>5 DEF new

LEMMA FaultTypes ==
  ASSUME faults \in Nat, Fault \/ NoFault
  PROVE  faults' \in Nat
  BY DEF Fault, NoFault

LEMMA ReadIs ==
  ASSUME TypeOK, NEW p \in Pages, NEW j \in jobs[p], Read(p, j)
  PROVE  \E next \in Ended :
           /\ Proceed(p, j, next) /\ UNCHANGED <<repo, givenUp>> /\ (Fault \/ NoFault)
           /\ next.kind = j.kind
           /\ \/ /\ next.step = Follows([j EXCEPT !.got = next.got]) /\ next.at = j.at
                 /\ next.content = j.content /\ next.sha = j.sha /\ next.marks = j.marks
                 /\ j.kind \in Removal /\ next.clean => j.clean /\ next.got = repo[Target(j)]
                 /\ next.got \in {None, repo[Target(j)]}
                 /\ \/ UNCHANGED seen /\ ~(j.step = "reread" /\ j.kind = "save" /\ next.got # None)
                    \/ /\ next.got # None /\ j.step = "reread" /\ j.kind = "save"
                       /\ seen' = [seen EXCEPT ![p] = @ \cup {<<j.at, next.got>>}]
              \/ /\ next.step \in {"done", "failed"} /\ UNCHANGED seen
                 /\ next.step = "done" => j.kind \in Removal /\ ~next.clean
  <1> DEFINE file == repo[Target(j)]
             a    == [j EXCEPT !.got = file]
             b    == [j EXCEPT !.got = None, !.clean = j.kind \notin Removal]
  <1>1. j \in Job /\ j.step \in Reading
    BY DEF TypeOK, Read
  <1>2. Target(j) \in Paths
    <2>1. j.at \in Listed /\ j.at[2] \in Policies /\ j.at \in Paths
      BY <1>1, ListedPath DEF Job
    <2>2. Target(j) \in {j.at, Staged(j.at[2]), Marks(j.at[2])}
      BY <1>1 DEF Target, Reading
    <2>3. QED
      BY <2>1, <2>2, PathsOf
  <1>3. file \in File
    BY <1>2 DEF TypeOK
  <1>4. /\ a \in Job /\ a.step = j.step /\ a.got = file /\ a.clean = j.clean
        /\ a.kind = j.kind /\ a.at = j.at /\ a.content = j.content /\ a.sha = j.sha /\ a.marks = j.marks
    BY <1>1, <1>3, WithAnswer
  <1>99. /\ b \in Job /\ b.step = j.step /\ b.got = None /\ (b.clean => j.kind \notin Removal)
         /\ b.kind = j.kind /\ b.at = j.at /\ b.content = j.content /\ b.sha = j.sha /\ b.marks = j.marks
    BY <1>1, WithError
  <1>5. \/ /\ NoFault /\ Proceed(p, j, Goes(a))
           /\ seen' = IF j.step = "reread" /\ j.kind = "save" /\ file # None
                      THEN [seen EXCEPT ![p] = @ \cup {<<j.at, file>>}] ELSE seen
        \/ /\ Fault /\ UNCHANGED seen
           /\ \/ Proceed(p, j, Fails(j))
              \/ file # None /\ j.step # "reread" /\ Proceed(p, j, Goes(b))
    BY DEF Read
  <1>6. UNCHANGED <<repo, givenUp>>
    BY DEF Read
  <1> HIDE DEF a, b, file
  <1>7. CASE /\ NoFault /\ Proceed(p, j, Goes(a))
             /\ seen' = IF j.step = "reread" /\ j.kind = "save" /\ file # None
                        THEN [seen EXCEPT ![p] = @ \cup {<<j.at, file>>}] ELSE seen
    <2>1. /\ Goes(a) \in Ended /\ Goes(a).kind = j.kind /\ Goes(a).at = j.at
          /\ Goes(a).content = j.content /\ Goes(a).sha = j.sha /\ Goes(a).marks = j.marks
          /\ Goes(a).clean = j.clean /\ Goes(a).got = file /\ Goes(a).step = Follows(a)
      BY <1>1, <1>4, GoesOn
    <2>2. Goes(a).step = Follows([j EXCEPT !.got = Goes(a).got])
      BY <2>1 DEF a
    <2>3. QED
      BY <1>6, <1>7, <2>1, <2>2 DEF file
  <1>8. CASE Fault /\ UNCHANGED seen /\ Proceed(p, j, Fails(j))
    <2>1. /\ Fails(j) \in Ended /\ Fails(j).kind = j.kind /\ Fails(j).step \in {"done", "failed"}
          /\ Fails(j).step = "done" => j.kind \in Removal /\ ~Fails(j).clean
      BY <1>1, FailsSo
    <2>2. QED
      BY <1>6, <1>8, <2>1
  <1>9. CASE Fault /\ UNCHANGED seen /\ file # None /\ j.step # "reread" /\ Proceed(p, j, Goes(b))
    <2>1. /\ Goes(b) \in Ended /\ Goes(b).kind = j.kind /\ Goes(b).at = j.at
          /\ Goes(b).content = j.content /\ Goes(b).sha = j.sha /\ Goes(b).marks = j.marks
          /\ (Goes(b).clean => j.kind \notin Removal) /\ Goes(b).got = None /\ Goes(b).step = Follows(b)
      BY <1>1, <1>99, GoesOn
    <2>2. Follows(b) = Follows([j EXCEPT !.got = None])
      <3>1. [j EXCEPT !.got = None] \in Job
        BY <1>1 DEF Job, File
      <3>2. PICK k : k = [j EXCEPT !.got = None]
        OBVIOUS
      <3>3. /\ k.kind = b.kind /\ k.at = b.at /\ k.marks = b.marks /\ k.got = b.got /\ k.step = b.step
        BY <1>1, <1>99, <3>2 DEF Job
      <3>4. QED
        BY <3>2, <3>3 DEF Follows, AfterDelete, AfterFind
    <2>3. Goes(b).step = Follows([j EXCEPT !.got = Goes(b).got])
      BY <2>1, <2>2
    <2>4. QED
      BY <1>6, <1>9, <2>1, <2>3 DEF file
  <1>10. QED
    BY <1>5, <1>7, <1>8, <1>9

Made(p, j) ==
  /\ repo[Target(j)] = Given(j) /\ repo' = [repo EXCEPT ![Target(j)] = Wanted(j)]
  /\ seen' = IF j.step = "put" THEN [seen EXCEPT ![p] = @ \cup {<<Target(j), j.content>>}] ELSE seen
  /\ givenUp' = IF j.kind = "git" /\ j.step = "delete" THEN givenUp \cup {Target(j)[2]}
                ELSE IF j.step = "put" /\ ~HalfMoved(Target(j)[2]) THEN givenUp \ {Target(j)[2]} ELSE givenUp

LEMMA Targets ==
  ASSUME NEW j \in Job
  PROVE  /\ Target(j) \in Paths /\ Target(j)[2] = j.at[2] /\ j.at[2] \in Policies
         /\ j.at \in Paths /\ Wanted(j) \in File
  <1>1. j.at \in Listed /\ j.at[2] \in Policies /\ j.at \in Paths
    BY ListedPath DEF Job
  <1>2. Target(j) \in {j.at, Staged(j.at[2]), Marks(j.at[2])}
    BY DEF Target
  <1>3. Wanted(j) \in {Manifest(j.content), j.content, j.marks, None}
    BY DEF Wanted
  <1>4. j.content \in File /\ j.marks \in File /\ None \in File
    BY DEF Job, File
  <1>5. Manifest(j.content) \in File
    BY <1>4, ManifestFile DEF File
  <1>6. QED
    BY <1>1, <1>2, <1>3, <1>4, <1>5, PathsOf

LEMMA WriteIs ==
  ASSUME TypeOK, NEW p \in Pages, NEW j \in jobs[p], Write(p, j)
  PROVE  \E next \in Ended :
           /\ Proceed(p, j, next) /\ (Fault \/ NoFault) /\ next.kind = j.kind /\ j.step \notin Reading
           /\ \/ /\ Made(p, j)
                 /\ next.step = Follows(j) /\ next.at = j.at /\ next.content = j.content
                 /\ next.sha = j.sha /\ next.marks = j.marks /\ next.clean = j.clean /\ next.got = None
              \/ /\ Made(p, j) \/ UNCHANGED <<repo, seen, givenUp>>
                 /\ next.step \in {"done", "failed"}
                 /\ next.step = "done" => j.kind \in Removal /\ ~next.clean
  <1>1. j \in Job /\ j.step \notin Reading
    BY DEF TypeOK, Write
  <1>2. \/ Made(p, j) /\ NoFault /\ Proceed(p, j, Goes(j))
        \/ Made(p, j) /\ Fault /\ Proceed(p, j, Fails(j))
        \/ UNCHANGED <<repo, seen, givenUp>> /\ Proceed(p, j, Fails(j)) /\ (Fault \/ NoFault)
    BY DEF Write, Made, Accepts
  <1>3. /\ Goes(j) \in Ended /\ Goes(j).step = Follows(j) /\ Goes(j).kind = j.kind /\ Goes(j).at = j.at
        /\ Goes(j).content = j.content /\ Goes(j).sha = j.sha /\ Goes(j).marks = j.marks
        /\ Goes(j).clean = j.clean /\ Goes(j).got = None
    BY <1>1, GoesOn
  <1>4. /\ Fails(j) \in Ended /\ Fails(j).kind = j.kind /\ Fails(j).step \in {"done", "failed"}
        /\ Fails(j).step = "done" => j.kind \in Removal /\ ~Fails(j).clean
    BY <1>1, FailsSo
  <1>5. CASE Made(p, j) /\ NoFault /\ Proceed(p, j, Goes(j))
    BY <1>1, <1>3, <1>5
  <1>6. CASE /\ Made(p, j) \/ UNCHANGED <<repo, seen, givenUp>>
             /\ Proceed(p, j, Fails(j)) /\ (Fault \/ NoFault)
    BY <1>1, <1>4, <1>6
  <1>7. QED
    BY <1>2, <1>5, <1>6

LEMMA InitTypes == Init => TypeOK
  <1> SUFFICES ASSUME Init PROVE TypeOK
    OBVIOUS
  <1>1. \A q \in Policies : Original(q) \in File
    BY DEF Original, Contents, File
  <1>2. \A l \in Paths : l[2] \in Policies
    BY DEF Paths, Listed
  <1>3. None \in File
    BY DEF File
  <1>4. repo \in [Paths -> File]
    <2>1. PICK marked \in SUBSET Policies :
            repo = [l \in Paths |-> IF InDeploy(l) \/ (l[1] = "sidecar" /\ l[2] \in marked)
                                    THEN Original(l[2]) ELSE None]
      BY DEF Init
    <2>2. \A l \in Paths : (IF InDeploy(l) \/ (l[1] = "sidecar" /\ l[2] \in marked)
                            THEN Original(l[2]) ELSE None) \in File
      BY <1>1, <1>2, <1>3
    <2>3. QED
      BY <2>1, <2>2
  <1>5. Blank \in Window
    BY DEF Blank, Window, File
  <1>6. page \in [Pages -> Window]
    BY <1>5 DEF Init
  <1>7. QED
    BY <1>4, <1>6 DEF Init, TypeOK

\* One window or one set of loads becomes another.
LEMMA PageTypes ==
  ASSUME TypeOK, NEW p \in Pages, NEW w \in Window, page' = [page EXCEPT ![p] = w]
  PROVE  page' \in [Pages -> Window] /\ \A r \in Pages : page'[r] = IF r = p THEN w ELSE page[r]
  BY DEF TypeOK

LEMMA LoadTypes ==
  ASSUME TypeOK, NEW p \in Pages, NEW L \in SUBSET Load, loads' = [loads EXCEPT ![p] = L]
  PROVE  loads' \in [Pages -> SUBSET Load]
  BY DEF TypeOK

LEMMA SeenTypes ==
  ASSUME TypeOK, NEW p \in Pages, NEW l \in Listed, NEW c \in Contents,
         seen' = [seen EXCEPT ![p] = @ \cup {<<l, c>>}]
  PROVE  /\ seen' \in [Pages -> SUBSET (Listed \X Contents)] /\ <<l, c>> \in seen'[p]
         /\ \A r \in Pages : seen[r] \subseteq seen'[r]
         /\ \A r \in Pages : \A x \in seen'[r] : x \in seen[r] \/ x = <<l, c>>
  <1>1. seen \in [Pages -> SUBSET (Listed \X Contents)]
    BY DEF TypeOK
  <1>2. seen[p] \cup {<<l, c>>} \in SUBSET (Listed \X Contents)
    BY <1>1
  <1>3. \A r \in Pages : seen'[r] = IF r = p THEN seen[p] \cup {<<l, c>>} ELSE seen[r]
    BY <1>1
  <1>4. seen' \in [Pages -> SUBSET (Listed \X Contents)]
    BY <1>1, <1>2
  <1>5. ASSUME NEW r \in Pages
        PROVE  seen[r] \subseteq seen'[r] /\ \A x \in seen'[r] : x \in seen[r] \/ x = <<l, c>>
    <2>1. CASE r = p
      BY <1>3, <2>1
    <2>2. CASE r # p
      BY <1>3, <2>2
    <2>3. QED
      BY <2>1, <2>2
  <1>6. <<l, c>> \in seen'[p]
    BY <1>3
  <1>7. QED
    BY <1>4, <1>5, <1>6

LEMMA Edited ==
  ASSUME TypeOK, NEW c \in Contents
  PROVE  /\ [c EXCEPT !.ver = writes + 1] \in Contents
         /\ [c EXCEPT !.ver = writes + 1].ver = writes + 1
  BY DEF TypeOK, Contents

LEMMA FreshFile ==
  ASSUME TypeOK, NEW q \in Policies
  PROVE  Fresh(q) \in Contents /\ Fresh(q).ver = writes + 1
  BY DEF TypeOK, Contents, Fresh

LEMMA WindowOf ==
  ASSUME TypeOK, NEW p \in Pages
  PROVE  /\ page[p] \in Window /\ page[p].at \in Listed \cup {None} /\ page[p].content \in File
         /\ page[p].sha \in File /\ page[p].marks \in File /\ page[p].loading \in BOOLEAN
         /\ page[p].at # None => page[p].at \in Listed /\ page[p].at[2] \in Policies
  BY ListedPath DEF TypeOK, Window

LEMMA ClickTypes ==
  ASSUME TypeOK, NEW p \in Pages, NEW l \in Listed, Click(p, l)
  PROVE  TypeOK'
  <1>1. [Blank EXCEPT !.at = l, !.loading = TRUE] \in Window
    BY DEF Blank, Window, File
  <1>2. page' \in [Pages -> Window]
    BY <1>1, PageTypes DEF Click
  <1>3. loads[p] \cup {[at |-> l, step |-> "file"]} \in SUBSET Load
    BY DEF TypeOK, Load
  <1>4. loads' \in [Pages -> SUBSET Load]
    BY <1>3, LoadTypes DEF Click
  <1>5. report' \in [Pages -> {None} \cup Report]
    BY DEF Click, TypeOK
  <1>6. QED
    BY <1>2, <1>4, <1>5 DEF Click, TypeOK

LEMMA FileAnswersTypes ==
  ASSUME TypeOK, NEW p \in Pages, NEW d \in loads[p], FileAnswers(p, d)
  PROVE  /\ TypeOK'
         /\ \A r \in Pages : \/ page'[r].content = page[r].content /\ page'[r].sha = page[r].sha
                             \/ /\ page'[r].content = repo[d.at]
                                /\ \/ repo[d.at] = None /\ page'[r].sha = page[r].sha
                                   \/ /\ repo[d.at] # None /\ page'[r].sha = repo[d.at]
                                      /\ <<d.at, repo[d.at]>> \in seen'[r]
         /\ \A r \in Pages : seen[r] \subseteq seen'[r]
         /\ \A r \in Pages : \A x \in seen'[r] : x \in seen[r] \/ (repo[d.at] # None /\ x = <<d.at, repo[d.at]>>)
  <1> DEFINE file == repo[d.at]
             w    == page[p]
             v    == [[w EXCEPT !.content = file, !.sha = IF file = None THEN @ ELSE file]
                         EXCEPT !.loading = @ /\ InDeploy(d.at)]
             u    == [w EXCEPT !.loading = FALSE]
             next == IF InDeploy(d.at) THEN {[d EXCEPT !.step = "sidecar"]} ELSE {}
  <1>1. d \in Load /\ d.at \in Listed /\ d.at \in Paths
    BY ListedPath DEF TypeOK, Load
  <1>2. file \in File /\ w \in Window
    BY <1>1 DEF TypeOK
  <1>3. v \in Window /\ v.content = file /\ v.sha = IF file = None THEN w.sha ELSE file
    <2>1. PICK b \in BOOLEAN : b = (w.loading /\ InDeploy(d.at))
      OBVIOUS
    <2>2. PICK s \in File : s = IF file = None THEN w.sha ELSE file
      BY <1>2 DEF Window
    <2> DEFINE x == [w EXCEPT !.content = file, !.sha = s]
    <2>3. x \in Window /\ x.content = file /\ x.sha = s /\ x.loading = w.loading
      BY <1>2, <2>2 DEF Window
    <2>4. x = [w EXCEPT !.content = file, !.sha = IF file = None THEN @ ELSE file]
      BY <2>2
    <2> HIDE DEF x
    <2>5. v = [x EXCEPT !.loading = b]
      BY <2>1, <2>3, <2>4
    <2>6. [x EXCEPT !.loading = b] \in Window
      BY <2>1, <2>3 DEF Window
    <2>7. [x EXCEPT !.loading = b].content = x.content /\ [x EXCEPT !.loading = b].sha = x.sha
      BY <2>3 DEF Window
    <2> HIDE DEF v
    <2>8. QED
      BY <2>2, <2>3, <2>5, <2>6, <2>7
  <1>4. u \in Window /\ u.content = w.content /\ u.sha = w.sha
    BY <1>2 DEF Window
  <1>5. next \in SUBSET Load /\ loads[p] \ {d} \in SUBSET Load
    <2>1. [d EXCEPT !.step = "sidecar"] \in Load
      BY <1>1 DEF Load
    <2>2. QED
      BY <2>1 DEF TypeOK
  <1>6. \/ /\ NoFault /\ page' = [page EXCEPT ![p] = v]
           /\ loads' = [loads EXCEPT ![p] = (loads[p] \ {d}) \cup next]
           /\ seen' = IF file # None THEN [seen EXCEPT ![p] = @ \cup {<<d.at, file>>}] ELSE seen
        \/ /\ Fault /\ page' = [page EXCEPT ![p] = u]
           /\ loads' = [loads EXCEPT ![p] = loads[p] \ {d}] /\ UNCHANGED seen
    BY DEF FileAnswers, Loaded
  <1>7. UNCHANGED <<repo, jobs, clicks, pressed, writes, givenUp, report>>
    BY DEF FileAnswers
  <1> HIDE DEF v, u, next, file, w
  <1>8. loads' \in [Pages -> SUBSET Load]
    <2>1. (loads[p] \ {d}) \cup next \in SUBSET Load
      BY <1>5
    <2>2. QED
      BY <1>5, <1>6, <2>1, LoadTypes
  <1>9. faults' \in Nat
    BY <1>6, FaultTypes DEF TypeOK
  <1>10. /\ seen' \in [Pages -> SUBSET (Listed \X Contents)]
         /\ \A r \in Pages : seen[r] \subseteq seen'[r]
         /\ \A r \in Pages : \A x \in seen'[r] : x \in seen[r] \/ (file # None /\ x = <<d.at, file>>)
    <2>1. CASE seen' = seen
      BY <2>1 DEF TypeOK
    <2>2. CASE file # None /\ seen' = [seen EXCEPT ![p] = @ \cup {<<d.at, file>>}]
      <3>1. file \in Contents
        BY <1>2, <2>2 DEF File
      <3>2. QED
        BY <1>1, <2>2, <3>1, SeenTypes
    <2>3. QED
      BY <1>6, <2>1, <2>2
  <1>11. /\ page' \in [Pages -> Window]
         /\ \A r \in Pages : \/ page'[r].content = page[r].content /\ page'[r].sha = page[r].sha
                             \/ /\ page'[r].content = file
                                /\ \/ file = None /\ page'[r].sha = page[r].sha
                                   \/ /\ file # None /\ page'[r].sha = file
                                      /\ <<d.at, file>> \in seen'[r]
    <2>1. CASE page' = [page EXCEPT ![p] = u]
      BY <1>4, <2>1, PageTypes DEF w
    <2>2. CASE /\ page' = [page EXCEPT ![p] = v]
               /\ seen' = IF file # None THEN [seen EXCEPT ![p] = @ \cup {<<d.at, file>>}] ELSE seen
      <3>1. page' \in [Pages -> Window] /\ \A r \in Pages : page'[r] = IF r = p THEN v ELSE page[r]
        BY <1>3, <2>2, PageTypes
      <3>2. file # None => <<d.at, file>> \in seen'[p]
        <4>1. CASE file # None
          <5>1. file \in Contents
            BY <1>2, <4>1 DEF File
          <5>2. QED
            BY <1>1, <2>2, <4>1, <5>1, SeenTypes
        <4>2. QED
          BY <4>1
      <3>3. ASSUME NEW r \in Pages
            PROVE  \/ page'[r].content = page[r].content /\ page'[r].sha = page[r].sha
                   \/ /\ page'[r].content = file
                      /\ \/ file = None /\ page'[r].sha = page[r].sha
                         \/ file # None /\ page'[r].sha = file /\ <<d.at, file>> \in seen'[r]
        <4>1. CASE r = p
          BY <1>3, <3>1, <3>2, <4>1 DEF w
        <4>2. CASE r # p
          BY <3>1, <4>2
        <4>3. QED
          BY <4>1, <4>2
      <3>4. QED
        BY <3>1, <3>3
    <2>3. QED
      BY <1>6, <2>1, <2>2
  <1>12. TypeOK'
    BY <1>7, <1>8, <1>9, <1>10, <1>11 DEF TypeOK
  <1>13. QED
    BY <1>10, <1>11, <1>12 DEF file

LEMMA SidecarAnswersTypes ==
  ASSUME TypeOK, NEW p \in Pages, NEW d \in loads[p], SidecarAnswers(p, d)
  PROVE  /\ TypeOK'
         /\ \A r \in Pages : page'[r].content = page[r].content /\ page'[r].sha = page[r].sha
  <1>1. d \in Load /\ d.at \in Listed /\ d.at[2] \in Policies
    BY ListedPath DEF TypeOK, Load
  <1>2. repo[Marks(d.at[2])] \in File /\ None \in File
    BY <1>1, PathsOf DEF TypeOK, File
  <1>3. PICK sha \in File :
          /\ Fault \/ NoFault
          /\ page' = [page EXCEPT ![p].marks = sha, ![p].loading = FALSE]
    BY <1>2 DEF SidecarAnswers
  <1> DEFINE v == [page[p] EXCEPT !.marks = sha, !.loading = FALSE]
  <1>4. v \in Window /\ v.content = page[p].content /\ v.sha = page[p].sha
    BY <1>3, WindowOf DEF Window
  <1>5. page' = [page EXCEPT ![p] = v]
    BY <1>3 DEF TypeOK
  <1> HIDE DEF v
  <1>6. page' \in [Pages -> Window] /\ \A r \in Pages : page'[r] = IF r = p THEN v ELSE page[r]
    BY <1>4, <1>5, PageTypes
  <1>7. loads[p] \ {d} \in SUBSET Load
    BY DEF TypeOK
  <1>8. loads' \in [Pages -> SUBSET Load]
    BY <1>7, LoadTypes DEF SidecarAnswers, Loaded
  <1>9. faults' \in Nat
    BY <1>3, FaultTypes DEF TypeOK
  <1>10. TypeOK'
    BY <1>6, <1>8, <1>9 DEF TypeOK, SidecarAnswers
  <1>11. \A r \in Pages : page'[r].content = page[r].content /\ page'[r].sha = page[r].sha
    BY <1>4, <1>6
  <1>12. QED
    BY <1>10, <1>11

\* A button starts a handler with what the page holds, at the first of its steps.
Pressed(p, new) ==
  /\ new \in Job /\ WellFormed(new) /\ new.step \notin {"unmark", "find", "drop"}
  /\ new.kind = "tenants" => new.step = "check"
  /\ \A r \in Pages : \A m \in jobs'[r] : m \in jobs[r] \/ (r = p /\ m = new)
  /\ new.kind \in {"save", "git", "tenants"} => new.sha = page[p].sha
  /\ writes' \in {writes, writes + 1}
  /\ \/ new.kind \notin {"save", "copy"} /\ new.content \in {None, page[p].content}
     \/ new.content # None /\ new.content.ver = writes + 1 /\ writes' = writes + 1
  /\ \A r \in Pages : /\ page'[r].sha = page[r].sha
                      /\ \/ page'[r].content = page[r].content
                         \/ r = p /\ page'[r].content = new.content

Button(p) == \/ SaveFile(p) \/ RemoveFromGit(p) \/ RemoveFromTenants(p) \/ SaveSidecar(p)
             \/ \E q \in Policies : CopyToBaseline(p, q)

LEMMA ButtonIs ==
  ASSUME TypeOK, NEW p \in Pages, Button(p)
  PROVE  /\ TypeOK' /\ UNCHANGED <<repo, loads, seen, givenUp, report>>
         /\ \E new \in Job : Pressed(p, new)
  <1> USE DEF File
  <1>1. SUFFICES ASSUME NEW kind \in Kinds, NEW l \in Listed, NEW content \in File, NEW sha \in File,
                        NEW marks \in File, NEW step \in Steps, Press(p, kind, l, content, sha, marks, step),
                        page' \in [Pages -> Window], writes' \in {writes, writes + 1},
                        Started(kind, l, content, sha, marks, step) \in Job =>
                          /\ WellFormed(Started(kind, l, content, sha, marks, step))
                          /\ step \notin {"unmark", "find", "drop"} /\ (kind = "tenants" => step = "check"),
                        kind \in {"save", "git", "tenants"} => sha = page[p].sha,
                        \/ kind \notin {"save", "copy"} /\ content \in {None, page[p].content}
                        \/ content # None /\ content.ver = writes + 1 /\ writes' = writes + 1,
                        \A r \in Pages : /\ page'[r].sha = page[r].sha
                                         /\ \/ page'[r].content = page[r].content
                                            \/ r = p /\ page'[r].content = content
                 PROVE  /\ TypeOK' /\ UNCHANGED <<repo, loads, seen, givenUp, report>>
                        /\ \E new \in Job : Pressed(p, new)
    <2>1. CASE SaveFile(p)
      <3> DEFINE edited == [page[p].content EXCEPT !.ver = writes + 1]
                 v      == [page[p] EXCEPT !.content = edited]
      <3>1. /\ page[p].at # None /\ page[p].content # None /\ InDeploy(page[p].at)
            /\ writes' = writes + 1 /\ page' = [page EXCEPT ![p].content = edited]
            /\ Press(p, "save", page[p].at, edited, page[p].sha, None, "put")
        BY <2>1 DEF SaveFile, Ready, Writes
      <3>2. edited \in Contents /\ edited.ver = writes + 1 /\ edited # None
        BY <3>1, WindowOf, Edited, NoFile
      <3> HIDE DEF edited
      <3>3. v \in Window /\ v.content = edited /\ v.sha = page[p].sha
        BY <3>2, WindowOf DEF Window
      <3>4. page' = [page EXCEPT ![p] = v]
        BY <3>1 DEF TypeOK
      <3> HIDE DEF v
      <3>5. page' \in [Pages -> Window] /\ \A r \in Pages : page'[r] = IF r = p THEN v ELSE page[r]
        BY <3>3, <3>4, PageTypes
      <3>6. WellFormed(Started("save", page[p].at, edited, page[p].sha, None, "put"))
        BY <3>1, <3>2 DEF Started, WellFormed
      <3>7. page[p].at \in Listed /\ page[p].sha \in File /\ None \in File
        BY <3>1, WindowOf
      <3>8. "save" \in Kinds /\ "put" \in Steps
        BY DEF Kinds, Steps
      <3>9. QED
        BY <1>1, <3>1, <3>2, <3>3, <3>5, <3>6, <3>7, <3>8
    <2>2. CASE RemoveFromGit(p)
      <3>1. /\ page[p].at # None /\ UNCHANGED <<page, writes>>
            /\ Press(p, "git", page[p].at, None, page[p].sha, page[p].marks, "delete")
        BY <2>2 DEF RemoveFromGit, Ready
      <3>2. WellFormed(Started("git", page[p].at, None, page[p].sha, page[p].marks, "delete"))
        BY DEF Started, WellFormed
      <3>3. page[p].at \in Listed /\ page[p].sha \in File /\ page[p].marks \in File /\ None \in File
        BY <3>1, WindowOf
      <3>4. "git" \in Kinds /\ "delete" \in Steps /\ page \in [Pages -> Window]
        BY DEF Kinds, Steps, TypeOK
      <3>5. QED
        BY <1>1, <3>1, <3>2, <3>3, <3>4
    <2>3. CASE RemoveFromTenants(p)
      <3>1. /\ page[p].at # None /\ InDeploy(page[p].at) /\ UNCHANGED <<page, writes>>
            /\ Press(p, "tenants", page[p].at, page[p].content, page[p].sha, page[p].marks, "check")
        BY <2>3 DEF RemoveFromTenants, Ready
      <3>2. WellFormed(Started("tenants", page[p].at, page[p].content, page[p].sha, page[p].marks, "check"))
        BY <3>1 DEF Started, WellFormed
      <3>3. /\ page[p].at \in Listed /\ page[p].sha \in File /\ page[p].marks \in File
            /\ page[p].content \in File
        BY <3>1, WindowOf
      <3>4. "tenants" \in Kinds /\ "check" \in Steps /\ page \in [Pages -> Window]
        BY DEF Kinds, Steps, TypeOK
      <3>5. QED
        BY <1>1, <3>1, <3>2, <3>3, <3>4
    <2>4. CASE SaveSidecar(p)
      <3>1. page[p].at # None /\ UNCHANGED page
        BY <2>4 DEF SaveSidecar, Ready
      <3>2. page[p].at \in Listed /\ page[p].at[2] \in Policies /\ page[p].marks \in File /\ None \in File
        BY <3>1, WindowOf
      <3>3. /\ "mark" \in Kinds /\ "look" \in Steps /\ "clear" \in Kinds /\ "erase" \in Steps
            /\ page \in [Pages -> Window]
        BY DEF Kinds, Steps, TypeOK
      <3> DEFINE fresh == Fresh(page[p].at[2])
      <3>4. CASE writes' = writes + 1 /\ Press(p, "mark", page[p].at, fresh, None, None, "look")
        <4>1. fresh \in Contents /\ fresh.ver = writes + 1 /\ fresh # None
          BY <3>2, FreshFile, NoFile
        <4> HIDE DEF fresh
        <4>2. WellFormed(Started("mark", page[p].at, fresh, None, None, "look"))
          BY <4>1 DEF Started, WellFormed
        <4>3. QED
          BY <1>1, <3>1, <3>2, <3>3, <3>4, <4>1, <4>2
      <3>5. CASE writes' = writes /\ Press(p, "clear", page[p].at, None, None, page[p].marks, "erase")
        <4>1. WellFormed(Started("clear", page[p].at, None, None, page[p].marks, "erase"))
          BY DEF Started, WellFormed
        <4>2. QED
          BY <1>1, <3>1, <3>2, <3>3, <3>5, <4>1
      <3>6. QED
        BY <2>4, <3>4, <3>5 DEF SaveSidecar, Writes
    <2>5. CASE \E q \in Policies : CopyToBaseline(p, q)
      <3>1. PICK q \in Policies : CopyToBaseline(p, q)
        BY <2>5
      <3>2. PICK marks \in {None, Fresh(q)} : Press(p, "copy", Deploy(q), Fresh(q), None, marks, "look")
        BY <3>1 DEF CopyToBaseline
      <3>3. UNCHANGED page /\ writes' = writes + 1
        BY <3>1 DEF CopyToBaseline, Writes
      <3>4. Fresh(q) \in Contents /\ Fresh(q).ver = writes + 1 /\ Fresh(q) # None
        BY FreshFile, NoFile
      <3>5. Deploy(q) \in Listed /\ InDeploy(Deploy(q)) /\ marks \in File /\ None \in File
        BY <3>4, PathsOf
      <3>6. WellFormed(Started("copy", Deploy(q), Fresh(q), None, marks, "look"))
        BY <3>4, <3>5 DEF Started, WellFormed
      <3>7. "copy" \in Kinds /\ "look" \in Steps /\ page \in [Pages -> Window]
        BY DEF Kinds, Steps, TypeOK
      <3>8. QED
        BY <1>1, <3>2, <3>3, <3>4, <3>5, <3>6, <3>7
    <2>6. QED
      BY <2>1, <2>2, <2>3, <2>4, <2>5 DEF Button
  <1> DEFINE new == Started(kind, l, content, sha, marks, step)
  <1>2. /\ pressed' \in Nat /\ jobs' \in [Pages -> SUBSET Job]
        /\ \A r \in Pages : \A m \in jobs'[r] : m \in jobs[r] \/ (r = p /\ m = new)
        /\ UNCHANGED <<repo, loads, clicks, faults, seen, givenUp, report>>
    BY <1>1, Presses
  <1>3. /\ new \in Job /\ new.kind = kind /\ new.step = step /\ new.content = content /\ new.sha = sha
    BY DEF Started, Job
  <1> HIDE DEF new
  <1>4. Pressed(p, new)
    BY <1>1, <1>2, <1>3 DEF Pressed, new
  <1>5. TypeOK'
    BY <1>1, <1>2 DEF TypeOK
  <1>6. QED
    BY <1>2, <1>3, <1>4, <1>5

LEMMA ReadTypes ==
  ASSUME TypeOK, NEW p \in Pages, NEW j \in jobs[p], Read(p, j)
  PROVE  TypeOK'
  <1>1. PICK next \in Ended :
          /\ Proceed(p, j, next) /\ UNCHANGED <<repo, givenUp>> /\ (Fault \/ NoFault)
          /\ \/ UNCHANGED seen
             \/ next.got # None /\ seen' = [seen EXCEPT ![p] = @ \cup {<<j.at, next.got>>}]
    BY ReadIs
  <1>2. /\ jobs' \in [Pages -> SUBSET Job] /\ report' \in [Pages -> {None} \cup Report]
        /\ page' \in [Pages -> Window]
    BY <1>1, HandlersAfter, ReportsAfter, PagesAfter
  <1>3. j.at \in Listed /\ next.got \in File
    BY DEF TypeOK, Job, Ended
  <1>4. seen' \in [Pages -> SUBSET (Listed \X Contents)]
    <2>1. CASE UNCHANGED seen
      BY <2>1 DEF TypeOK
    <2>2. CASE next.got # None /\ seen' = [seen EXCEPT ![p] = @ \cup {<<j.at, next.got>>}]
      <3>1. next.got \in Contents
        BY <1>3, <2>2 DEF File
      <3>2. QED
        BY <1>3, <2>2, <3>1, SeenTypes
    <2>3. QED
      BY <1>1, <2>1, <2>2
  <1>5. faults' \in Nat
    BY <1>1, FaultTypes DEF TypeOK
  <1>6. UNCHANGED <<loads, clicks, pressed, writes>>
    BY <1>1 DEF Proceed
  <1>7. QED
    BY <1>1, <1>2, <1>4, <1>5, <1>6 DEF TypeOK

LEMMA PutIsContents ==
  ASSUME NEW j \in Job, WellFormed(j), j.step = "put"
  PROVE  /\ j.kind \in {"save", "copy"} /\ InDeploy(j.at) /\ j.content # None /\ j.content \in Contents
         /\ Target(j) = j.at /\ Wanted(j) = j.content
  <1>1. j.kind \in {"save", "copy"} /\ InDeploy(j.at) /\ j.content # None
    BY DEF Job, Kinds, WellFormed
  <1>2. j.content \in Contents
    BY <1>1 DEF Job, File
  <1>3. Target(j) = j.at /\ Wanted(j) = j.content
    BY DEF Target, Wanted
  <1>4. QED
    BY <1>1, <1>2, <1>3

LEMMA MadeTypes ==
  ASSUME TypeOK, NEW p \in Pages, NEW j \in jobs[p], WellFormed(j), Made(p, j)
  PROVE  /\ repo' \in [Paths -> File] /\ givenUp' \subseteq Policies
         /\ seen' \in [Pages -> SUBSET (Listed \X Contents)]
         /\ \A l \in Paths : repo'[l] = IF l = Target(j) THEN Wanted(j) ELSE repo[l]
         /\ \A r \in Pages : seen[r] \subseteq seen'[r]
         /\ \A r \in Pages : \A x \in seen'[r] :
              x \in seen[r] \/ (j.step = "put" /\ x = <<j.at, j.content>>)
  <1>1. j \in Job
    BY DEF TypeOK
  <1>2. /\ Target(j) \in Paths /\ Target(j)[2] \in Policies /\ Wanted(j) \in File
    BY <1>1, Targets
  <1>3. repo' \in [Paths -> File] /\ \A l \in Paths : repo'[l] = IF l = Target(j) THEN Wanted(j) ELSE repo[l]
    BY <1>2 DEF TypeOK, Made
  <1>4. givenUp' \subseteq Policies
    BY <1>2 DEF TypeOK, Made
  <1>5. CASE j.step # "put"
    BY <1>3, <1>4, <1>5 DEF TypeOK, Made
  <1>6. CASE j.step = "put"
    <2>1. j.content \in Contents /\ Target(j) = j.at /\ j.at \in Listed
      BY <1>1, <1>6, PutIsContents DEF Job
    <2>2. seen' = [seen EXCEPT ![p] = @ \cup {<<j.at, j.content>>}]
      BY <1>6, <2>1 DEF Made
    <2>3. /\ seen' \in [Pages -> SUBSET (Listed \X Contents)]
          /\ \A r \in Pages : seen[r] \subseteq seen'[r]
          /\ \A r \in Pages : \A x \in seen'[r] : x \in seen[r] \/ x = <<j.at, j.content>>
      BY <2>1, <2>2, SeenTypes
    <2>4. QED
      BY <1>3, <1>4, <1>6, <2>3
  <1>7. QED
    BY <1>5, <1>6

LEMMA WriteTypes ==
  ASSUME TypeOK, NEW p \in Pages, NEW j \in jobs[p], WellFormed(j), Write(p, j)
  PROVE  TypeOK'
  <1>1. PICK next \in Ended :
          /\ Proceed(p, j, next) /\ (Fault \/ NoFault)
          /\ Made(p, j) \/ UNCHANGED <<repo, seen, givenUp>>
    BY WriteIs
  <1>2. /\ jobs' \in [Pages -> SUBSET Job] /\ report' \in [Pages -> {None} \cup Report]
        /\ page' \in [Pages -> Window]
    BY <1>1, HandlersAfter, ReportsAfter, PagesAfter
  <1>3. /\ repo' \in [Paths -> File] /\ givenUp' \subseteq Policies
        /\ seen' \in [Pages -> SUBSET (Listed \X Contents)]
    <2>1. CASE Made(p, j)
      BY <2>1, MadeTypes
    <2>2. CASE UNCHANGED <<repo, seen, givenUp>>
      BY <2>2 DEF TypeOK
    <2>3. QED
      BY <1>1, <2>1, <2>2
  <1>4. faults' \in Nat
    BY <1>1, FaultTypes DEF TypeOK
  <1>5. UNCHANGED <<loads, clicks, pressed, writes>>
    BY <1>1 DEF Proceed
  <1>6. QED
    BY <1>2, <1>3, <1>4, <1>5 DEF TypeOK

LEMMA ReloadTypes ==
  ASSUME TypeOK, NEW p \in Pages, Reload(p)
  PROVE  /\ TypeOK' /\ UNCHANGED <<repo, seen, givenUp, writes>>
         /\ \A r \in Pages : jobs'[r] \subseteq jobs[r] /\ report'[r] \in {None, report[r]}
         /\ \A r \in Pages : \/ page'[r] = page[r]
                             \/ page'[r].sha = None /\ page'[r].content = None
  <1>1. Blank \in Window /\ Blank.sha = None /\ Blank.content = None
    BY DEF Blank, Window, File
  <1>2. page' \in [Pages -> Window] /\ \A r \in Pages : page'[r] = IF r = p THEN Blank ELSE page[r]
    BY <1>1, PageTypes DEF Reload
  <1>3. {} \in SUBSET Load
    OBVIOUS
  <1>4. loads' \in [Pages -> SUBSET Load]
    BY <1>3, LoadTypes DEF Reload
  <1>5. jobs' \in [Pages -> SUBSET Job] /\ \A r \in Pages : jobs'[r] = IF r = p THEN {} ELSE jobs[r]
    BY DEF TypeOK, Reload
  <1>6. /\ report' \in [Pages -> {None} \cup Report]
        /\ \A r \in Pages : report'[r] = IF r = p THEN None ELSE report[r]
    BY DEF TypeOK, Reload
  <1>7. faults' \in Nat
    BY FaultTypes DEF TypeOK, Reload
  <1>8. UNCHANGED <<repo, clicks, pressed, writes, seen, givenUp>>
    BY DEF Reload
  <1>9. TypeOK'
    BY <1>2, <1>4, <1>5, <1>6, <1>7, <1>8 DEF TypeOK
  <1>10. \A r \in Pages : jobs'[r] \subseteq jobs[r] /\ report'[r] \in {None, report[r]}
    BY <1>5, <1>6
  <1>11. \A r \in Pages : page'[r] = page[r] \/ (page'[r].sha = None /\ page'[r].content = None)
    BY <1>1, <1>2
  <1>12. QED
    BY <1>8, <1>9, <1>10, <1>11

LEMMA ClickIs ==
  ASSUME TypeOK, NEW p \in Pages, NEW l \in Listed, Click(p, l)
  PROVE  /\ UNCHANGED <<repo, jobs, seen, givenUp, writes>>
         /\ \A r \in Pages : report'[r] \in {None, report[r]}
         /\ \A r \in Pages : \/ page'[r] = page[r]
                             \/ page'[r].sha = None /\ page'[r].content = None
  <1> DEFINE w == [Blank EXCEPT !.at = l, !.loading = TRUE]
  <1>1. w \in Window /\ w.sha = None /\ w.content = None
    BY DEF Blank, Window, File
  <1> HIDE DEF w
  <1>2. page' = [page EXCEPT ![p] = w]
    BY DEF Click, w
  <1>3. \A r \in Pages : page'[r] = IF r = p THEN w ELSE page[r]
    BY <1>1, <1>2, PageTypes
  <1>4. \A r \in Pages : report'[r] = IF r = p THEN None ELSE report[r]
    BY DEF TypeOK, Click
  <1>5. UNCHANGED <<repo, jobs, seen, givenUp, writes>>
    BY DEF Click
  <1>6. QED
    BY <1>1, <1>3, <1>4, <1>5

LEMMA Advances ==
  ASSUME NEW k \in Job, WellFormed(k), NEW n \in Ended, n.kind = k.kind, n.at = k.at,
         n.content = k.content, n.step = Follows(k)
  PROVE  /\ n.step # "done" => WellFormed(n)
         /\ n.step \in {"look", "put"} => k.step = "look"
         /\ k.kind \in Removal =>
              /\ n.step = "delete" => k.step = "stage"
              /\ n.step = "unmark" => k.step = "delete"
              /\ n.step = "find" => k.step = "delete"
              /\ n.step = "drop" => k.step = "find"
              /\ n.step = "stage" => k.step = "check"
              /\ n.step # "check"
              /\ n.step = "done" => \/ k.step = "delete" /\ ~InDeploy(k.at)
                                    \/ k.step = "find" /\ k.got = None
                                    \/ k.step \in {"drop", "unmark"}
  <1>1. k.kind \in Kinds
    BY DEF Job
  <1>2. CASE k.kind = "save"
    BY <1>2 DEF WellFormed, Follows, Removal
  <1>3. CASE k.kind = "git"
    BY <1>3 DEF WellFormed, Follows, AfterDelete, AfterFind, Removal
  <1>4. CASE k.kind = "tenants"
    BY <1>4 DEF WellFormed, Follows, AfterDelete, AfterFind, Removal
  <1>5. CASE k.kind = "mark"
    BY <1>5 DEF WellFormed, Follows, Removal
  <1>6. CASE k.kind = "clear"
    BY <1>6 DEF WellFormed, Follows, Removal
  <1>7. CASE k.kind = "copy"
    BY <1>7 DEF WellFormed, Follows, AfterFind, Removal
  <1>8. QED
    BY <1>1, <1>2, <1>3, <1>4, <1>5, <1>6, <1>7 DEF Kinds

-----------------------------------------------------------------------------
(* No policy is forgotten, and a removal that is reported is done. *)

JobOK(j) ==
  /\ WellFormed(j)
  /\ j.kind = "tenants" /\ j.step = "delete" /\ j.at[2] \notin givenUp => repo[Staged(j.at[2])] # None
  /\ j.kind \in Removal /\ j.clean =>
       /\ j.step \in {"unmark", "find", "drop"} => repo[j.at] = None
       /\ j.kind = "tenants" /\ j.step \notin {"check", "stage"} => repo[Staged(j.at[2])] = Manifest(j.content)

ReportOK(p) ==
  report[p] # None /\ report[p].clean =>
    LET j == report[p].job
        q == j.at[2] IN
    /\ repo[j.at] = None
    /\ InDeploy(j.at) => repo[Marks(q)] = None
    /\ j.kind = "tenants" => repo[Staged(q)] = Manifest(j.content)

LEMMA JobsAndReports ==
  Inv <=> /\ TypeOK /\ Somewhere
          /\ \A p \in Pages : (\A j \in jobs[p] : JobOK(j)) /\ ReportOK(p)
  BY DEF Inv, InStep, StagedFirst, DoneSoFar, ReportedIsGone, JobOK, ReportOK

LEMMA InitInv == Init => Inv
  <1> SUFFICES ASSUME Init PROVE Inv
    OBVIOUS
  <1>1. TypeOK
    BY InitTypes
  <1>2. ASSUME NEW q \in Policies PROVE repo[Deploy(q)] # None
    <2>1. repo[Deploy(q)] = Original(q)
      BY PathsOf DEF Init
    <2>2. Original(q) \in Contents
      BY DEF Original, Contents
    <2>3. QED
      BY <2>1, <2>2, NoFile
  <1>3. Somewhere
    BY <1>2 DEF Somewhere
  <1>4. \A p \in Pages : jobs[p] = {} /\ report[p] = None
    BY DEF Init
  <1>5. QED
    BY <1>1, <1>3, <1>4, JobsAndReports DEF ReportOK

\* Steps that leave the repository alone and begin nothing.
LEMMA QuietInv ==
  ASSUME Inv, TypeOK', UNCHANGED <<repo, givenUp>>,
         \A r \in Pages : jobs'[r] \subseteq jobs[r] /\ report'[r] \in {None, report[r]}
  PROVE  Inv'
  <1>1. Somewhere'
    BY DEF Inv, Somewhere
  <1>2. ASSUME NEW r \in Pages PROVE (\A j \in jobs[r] : JobOK(j)) /\ ReportOK(r)
    BY JobsAndReports
  <1>3. ASSUME NEW r \in Pages, NEW j \in jobs'[r] PROVE JobOK(j)'
    <2>1. JobOK(j)
      BY <1>2
    <2>2. QED
      BY <2>1 DEF JobOK
  <1>4. ASSUME NEW r \in Pages PROVE ReportOK(r)'
    <2>1. ReportOK(r)
      BY <1>2
    <2>2. CASE report'[r] = None
      BY <2>2 DEF ReportOK
    <2>3. CASE report'[r] = report[r]
      BY <2>1, <2>3 DEF ReportOK
    <2>4. QED
      BY <2>2, <2>3
  <1>5. Inv' <=> /\ TypeOK' /\ Somewhere'
                 /\ \A p \in Pages : (\A j \in jobs'[p] : JobOK(j)') /\ ReportOK(p)'
    BY DEF Inv, InStep, StagedFirst, DoneSoFar, ReportedIsGone, JobOK, ReportOK
  <1>6. QED
    BY <1>1, <1>3, <1>4, <1>5

LEMMA ButtonInv ==
  ASSUME Inv, NEW p \in Pages, Button(p)
  PROVE  Inv'
  <1>1. /\ TypeOK' /\ UNCHANGED <<repo, givenUp, report>>
    BY ButtonIs DEF Inv
  <1>2. PICK new \in Job : Pressed(p, new)
    BY ButtonIs DEF Inv
  <1>3. Somewhere'
    BY <1>1 DEF Inv, Somewhere
  <1>4. ASSUME NEW r \in Pages, NEW m \in jobs'[r] PROVE JobOK(m)'
    <2>1. CASE m \in jobs[r]
      <3>1. JobOK(m)
        BY <2>1, JobsAndReports
      <3>2. QED
        BY <1>1, <3>1 DEF JobOK
    <2>2. CASE m = new
      BY <1>2, <2>2 DEF JobOK, Pressed
    <2>3. QED
      BY <1>2, <2>1, <2>2 DEF Pressed
  <1>5. ASSUME NEW r \in Pages PROVE ReportOK(r)'
    <2>1. ReportOK(r)
      BY JobsAndReports
    <2>2. QED
      BY <1>1, <2>1 DEF ReportOK
  <1>6. Inv' <=> /\ TypeOK' /\ Somewhere'
                 /\ \A r \in Pages : (\A j \in jobs'[r] : JobOK(j)') /\ ReportOK(r)'
    BY DEF Inv, InStep, StagedFirst, DoneSoFar, ReportedIsGone, JobOK, ReportOK
  <1>7. QED
    BY <1>1, <1>3, <1>4, <1>5, <1>6

\* A handler that is not the one at work, when the repository stays as it is.
LEMMA KeptOK ==
  ASSUME NEW k, NEW m, JobOK(k), Kept(k, m), UNCHANGED <<repo, givenUp>>
  PROVE  JobOK(m)'
  <1>1. WellFormed(m)
    BY DEF JobOK, Kept, WellFormed
  <1>2. QED
    BY <1>1 DEF JobOK, Kept

LEMMA ReadInv ==
  ASSUME Inv, NEW p \in Pages, NEW j \in jobs[p], Read(p, j)
  PROVE  Inv'
  <1>1. TypeOK' /\ TypeOK
    BY ReadTypes DEF Inv
  <1>2. JobOK(j) /\ WellFormed(j) /\ j \in Job /\ j.step \in Reading
    BY JobsAndReports DEF Inv, TypeOK, JobOK, Read
  <1>3. PICK next \in Ended :
           /\ Proceed(p, j, next) /\ UNCHANGED <<repo, givenUp>> /\ next.kind = j.kind
           /\ \/ /\ next.step = Follows([j EXCEPT !.got = next.got]) /\ next.at = j.at
                 /\ next.content = j.content
                 /\ j.kind \in Removal /\ next.clean => j.clean /\ next.got = repo[Target(j)]
              \/ /\ next.step \in {"done", "failed"}
                 /\ next.step = "done" => j.kind \in Removal /\ ~next.clean
    BY <1>1, ReadIs
  <1>4. ASSUME next.step \notin {"done", "failed"} \/ (next.step = "done" /\ next.clean)
        PROVE  \E k \in Job : /\ WellFormed(k) /\ k.kind = j.kind /\ k.at = j.at /\ k.content = j.content
                              /\ k.step = j.step /\ k.got = next.got
                              /\ next.step = Follows(k) /\ next.at = k.at /\ next.content = k.content
                              /\ j.kind \in Removal /\ next.clean => j.clean /\ next.got = repo[Target(j)]
    <2>1. next.got \in File
      BY DEF Ended
    <2> DEFINE k == [j EXCEPT !.got = next.got]
    <2>2. /\ k \in Job /\ k.kind = j.kind /\ k.at = j.at /\ k.content = j.content
          /\ k.step = j.step /\ k.got = next.got /\ next.step = Follows(k)
          /\ next.at = k.at /\ next.content = k.content
          /\ j.kind \in Removal /\ next.clean => j.clean /\ next.got = repo[Target(j)]
      BY <1>2, <1>3, <1>4, <2>1, WithAnswer
    <2> HIDE DEF k
    <2>3. WellFormed(k)
      BY <1>2, <2>2 DEF WellFormed
    <2>4. QED
      BY <2>2, <2>3
  <1>5. Somewhere'
    BY <1>3 DEF Inv, Somewhere
  <1>6. ASSUME next.step \notin {"done", "failed"} PROVE JobOK(next)'
    <2>1. PICK k \in Job :
            /\ WellFormed(k) /\ k.kind = j.kind /\ k.at = j.at /\ k.content = j.content
            /\ k.step = j.step /\ next.step = Follows(k) /\ next.at = k.at /\ next.content = k.content
            /\ j.kind \in Removal /\ next.clean => j.clean
      BY <1>4, <1>6
    <2>2. /\ WellFormed(next)
          /\ k.kind \in Removal =>
               /\ next.step = "delete" => k.step = "stage"
               /\ next.step = "unmark" => k.step = "delete"
               /\ next.step = "find" => k.step = "delete"
               /\ next.step = "drop" => k.step = "find"
               /\ next.step = "stage" => k.step = "check"
               /\ next.step # "check"
      BY <1>3, <1>6, <2>1, Advances
    <2>3. j.step \notin {"stage", "delete"}
      BY <1>2 DEF Reading
    <2>4. next.kind = "tenants" => next.kind \in Removal
      BY DEF Removal
    <2>5. QED
      BY <1>2, <1>3, <2>1, <2>2, <2>3, <2>4 DEF JobOK, WellFormed
  <1>7. ASSUME NEW r \in Pages, NEW m \in jobs'[r] PROVE JobOK(m)'
    <2>1. CASE m = next /\ next.step \notin {"done", "failed"}
      BY <1>6, <2>1
    <2>2. CASE \E k \in jobs[r] : Kept(k, m)
      BY <1>3, <2>2, JobsAndReports, KeptOK
    <2>3. QED
      BY <1>1, <1>3, <2>1, <2>2, HandlersAfter
  <1>8. ASSUME NEW r \in Pages PROVE ReportOK(r)'
    <2>1. \/ /\ r = p /\ j.kind \in Removal /\ next.step = "done"
             /\ report'[r].job = j /\ report'[r].clean = next.clean
          \/ report'[r] = report[r]
          \/ ~report'[r].clean
      BY <1>1, <1>3, ReportsAfter
    <2>2. CASE report'[r] = report[r]
      BY <1>3, <2>2, JobsAndReports DEF ReportOK
    <2>3. CASE ~report'[r].clean
      BY <2>3 DEF ReportOK
    <2>4. CASE /\ next.clean /\ j.kind \in Removal /\ next.step = "done" /\ report'[r].job = j
      <3>1. PICK k \in Job :
              /\ WellFormed(k) /\ k.kind = j.kind /\ k.at = j.at /\ k.step = j.step /\ k.got = next.got
              /\ next.step = Follows(k) /\ next.at = k.at /\ next.content = k.content /\ k.content = j.content
              /\ j.clean /\ next.got = repo[Target(j)]
        BY <1>4, <2>4
      <3>2. \/ k.step = "delete" /\ ~InDeploy(k.at)
            \/ k.step = "find" /\ k.got = None
            \/ k.step \in {"drop", "unmark"}
        BY <1>3, <2>4, <3>1, Advances
      <3>3. j.step = "find" /\ repo[Target(j)] = None
        BY <1>2, <3>1, <3>2 DEF Reading
      <3>4. Target(j) = Marks(j.at[2])
        BY <3>3 DEF Target
      <3>5. QED
        BY <1>2, <1>3, <2>4, <3>1, <3>3, <3>4 DEF JobOK, ReportOK
    <2>5. QED
      BY <2>1, <2>2, <2>3, <2>4
  <1>9. Inv' <=> /\ TypeOK' /\ Somewhere'
                 /\ \A r \in Pages : (\A m \in jobs'[r] : JobOK(m)') /\ ReportOK(r)'
    BY DEF Inv, InStep, StagedFirst, DoneSoFar, ReportedIsGone, JobOK, ReportOK
  <1>10. QED
    BY <1>1, <1>5, <1>7, <1>8, <1>9

LEMMA Writes1 ==
  ASSUME NEW j \in Job, WellFormed(j), j.step \notin Reading
  PROVE  /\ j.step = "stage" => /\ Target(j) = Staged(j.at[2]) /\ Wanted(j) = Manifest(j.content)
                                /\ Wanted(j) \in Contents /\ j.kind = "tenants" /\ InDeploy(j.at)
         /\ j.step = "delete" => /\ Target(j) = j.at /\ Wanted(j) = None /\ j.kind \in Removal
                                 /\ j.kind = "tenants" => InDeploy(j.at)
         /\ j.step \notin {"stage", "delete", "put"} => Target(j) = Marks(j.at[2])
         /\ j.step \in {"unmark", "drop"} => Wanted(j) = None
         /\ j.at[2] \in Policies /\ (InDeploy(j.at) => j.at = Deploy(j.at[2]))
         /\ ~InDeploy(j.at) => j.at = Staged(j.at[2])
  <1>1. j.at \in Listed /\ j.at[2] \in Policies /\ j.content \in File /\ j.kind \in Kinds /\ j.step \in Steps
    BY ListedPath DEF Job
  <1>2. /\ InDeploy(j.at) => j.at = Deploy(j.at[2])
        /\ ~InDeploy(j.at) => j.at = Staged(j.at[2])
    BY <1>1, ListedPath
  <1>3. CASE j.step = "stage"
    <2>1. j.kind = "tenants" /\ InDeploy(j.at)
      BY <1>1, <1>3 DEF WellFormed, Kinds
    <2>2. Target(j) = Staged(j.at[2]) /\ Wanted(j) = Manifest(j.content)
      BY <1>3 DEF Target, Wanted
    <2>3. Manifest(j.content) \in Contents
      BY <1>1, ManifestFile
    <2>4. QED
      BY <1>1, <1>2, <1>3, <2>1, <2>2, <2>3
  <1>4. CASE j.step = "delete"
    <2>1. j.kind \in Removal /\ (j.kind = "tenants" => InDeploy(j.at))
      BY <1>1, <1>4 DEF WellFormed, Kinds, Removal
    <2>2. Target(j) = j.at /\ Wanted(j) = None
      BY <1>4 DEF Target, Wanted
    <2>3. QED
      BY <1>1, <1>2, <1>4, <2>1, <2>2
  <1>5. CASE j.step = "put"
    BY <1>1, <1>2, <1>5
  <1>6. CASE j.step \notin {"stage", "delete", "put"}
    <2>1. Target(j) = Marks(j.at[2])
      BY <1>6 DEF Target, Reading
    <2>2. j.step \in {"unmark", "drop"} => Wanted(j) = None
      BY <1>6 DEF Wanted
    <2>3. QED
      BY <1>1, <1>2, <1>6, <2>1, <2>2
  <1>7. QED
    BY <1>3, <1>4, <1>5, <1>6

\* What a write of j leaves as it was: all that is about another policy.
LEMMA Elsewhere ==
  ASSUME TypeOK, NEW p \in Pages, NEW j \in jobs[p], WellFormed(j), Made(p, j),
         NEW q \in Policies, q # j.at[2]
  PROVE  /\ repo'[Deploy(q)] = repo[Deploy(q)] /\ repo'[Staged(q)] = repo[Staged(q)]
         /\ repo'[Marks(q)] = repo[Marks(q)]
         /\ q \in givenUp' <=> q \in givenUp
  <1>1. j \in Job /\ Target(j) \in Paths /\ Target(j)[2] = j.at[2]
    BY Targets DEF TypeOK
  <1>2. \A l \in Paths : l[2] = q => repo'[l] = repo[l]
    BY <1>1, MadeTypes
  <1>3. q \in givenUp' <=> q \in givenUp
    BY <1>1 DEF Made
  <1>4. QED
    BY <1>2, <1>3, PathsOf

\* What j itself has done with the write.
LEMMA WrittenOK ==
  ASSUME Inv, NEW p \in Pages, NEW j \in jobs[p], j.step \notin Reading, Made(p, j),
         NEW n \in Ended, n.step = Follows(j), n.kind = j.kind, n.at = j.at, n.content = j.content,
         n.clean = j.clean
  PROVE  /\ n.step # "done" => JobOK(n)'
         /\ n.step = "done" /\ n.clean /\ n.kind \in Removal =>
              /\ repo'[j.at] = None
              /\ InDeploy(j.at) => repo'[Marks(j.at[2])] = None
              /\ j.kind = "tenants" => repo'[Staged(j.at[2])] = Manifest(j.content)
  <1> DEFINE q == j.at[2]
  <1>1. j \in Job /\ JobOK(j) /\ WellFormed(j) /\ TypeOK
    BY JobsAndReports DEF Inv, TypeOK, JobOK
  <1>2. /\ n.step # "done" => WellFormed(n)
        /\ n.kind \in Removal =>
             /\ n.step = "delete" => j.step = "stage"
             /\ n.step = "unmark" => j.step = "delete"
             /\ n.step = "find" => j.step = "delete"
             /\ n.step = "drop" => j.step = "find"
             /\ n.step = "stage" => j.step = "check"
             /\ n.step # "check"
             /\ n.step = "done" => \/ j.step = "delete" /\ ~InDeploy(j.at)
                                   \/ j.step = "find" /\ j.got = None
                                   \/ j.step \in {"drop", "unmark"}
    BY <1>1, Advances
  <1>3. j.step \notin {"find", "check"}
    BY DEF Reading
  <1>4. /\ j.step = "stage" => /\ Target(j) = Staged(q) /\ Wanted(j) = Manifest(j.content)
                               /\ Wanted(j) \in Contents /\ j.kind = "tenants" /\ InDeploy(j.at)
        /\ j.step = "delete" => Target(j) = j.at /\ Wanted(j) = None
        /\ j.step \notin {"stage", "delete", "put"} => Target(j) = Marks(q)
        /\ j.step \in {"unmark", "drop"} => Wanted(j) = None
        /\ q \in Policies /\ (InDeploy(j.at) => j.at = Deploy(q)) /\ (~InDeploy(j.at) => j.at = Staged(q))
    BY <1>1, Writes1
  <1>5. \A l \in Paths : repo'[l] = IF l = Target(j) THEN Wanted(j) ELSE repo[l]
    BY <1>1, MadeTypes
  <1>6. /\ Deploy(q) \in Listed /\ Staged(q) \in Listed /\ Marks(q) \in Paths /\ Marks(q) \notin Listed
        /\ Deploy(q) \in Paths /\ Staged(q) \in Paths /\ Deploy(q) # Staged(q)
    BY <1>4, PathsOf
  <1>7. j.kind = "tenants" => InDeploy(j.at)
    BY <1>1 DEF WellFormed
  <1>8. j.kind = "tenants" => j.kind \in Removal
    BY DEF Removal
  <1> HIDE DEF q
  <1>9. ASSUME n.step # "done" PROVE JobOK(n)'
    <2>1. ASSUME n.kind = "tenants", n.step = "delete" PROVE repo'[Staged(q)] # None
      BY <1>2, <1>4, <1>5, <1>6, <1>8, <2>1, NoFile
    <2>2. ASSUME n.kind \in Removal, n.clean, n.step \in {"unmark", "find", "drop"}
          PROVE  repo'[n.at] = None
      BY <1>2, <1>3, <1>4, <1>5, <1>6, <2>2
    <2>3. ASSUME n.kind = "tenants", n.clean, n.step \notin {"check", "stage"}
          PROVE  repo'[Staged(q)] = Manifest(n.content)
      <3>1. CASE j.step = "stage"
        BY <1>4, <1>5, <1>6, <3>1
      <3>2. CASE j.step # "stage"
        <4>1. repo[Staged(q)] = Manifest(j.content)
          BY <1>1, <1>3, <1>8, <2>3, <3>2 DEF JobOK, q
        <4>2. j.step # "put"
          BY <1>1, <2>3 DEF WellFormed
        <4>3. Target(j) # Staged(q)
          BY <1>4, <1>6, <1>7, <2>3, <3>2, <4>2
        <4>4. QED
          BY <1>5, <1>6, <4>1, <4>3
      <3>3. QED
        BY <3>1, <3>2
    <2>4. QED
      BY <1>2, <1>9, <2>1, <2>2, <2>3 DEF JobOK, q
  <1>10. ASSUME n.step = "done", n.clean, n.kind \in Removal
         PROVE  /\ repo'[j.at] = None
                /\ InDeploy(j.at) => repo'[Marks(q)] = None
                /\ j.kind = "tenants" => repo'[Staged(q)] = Manifest(j.content)
    <2>1. CASE j.step = "delete" /\ ~InDeploy(j.at)
      BY <1>4, <1>5, <1>6, <1>7, <2>1
    <2>2. CASE j.step \in {"drop", "unmark"}
      <3>1. /\ repo[j.at] = None
            /\ j.kind = "tenants" => repo[Staged(q)] = Manifest(j.content)
        BY <1>1, <1>10, <2>2 DEF JobOK, q
      <3>2. Target(j) = Marks(q) /\ Wanted(j) = None
        BY <1>4, <2>2
      <3>3. QED
        BY <1>4, <1>5, <1>6, <3>1, <3>2
    <2>3. QED
      BY <1>2, <1>3, <1>10, <2>1, <2>2
  <1>11. QED
    BY <1>9, <1>10 DEF q

\* What the other handlers know survives the write, or they are no longer clean.
LEMMA OthersOK ==
  ASSUME Inv, NEW p \in Pages, NEW j \in jobs[p], j.step \notin Reading, Made(p, j),
         NEW r \in Pages, NEW k \in jobs[r], NEW m, Kept(k, m),
         repo' # repo /\ k.at[2] = j.at[2] /\ k.kind \in Removal => ~m.clean
  PROVE  JobOK(m)'
  <1> DEFINE q == j.at[2]
  <1>1. /\ j \in Job /\ JobOK(j) /\ WellFormed(j) /\ TypeOK
        /\ k \in Job /\ JobOK(k) /\ WellFormed(k)
    BY JobsAndReports DEF Inv, TypeOK, JobOK
  <1>2. WellFormed(m)
    BY <1>1 DEF Kept, WellFormed
  <1>3. /\ k.at \in Listed /\ k.at[2] \in Policies
        /\ k.at = Deploy(k.at[2]) \/ k.at = Staged(k.at[2])
    BY <1>1, ListedPath DEF Job
  <1>4. CASE k.at[2] # q
    <2>1. /\ repo'[k.at] = repo[k.at] /\ repo'[Staged(k.at[2])] = repo[Staged(k.at[2])]
          /\ k.at[2] \in givenUp' <=> k.at[2] \in givenUp
      BY <1>1, <1>3, <1>4, Elsewhere
    <2>2. QED
      BY <1>1, <1>2, <2>1 DEF JobOK, Kept
  <1>5. CASE k.at[2] = q
    <2>1. /\ j.step = "stage" => Target(j) = Staged(q) /\ Wanted(j) \in Contents
          /\ j.step = "delete" => Target(j) = j.at /\ j.kind \in Removal /\ (j.kind = "tenants" => InDeploy(j.at))
          /\ j.step \notin {"stage", "delete", "put"} => Target(j) = Marks(q)
          /\ q \in Policies /\ (InDeploy(j.at) => j.at = Deploy(q))
      BY <1>1, Writes1
    <2>2. \A l \in Paths : repo'[l] = IF l = Target(j) THEN Wanted(j) ELSE repo[l]
      BY <1>1, MadeTypes
    <2>3. /\ Staged(q) \in Listed /\ Marks(q) \notin Listed /\ Staged(q) \in Paths /\ Deploy(q) # Staged(q)
      BY <2>1, PathsOf
    <2>4. ASSUME m.kind = "tenants", m.step = "delete", q \notin givenUp'
          PROVE  repo'[Staged(q)] # None
      <3>1. HalfMoved(q)
        BY <1>5, <2>4 DEF HalfMoved, Kept
      <3>2. Target(j)[2] = q
        BY <1>1, Targets
      <3>3. /\ q \notin givenUp
            /\ ~(j.kind = "git" /\ j.step = "delete")
        BY <2>4, <3>1, <3>2 DEF Made
      <3>4. repo[Staged(q)] # None
        BY <1>1, <1>5, <2>4, <3>3 DEF JobOK, Kept
      <3>5. CASE Target(j) # Staged(q)
        BY <2>2, <2>3, <3>4, <3>5
      <3>6. CASE Target(j) = Staged(q)
        <4>1. j.step # "delete"
          <5>1. j.kind = "tenants" => Target(j) # Staged(q) \/ j.step # "delete"
            BY <2>1, <2>3
          <5>2. QED
            BY <2>1, <3>3, <3>6, <5>1 DEF Removal
        <4>2. j.step # "put"
          <5>1. CASE j.step = "put"
            <6>1. Target(j) = j.at /\ InDeploy(j.at)
              BY <1>1, <5>1, PutIsContents
            <6>2. QED
              BY <2>1, <2>3, <3>6, <6>1
          <5>2. QED
            BY <5>1
        <4>3. j.step = "stage"
          BY <2>1, <2>3, <3>6, <4>1, <4>2
        <4>4. QED
          BY <2>1, <2>2, <2>3, <3>6, <4>3, NoFile
      <3>7. QED
        BY <3>5, <3>6
    <2>5. CASE repo' = repo
      BY <1>1, <1>2, <1>5, <2>4, <2>5 DEF JobOK, Kept
    <2>6. CASE repo' # repo
      <3>1. m.kind \in Removal => ~m.clean
        BY <1>5, <2>6 DEF Kept
      <3>2. m.at[2] = q
        BY <1>5 DEF Kept
      <3>3. QED
        BY <1>2, <2>4, <3>1, <3>2 DEF JobOK
    <2>7. QED
      BY <2>5, <2>6
  <1>6. QED
    BY <1>4, <1>5

LEMMA ForgetsNothing ==
  ASSUME Inv, NEW p \in Pages, NEW j \in jobs[p], j.step \notin Reading, Made(p, j)
  PROVE  Somewhere'
  <1> SUFFICES ASSUME NEW q \in Policies, q \notin givenUp'
               PROVE  repo'[Deploy(q)] # None \/ repo'[Staged(q)] # None
    BY DEF Somewhere
  <1>1. j \in Job /\ JobOK(j) /\ WellFormed(j) /\ TypeOK
    BY JobsAndReports DEF Inv, TypeOK, JobOK
  <1>2. \A l \in Paths : repo'[l] = IF l = Target(j) THEN Wanted(j) ELSE repo[l]
    BY <1>1, MadeTypes
  <1>3. /\ Deploy(q) \in Listed /\ Staged(q) \in Listed /\ Marks(q) \notin Listed
        /\ Deploy(q) \in Paths /\ Staged(q) \in Paths /\ Deploy(q) # Staged(q)
    BY PathsOf
  <1>4. CASE q # j.at[2]
    <2>1. /\ repo'[Deploy(q)] = repo[Deploy(q)] /\ repo'[Staged(q)] = repo[Staged(q)] /\ q \notin givenUp
      BY <1>1, <1>4, Elsewhere
    <2>2. QED
      BY <2>1 DEF Inv, Somewhere
  <1>5. CASE q = j.at[2]
    <2>1. /\ j.step = "stage" => Target(j) = Staged(q) /\ Wanted(j) \in Contents
          /\ j.step = "delete" => /\ Target(j) = j.at /\ j.kind \in Removal
                                  /\ j.kind = "tenants" => InDeploy(j.at)
          /\ j.step \notin {"stage", "delete", "put"} => Target(j) = Marks(q)
          /\ InDeploy(j.at) => j.at = Deploy(q)
      BY <1>1, <1>5, Writes1
    <2>2. Target(j)[2] = q
      BY <1>1, <1>5, Targets
    <2>3. CASE j.step = "stage"
      BY <1>2, <1>3, <2>1, <2>3, NoFile
    <2>4. CASE j.step = "put"
      <3>1. Target(j) = Deploy(q) /\ Wanted(j) # None
        BY <1>1, <2>1, <2>4, PutIsContents
      <3>2. QED
        BY <1>2, <1>3, <3>1
    <2>5. CASE j.step = "delete"
      <3>1. j.kind = "tenants" /\ q \notin givenUp
        BY <2>1, <2>2, <2>5 DEF Made, Removal
      <3>2. repo[Staged(q)] # None /\ Target(j) = Deploy(q)
        BY <1>1, <1>5, <2>1, <2>5, <3>1 DEF JobOK
      <3>3. QED
        BY <1>2, <1>3, <3>2
    <2>6. CASE j.step \notin {"stage", "put", "delete"}
      <3>1. Target(j) = Marks(q) /\ q \notin givenUp
        BY <2>1, <2>2, <2>6 DEF Made
      <3>2. QED
        BY <1>2, <1>3, <3>1 DEF Inv, Somewhere
    <2>7. QED
      BY <2>3, <2>4, <2>5, <2>6
  <1>6. QED
    BY <1>4, <1>5

LEMMA WriteInv ==
  ASSUME Inv, NEW p \in Pages, NEW j \in jobs[p], Write(p, j)
  PROVE  Inv'
  <1>1. j \in Job /\ JobOK(j) /\ WellFormed(j) /\ TypeOK
    BY JobsAndReports DEF Inv, TypeOK, JobOK
  <1>2. TypeOK'
    BY <1>1, WriteTypes
  <1>3. PICK next \in Ended :
           /\ Proceed(p, j, next) /\ next.kind = j.kind /\ j.step \notin Reading
           /\ \/ /\ Made(p, j)
                 /\ next.step = Follows(j) /\ next.at = j.at /\ next.content = j.content
                 /\ next.clean = j.clean
              \/ /\ Made(p, j) \/ UNCHANGED <<repo, givenUp>>
                 /\ next.step \in {"done", "failed"}
                 /\ next.step = "done" => ~next.clean
    BY <1>1, WriteIs
  <1>4. Somewhere'
    <2>1. CASE Made(p, j)
      BY <1>3, <2>1, ForgetsNothing
    <2>2. CASE UNCHANGED <<repo, givenUp>>
      BY <2>2 DEF Inv, Somewhere
    <2>3. QED
      BY <1>3, <2>1, <2>2
  <1>5. ASSUME NEW r \in Pages, NEW m \in jobs'[r] PROVE JobOK(m)'
    <2>1. CASE m = next /\ next.step \notin {"done", "failed"}
      BY <1>3, <2>1, WrittenOK
    <2>2. CASE \E k \in jobs[r] :
                 Kept(k, m) /\ (repo' # repo /\ k.at[2] = j.at[2] /\ k.kind \in Removal => ~m.clean)
      <3>1. CASE Made(p, j)
        BY <1>3, <2>2, <3>1, OthersOK
      <3>2. CASE UNCHANGED <<repo, givenUp>>
        BY <2>2, <3>2, JobsAndReports, KeptOK
      <3>3. QED
        BY <1>3, <3>1, <3>2
    <2>3. QED
      BY <1>1, <1>3, <2>1, <2>2, HandlersAfter
  <1>6. ASSUME NEW r \in Pages PROVE ReportOK(r)'
    <2>1. \/ /\ r = p /\ j.kind \in Removal /\ next.step = "done"
             /\ report'[r].job = j /\ report'[r].clean = next.clean
          \/ report'[r] = report[r] /\ (repo' # repo /\ report[r] # None => report[r].job.at[2] # j.at[2])
          \/ ~report'[r].clean
      BY <1>1, <1>3, ReportsAfter
    <2>2. CASE ~report'[r].clean
      BY <2>2 DEF ReportOK
    <2>3. CASE report'[r] = report[r] /\ repo' = repo
      BY <2>3, JobsAndReports DEF ReportOK
    <2>4. CASE report'[r] = report[r] /\ report[r] # None /\ Made(p, j) /\ report[r].job.at[2] # j.at[2]
      <3>1. ReportOK(r) /\ report[r].job \in Job
        BY <1>1, <2>4, JobsAndReports DEF TypeOK, Report
      <3> DEFINE k == report[r].job
      <3>2. k.at \in Listed /\ k.at[2] \in Policies /\ (k.at = Deploy(k.at[2]) \/ k.at = Staged(k.at[2]))
        BY <3>1, ListedPath DEF Job
      <3>3. /\ repo'[k.at] = repo[k.at] /\ repo'[Staged(k.at[2])] = repo[Staged(k.at[2])]
            /\ repo'[Marks(k.at[2])] = repo[Marks(k.at[2])]
        BY <1>1, <2>4, <3>2, Elsewhere
      <3>4. QED
        BY <2>4, <3>1, <3>3 DEF ReportOK
    <2>5. CASE j.kind \in Removal /\ next.step = "done" /\ next.clean /\ report'[r].job = j
      <3>1. /\ repo'[j.at] = None
            /\ InDeploy(j.at) => repo'[Marks(j.at[2])] = None
            /\ j.kind = "tenants" => repo'[Staged(j.at[2])] = Manifest(j.content)
        BY <1>3, <2>5, WrittenOK
      <3>2. QED
        BY <2>5, <3>1 DEF ReportOK
    <2>6. CASE report'[r] = None
      BY <2>6 DEF ReportOK
    <2>7. QED
      BY <1>3, <2>1, <2>2, <2>3, <2>4, <2>5, <2>6
  <1>7. Inv' <=> /\ TypeOK' /\ Somewhere'
                 /\ \A r \in Pages : (\A m \in jobs'[r] : JobOK(m)') /\ ReportOK(r)'
    BY DEF Inv, InStep, StagedFirst, DoneSoFar, ReportedIsGone, JobOK, ReportOK
  <1>8. QED
    BY <1>2, <1>4, <1>5, <1>6, <1>7

LEMMA StepInv == Inv /\ [Next]_vars => Inv'
  <1> SUFFICES ASSUME Inv, [Next]_vars PROVE Inv'
    OBVIOUS
  <1>1. TypeOK
    BY DEF Inv
  <1>2. CASE UNCHANGED vars
    <2>1. UNCHANGED <<repo, page, loads, jobs, clicks, pressed, writes, faults, seen, givenUp, report>>
      BY <1>2 DEF vars, counters
    <2>2. TypeOK'
      BY <1>1, <2>1 DEF TypeOK
    <2>3. QED
      BY <2>1, <2>2, QuietInv
  <1>3. ASSUME NEW p \in Pages, NEW l \in Listed, Click(p, l) PROVE Inv'
    BY <1>1, <1>3, ClickTypes, ClickIs, QuietInv
  <1>4. ASSUME NEW p \in Pages, NEW d \in loads[p], FileAnswers(p, d) PROVE Inv'
    <2>1. UNCHANGED <<repo, jobs, givenUp, report>>
      BY <1>4 DEF FileAnswers
    <2>2. QED
      BY <1>1, <1>4, <2>1, FileAnswersTypes, QuietInv
  <1>5. ASSUME NEW p \in Pages, NEW d \in loads[p], SidecarAnswers(p, d) PROVE Inv'
    <2>1. UNCHANGED <<repo, jobs, givenUp, report>>
      BY <1>5 DEF SidecarAnswers
    <2>2. QED
      BY <1>1, <1>5, <2>1, SidecarAnswersTypes, QuietInv
  <1>6. ASSUME NEW p \in Pages, Button(p) PROVE Inv'
    BY <1>6, ButtonInv
  <1>7. ASSUME NEW p \in Pages, NEW j \in jobs[p], Read(p, j) PROVE Inv'
    BY <1>7, ReadInv
  <1>8. ASSUME NEW p \in Pages, NEW j \in jobs[p], Write(p, j) PROVE Inv'
    BY <1>8, WriteInv
  <1>9. ASSUME NEW p \in Pages, Reload(p) PROVE Inv'
    BY <1>1, <1>9, ReloadTypes, QuietInv
  <1>10. QED
    BY <1>2, <1>3, <1>4, <1>5, <1>6, <1>7, <1>8, <1>9 DEF Next, Button

LEMMA InvAlways == Spec => []Inv
  BY InitInv, StepInv, PTL DEF Spec

\* Files, pages and handlers keep their types, for any policies, pages and bounds.
THEOREM TypeCorrect == Spec => []TypeOK
  <1>1. Inv => TypeOK
    BY DEF Inv
  <1>2. QED
    BY <1>1, InvAlways, PTL

\* A removal that the page reports has removed the policy and its sidecar, and has staged
\* what goes to the tenants (BaselineClient.tsx:514-585).
THEOREM RemovalsDone == Spec => []ReportedIsGone
  <1>1. Inv => ReportedIsGone
    BY DEF Inv
  <1>2. QED
    BY <1>1, InvAlways, PTL

-----------------------------------------------------------------------------
(* A save or a removal takes away only what its page has seen. *)

SawSha(p, s) == s # None => \E l \in Listed : <<l, s>> \in seen[p]
TookSha(j)   == j.kind \in {"save", "git", "tenants"}

LEMMA ShaSeenIs ==
  ShaSeen <=> \A p \in Pages : /\ SawSha(p, page[p].sha)
                               /\ \A j \in jobs[p] : TookSha(j) => SawSha(p, j.sha)
  BY DEF ShaSeen, SawSha, TookSha

\* Shas come from the page, from a handler or from what has just been seen, and what has
\* been seen stays seen.
LEMMA ShaStep ==
  ASSUME ShaSeen, \A r \in Pages : seen[r] \subseteq seen'[r],
         \A r \in Pages : \/ page'[r].sha \in {None, page[r].sha}
                          \/ \E l \in Listed : <<l, page'[r].sha>> \in seen'[r],
         \A r \in Pages : \A m \in jobs'[r] :
           TookSha(m) => \/ m.sha = page[r].sha
                         \/ \E k \in jobs[r] : TookSha(k) /\ m.sha = k.sha
  PROVE  ShaSeen'
  <1>1. ASSUME NEW r \in Pages, NEW s, SawSha(r, s), s # None
        PROVE  \E l \in Listed : <<l, s>> \in seen'[r]
    BY <1>1 DEF SawSha
  <1>2. ASSUME NEW r \in Pages, page'[r].sha # None
        PROVE  \E l \in Listed : <<l, page'[r].sha>> \in seen'[r]
    BY <1>1, <1>2, ShaSeenIs
  <1>3. ASSUME NEW r \in Pages, NEW m \in jobs'[r], TookSha(m), m.sha # None
        PROVE  \E l \in Listed : <<l, m.sha>> \in seen'[r]
    <2>1. SawSha(r, m.sha)
      BY <1>3, ShaSeenIs
    <2>2. QED
      BY <1>1, <1>3, <2>1
  <1>4. QED
    BY <1>2, <1>3 DEF ShaSeen, TookSha

\* A path and contents that the numbering and the one path of contents are about.
LEMMA PathStep ==
  ASSUME OnePath,
         \A l \in Listed : \A c \in Contents : Known(l, c)' => Known(l, c) \/ ForRemoval(c)
  PROVE  OnePath'
  <1> SUFFICES ASSUME NEW l \in Listed, NEW m \in Listed, NEW c \in Contents, Known(l, c)', Known(m, c)'
               PROVE  l = m \/ ForRemoval(c)
    BY DEF OnePath, ForRemoval
  <1>1. QED
    BY DEF OnePath

LEMMA NumberStep ==
  ASSUME TypeOK, Numbered, writes' \in Nat, writes <= writes',
         \A c \in Contents : Held(c)' \/ (\E l \in Listed : Known(l, c)')
                             => c.ver <= writes' \/ Held(c) \/ \E l \in Listed : Known(l, c)
  PROVE  Numbered'
  <1> SUFFICES ASSUME NEW c \in Contents, Held(c)' \/ (\E l \in Listed : Known(l, c)')
               PROVE  c.ver <= writes'
    BY DEF Numbered
  <1>1. CASE c.ver <= writes'
    BY <1>1
  <1>2. CASE Held(c) \/ \E l \in Listed : Known(l, c)
    <2>1. c.ver <= writes /\ c.ver \in Nat /\ writes \in Nat
      BY <1>2 DEF Numbered, TypeOK, Contents
    <2>2. QED
      BY <2>1
  <1>3. QED
    BY <1>1, <1>2

LEMMA InitSeen == Init => Inv2
  <1> SUFFICES ASSUME Init PROVE Inv2
    OBVIOUS
  <1>1. \A p \in Pages : page[p] = Blank /\ jobs[p] = {} /\ seen[p] = {} /\ Blank.sha = None /\ Blank.content = None
    BY DEF Init, Blank
  <1>2. ASSUME NEW l \in Listed, NEW c \in Contents, Known(l, c)
        PROVE  l[2] \in Policies /\ l = Deploy(l[2]) /\ c = Original(l[2])
    <2>1. repo[l] = c
      BY <1>1, <1>2 DEF Known, Coming
    <2>2. l \in Paths /\ l[2] \in Policies /\ (InDeploy(l) => l = Deploy(l[2])) /\ l[1] # "sidecar"
      BY ListedPath DEF Listed
    <2>3. repo[l] = IF InDeploy(l) THEN Original(l[2]) ELSE None
      BY <2>2 DEF Init
    <2>4. QED
      BY <2>1, <2>2, <2>3, NoFile
  <1>3. \A c \in Contents : ~Held(c)
    BY <1>1, NoFile DEF Held
  <1>4. ShaSeen
    BY <1>1 DEF ShaSeen
  <1>5. Numbered
    <2>1. \A q \in Policies : Original(q).ver = 0
      BY DEF Original
    <2>2. writes = 0
      BY DEF Init
    <2>3. QED
      BY <1>2, <1>3, <2>1, <2>2 DEF Numbered
  <1>6. OnePath
    <2> SUFFICES ASSUME NEW l \in Listed, NEW m \in Listed, NEW c \in Contents, Known(l, c), Known(m, c)
                 PROVE  l = m
      BY DEF OnePath
    <2>1. l = Deploy(l[2]) /\ m = Deploy(m[2]) /\ Original(l[2]) = Original(m[2])
      BY <1>2
    <2>2. l[2] = m[2]
      BY <2>1 DEF Original
    <2>3. QED
      BY <2>1, <2>2
  <1>7. QED
    BY <1>4, <1>5, <1>6 DEF Inv2

\* What a handler was before a call that leaves what it took from the page.
From(k, m) ==
  /\ m.kind = k.kind /\ m.at = k.at /\ m.content = k.content /\ m.sha = k.sha
  /\ m.step \in {"look", "put"} => k.step \in {"look", "put"}

\* A step that brings no new contents but what a staging writes.
LEMMA SeenStep ==
  ASSUME TypeOK, Inv2, UNCHANGED writes,
         \A r \in Pages : seen[r] \subseteq seen'[r],
         \A r \in Pages : \/ page'[r].sha \in {None, page[r].sha}
                          \/ \E l \in Listed : <<l, page'[r].sha>> \in seen'[r],
         \A r \in Pages : \A m \in jobs'[r] : \E k \in jobs[r] : From(k, m),
         \A r \in Pages : \/ page'[r].content \in {None, page[r].content}
                          \/ \E l \in Listed : page'[r].content = repo[l],
         \A r \in Pages, l \in Listed, c \in Contents : <<l, c>> \in seen'[r] => Known(l, c),
         \A l \in Listed, c \in Contents : repo'[l] = c => Known(l, c) \/ (ForRemoval(c) /\ c.ver <= writes)
  PROVE  Inv2'
  <1>1. ShaSeen'
    <2>1. \A r \in Pages : \A m \in jobs'[r] :
            TookSha(m) => \/ m.sha = page[r].sha
                          \/ \E k \in jobs[r] : TookSha(k) /\ m.sha = k.sha
      BY DEF From, TookSha
    <2>2. ShaSeen
      BY DEF Inv2
    <2>3. QED
      BY <2>1, <2>2, ShaStep
  <1>2. ASSUME NEW l \in Listed, NEW c \in Contents, Known(l, c)'
        PROVE  Known(l, c) \/ (ForRemoval(c) /\ c.ver <= writes)
    <2>1. CASE repo'[l] = c
      BY <2>1
    <2>2. CASE \E r \in Pages : <<l, c>> \in seen'[r]
      BY <2>2
    <2>3. CASE Coming(l, c)'
      <3>1. PICK r \in Pages : \E m \in jobs'[r] :
              m.kind \in {"save", "copy"} /\ m.step \in {"look", "put"} /\ m.at = l /\ m.content = c
        BY <2>3 DEF Coming
      <3>2. PICK m \in jobs'[r] :
              m.kind \in {"save", "copy"} /\ m.step \in {"look", "put"} /\ m.at = l /\ m.content = c
        BY <3>1
      <3>3. PICK k \in jobs[r] : From(k, m)
        OBVIOUS
      <3>4. QED
        BY <3>2, <3>3 DEF From, Known, Coming
    <2>4. QED
      BY <1>2, <2>1, <2>2, <2>3 DEF Known
  <1>3. ASSUME NEW c \in Contents, Held(c)'
        PROVE  Held(c) \/ \E l \in Listed : Known(l, c)
    <2>1. CASE \E r \in Pages : page'[r].content = c
      <3>1. PICK r \in Pages : page'[r].content = c
        BY <2>1
      <3>2. CASE page'[r].content \in {None, page[r].content}
        BY <3>1, <3>2, NoFile DEF Held
      <3>3. CASE \E l \in Listed : page'[r].content = repo[l]
        BY <3>1, <3>3 DEF Known
      <3>4. QED
        BY <3>2, <3>3
    <2>2. CASE \E r \in Pages : \E m \in jobs'[r] : m.content = c
      <3>1. PICK r \in Pages : \E m \in jobs'[r] : m.content = c
        BY <2>2
      <3>2. PICK m \in jobs'[r] : m.content = c
        BY <3>1
      <3>3. PICK k \in jobs[r] : From(k, m)
        OBVIOUS
      <3>4. QED
        BY <3>2, <3>3 DEF From, Held
    <2>3. QED
      BY <1>3, <2>1, <2>2 DEF Held
  <1>4. Numbered'
    <2>1. Numbered /\ writes' \in Nat /\ writes <= writes'
      BY DEF Inv2, TypeOK
    <2>2. ASSUME NEW c \in Contents, Held(c)' \/ (\E l \in Listed : Known(l, c)')
          PROVE  c.ver <= writes' \/ Held(c) \/ \E l \in Listed : Known(l, c)
      BY <1>2, <1>3, <2>2
    <2>3. QED
      BY <2>1, <2>2, NumberStep
  <1>5. OnePath'
    <2>1. OnePath
      BY DEF Inv2
    <2>2. QED
      BY <1>2, <2>1, PathStep
  <1>6. QED
    BY <1>1, <1>4, <1>5 DEF Inv2

\* The page opens something else, learns of a sidecar or is loaded anew.
LEMMA QuietSeen ==
  ASSUME TypeOK, Inv2, UNCHANGED <<repo, seen, writes>>,
         \A r \in Pages : jobs'[r] \subseteq jobs[r],
         \A r \in Pages : /\ page'[r].sha \in {None, page[r].sha}
                          /\ page'[r].content \in {None, page[r].content}
  PROVE  Inv2'
  <1>1. \A r \in Pages : \A m \in jobs'[r] : \E k \in jobs[r] : From(k, m)
    BY DEF From
  <1>2. \A r \in Pages, l \in Listed, c \in Contents : <<l, c>> \in seen'[r] => Known(l, c)
    BY DEF Known
  <1>3. \A l \in Listed, c \in Contents : repo'[l] = c => Known(l, c)
    BY DEF Known
  <1>4. QED
    BY <1>1, <1>2, <1>3, SeenStep

LEMMA FileAnswersSeen ==
  ASSUME TypeOK, Inv2, NEW p \in Pages, NEW d \in loads[p], FileAnswers(p, d)
  PROVE  Inv2'
  <1>1. d.at \in Listed /\ UNCHANGED <<repo, jobs, writes>>
    BY DEF TypeOK, Load, FileAnswers
  <1>2. /\ \A r \in Pages : \/ page'[r].content = page[r].content /\ page'[r].sha = page[r].sha
                            \/ /\ page'[r].content = repo[d.at]
                               /\ \/ repo[d.at] = None /\ page'[r].sha = page[r].sha
                                  \/ /\ repo[d.at] # None /\ page'[r].sha = repo[d.at]
                                     /\ <<d.at, repo[d.at]>> \in seen'[r]
        /\ \A r \in Pages : seen[r] \subseteq seen'[r]
        /\ \A r \in Pages : \A x \in seen'[r] :
             x \in seen[r] \/ (repo[d.at] # None /\ x = <<d.at, repo[d.at]>>)
    BY FileAnswersTypes
  <1>3. \A r \in Pages : \A m \in jobs'[r] : \E k \in jobs[r] : From(k, m)
    BY <1>1 DEF From
  <1>4. \A r \in Pages, l \in Listed, c \in Contents : <<l, c>> \in seen'[r] => Known(l, c)
    BY <1>2 DEF Known
  <1>5. \A l \in Listed, c \in Contents : repo'[l] = c => Known(l, c)
    BY <1>1 DEF Known
  <1>6. \A r \in Pages : \/ page'[r].sha \in {None, page[r].sha}
                         \/ \E l \in Listed : <<l, page'[r].sha>> \in seen'[r]
    BY <1>1, <1>2
  <1>7. \A r \in Pages : \/ page'[r].content \in {None, page[r].content}
                         \/ \E l \in Listed : page'[r].content = repo[l]
    BY <1>1, <1>2
  <1>8. QED
    BY <1>1, <1>2, <1>3, <1>4, <1>5, <1>6, <1>7, SeenStep

\* The handlers after a call, as what they were before.
LEMMA HandlersFrom ==
  ASSUME TypeOK, NEW p \in Pages, NEW j \in jobs[p], WellFormed(j), NEW next \in Ended, Proceed(p, j, next),
         \/ next.step \in {"done", "failed"}
         \/ \E g \in File : /\ next.step = Follows([j EXCEPT !.got = g]) /\ next.kind = j.kind
                            /\ next.at = j.at /\ next.content = j.content /\ next.sha = j.sha
  PROVE  \A r \in Pages : \A m \in jobs'[r] : \E k \in jobs[r] : From(k, m)
  <1> SUFFICES ASSUME NEW r \in Pages, NEW m \in jobs'[r] PROVE \E k \in jobs[r] : From(k, m)
    OBVIOUS
  <1>1. \/ r = p /\ m = next /\ next.step \notin {"done", "failed"}
        \/ \E k \in jobs[r] : Kept(k, m)
    BY HandlersAfter
  <1>2. CASE r = p /\ m = next /\ next.step \notin {"done", "failed"}
    <2>1. PICK g \in File : /\ next.step = Follows([j EXCEPT !.got = g]) /\ next.kind = j.kind
                            /\ next.at = j.at /\ next.content = j.content /\ next.sha = j.sha
      BY <1>2
    <2>2. j \in Job
      BY DEF TypeOK
    <2> DEFINE k == [j EXCEPT !.got = g]
    <2>3. /\ k \in Job /\ k.kind = j.kind /\ k.at = j.at /\ k.content = j.content /\ k.sha = j.sha
          /\ k.marks = j.marks /\ k.step = j.step
      BY <2>2, WithAnswer
    <2> HIDE DEF k
    <2>4. WellFormed(k)
      BY <2>3 DEF WellFormed
    <2>5. next.step = Follows(k)
      BY <2>1 DEF k
    <2>6. next.step \in {"look", "put"} => k.step = "look"
      BY <2>1, <2>3, <2>4, <2>5, Advances
    <2>7. From(j, m)
      BY <1>2, <2>1, <2>3, <2>6 DEF From
    <2>8. QED
      BY <1>2, <2>7
  <1>3. CASE \E k \in jobs[r] : Kept(k, m)
    BY <1>3 DEF Kept, From
  <1>4. QED
    BY <1>1, <1>2, <1>3

LEMMA ReadSeen ==
  ASSUME TypeOK, InStep, Inv2, NEW p \in Pages, NEW j \in jobs[p], Read(p, j)
  PROVE  Inv2'
  <1>1. PICK next \in Ended :
          /\ Proceed(p, j, next) /\ UNCHANGED repo
          /\ \/ /\ next.step = Follows([j EXCEPT !.got = next.got]) /\ next.at = j.at /\ next.kind = j.kind
                /\ next.content = j.content /\ next.sha = j.sha
                /\ next.got \in {None, repo[Target(j)]}
                /\ \/ UNCHANGED seen /\ ~(j.step = "reread" /\ j.kind = "save" /\ next.got # None)
                   \/ /\ next.got # None /\ j.step = "reread" /\ j.kind = "save"
                      /\ seen' = [seen EXCEPT ![p] = @ \cup {<<j.at, next.got>>}]
             \/ /\ next.step \in {"done", "failed"} /\ UNCHANGED seen
                /\ next.step = "done" => j.kind \in Removal
    BY ReadIs
  <1>2. j \in Job /\ j.kind \in Kinds /\ j.at \in Listed /\ WellFormed(j) /\ next.got \in File
    BY DEF TypeOK, Job, InStep, Ended
  <1>3. UNCHANGED writes
    BY <1>1 DEF Proceed
  <1>4. \A r \in Pages : \A m \in jobs'[r] : \E k \in jobs[r] : From(k, m)
    BY <1>1, <1>2, HandlersFrom
  <1>5. /\ \A r \in Pages : seen[r] \subseteq seen'[r]
        /\ \A r \in Pages : \A x \in seen'[r] :
             \/ x \in seen[r]
             \/ x = <<j.at, next.got>> /\ next.got = repo[j.at]
        /\ j.step = "reread" /\ j.kind = "save" /\ next.got # None /\ next.step = "done"
           => <<j.at, next.got>> \in seen'[p]
    <2>1. CASE UNCHANGED seen /\ ~(j.step = "reread" /\ j.kind = "save" /\ next.got # None /\ next.step = "done")
      BY <2>1
    <2>2. CASE /\ next.got # None /\ j.step = "reread" /\ j.kind = "save"
               /\ next.got \in {None, repo[Target(j)]}
               /\ seen' = [seen EXCEPT ![p] = @ \cup {<<j.at, next.got>>}]
      <3>1. next.got \in Contents
        BY <1>2, <2>2 DEF File
      <3>2. Target(j) = j.at
        BY <2>2 DEF Target
      <3>3. QED
        BY <1>2, <2>2, <3>1, <3>2, SeenTypes
    <2>3. QED
      BY <1>1, <2>1, <2>2 DEF Removal
  <1>6. \A r \in Pages : /\ page'[r].content \in {None, page[r].content}
                         /\ \/ page'[r].sha \in {None, page[r].sha}
                            \/ /\ r = p /\ page'[r].sha = next.got
                               /\ j.step = "reread" /\ next.step = "done" /\ j.kind # "mark"
    BY <1>1, PagesAfter
  <1>7. j.step = "reread" => j.kind \in {"save", "mark"}
    BY <1>2 DEF WellFormed, Kinds
  <1>8. \A r \in Pages : \/ page'[r].sha \in {None, page[r].sha}
                         \/ \E l \in Listed : <<l, page'[r].sha>> \in seen'[r]
    BY <1>2, <1>5, <1>6, <1>7
  <1>9. \A r \in Pages, l \in Listed, c \in Contents : <<l, c>> \in seen'[r] => Known(l, c)
    BY <1>5 DEF Known
  <1>10. \A l \in Listed, c \in Contents : repo'[l] = c => Known(l, c)
    BY <1>1 DEF Known
  <1>11. QED
    BY <1>3, <1>4, <1>5, <1>6, <1>8, <1>9, <1>10, SeenStep

LEMMA WriteSeen ==
  ASSUME TypeOK, InStep, Inv2, NEW p \in Pages, NEW j \in jobs[p], Write(p, j)
  PROVE  Inv2'
  <1>1. PICK next \in Ended :
          /\ Proceed(p, j, next) /\ j.step \notin Reading /\ next.kind = j.kind
          /\ \/ /\ Made(p, j)
                /\ next.step = Follows(j) /\ next.at = j.at /\ next.content = j.content
                /\ next.sha = j.sha
             \/ /\ Made(p, j) \/ UNCHANGED <<repo, seen, givenUp>>
                /\ next.step \in {"done", "failed"}
    BY WriteIs
  <1>2. j \in Job /\ j.kind \in Kinds /\ j.at \in Listed /\ WellFormed(j) /\ j.content \in File /\ j.got \in File
    BY DEF TypeOK, Job, InStep
  <1>3. UNCHANGED writes
    BY <1>1 DEF Proceed
  <1>4. \A r \in Pages : \A m \in jobs'[r] : \E k \in jobs[r] : From(k, m)
    <2>1. [j EXCEPT !.got = j.got] = j
      BY <1>2 DEF Job
    <2>2. QED
      BY <1>1, <1>2, <2>1, HandlersFrom
  <1>5. /\ \A r \in Pages : seen[r] \subseteq seen'[r]
        /\ \A r \in Pages : \A x \in seen'[r] :
             x \in seen[r] \/ (j.step = "put" /\ x = <<j.at, j.content>>)
        /\ \A l \in Paths : repo'[l] = repo[l] \/ (l = Target(j) /\ repo'[l] = Wanted(j))
    <2>1. CASE Made(p, j)
      BY <1>2, <2>1, MadeTypes
    <2>2. CASE UNCHANGED <<repo, seen, givenUp>>
      BY <2>2
    <2>3. QED
      BY <1>1, <2>1, <2>2
  <1>6. \A r \in Pages : /\ page'[r].content \in {None, page[r].content}
                         /\ page'[r].sha \in {None, page[r].sha}
    BY <1>1, PagesAfter DEF Reading
  <1>7. j.step = "put" => /\ Known(j.at, j.content) /\ Target(j) = j.at /\ Wanted(j) = j.content
    BY <1>2, PutIsContents DEF Known, Coming
  <1>8. \A r \in Pages, l \in Listed, c \in Contents : <<l, c>> \in seen'[r] => Known(l, c)
    BY <1>5, <1>7 DEF Known
  <1>9. ASSUME NEW l \in Listed, NEW c \in Contents, repo'[l] = c
        PROVE  Known(l, c) \/ (ForRemoval(c) /\ c.ver <= writes)
    <2>1. CASE repo'[l] = repo[l]
      BY <1>9, <2>1 DEF Known
    <2>2. CASE l = Target(j) /\ c = Wanted(j)
      <3>1. j.step \in {"stage", "put", "delete"} \/ Target(j) = Marks(j.at[2])
        BY <1>1, <1>2 DEF Target, Reading
      <3>2. j.at[2] \in Policies
        BY <1>2, ListedPath
      <3>3. Target(j) # Marks(j.at[2])
        BY <2>2, <3>2, PathsOf
      <3>4. CASE j.step = "put"
        BY <1>7, <2>2, <3>4
      <3>5. CASE j.step = "delete"
        BY <2>2, <3>5, NoFile DEF Wanted
      <3>6. CASE j.step = "stage"
        <4>1. c = Manifest(j.content) /\ ForRemoval(c)
          BY <1>2, <2>2, <3>6, ManifestFile DEF Wanted
        <4>2. CASE j.content = None
          <5>1. c.ver = 0 /\ writes \in Nat
            BY <1>2, <4>1, <4>2, ManifestFile DEF TypeOK
          <5>2. QED
            BY <4>1, <5>1
        <4>3. CASE j.content # None
          <5>1. j.content \in Contents /\ c.ver = j.content.ver
            BY <1>2, <4>1, <4>3, ManifestFile DEF File
          <5>2. Held(j.content)
            BY DEF Held
          <5>3. j.content.ver <= writes
            BY <5>1, <5>2 DEF Inv2, Numbered
          <5>4. QED
            BY <4>1, <5>1, <5>3
        <4>4. QED
          BY <4>2, <4>3
      <3>7. QED
        BY <3>1, <3>3, <3>4, <3>5, <3>6
    <2>3. QED
      BY <1>5, <1>9, <2>1, <2>2, ListedPath
  <1>10. QED
    BY <1>3, <1>4, <1>5, <1>6, <1>8, <1>9, SeenStep

\* New contents have a number of their own, and are for one path.
LEMMA ButtonSeen ==
  ASSUME TypeOK, Inv2, NEW p \in Pages, Button(p)
  PROVE  Inv2'
  <1>1. UNCHANGED <<repo, seen>>
    BY ButtonIs
  <1>2. PICK new \in Job : Pressed(p, new)
    BY ButtonIs
  <1>3. /\ \A r \in Pages : \A m \in jobs'[r] : m \in jobs[r] \/ (r = p /\ m = new)
        /\ TookSha(new) => new.sha = page[p].sha
        /\ writes' \in {writes, writes + 1} /\ writes \in Nat
        /\ \/ new.kind \notin {"save", "copy"} /\ new.content \in {None, page[p].content}
           \/ new.content # None /\ new.content.ver = writes + 1 /\ writes' = writes + 1
        /\ \A r \in Pages : /\ page'[r].sha = page[r].sha
                            /\ \/ page'[r].content = page[r].content
                               \/ r = p /\ page'[r].content = new.content
    BY <1>2 DEF Pressed, TookSha, TypeOK
  <1>4. ShaSeen'
    <2>1. \A r \in Pages : \A m \in jobs'[r] :
            TookSha(m) => \/ m.sha = page[r].sha
                          \/ \E k \in jobs[r] : TookSha(k) /\ m.sha = k.sha
      BY <1>3
    <2>2. ShaSeen /\ \A r \in Pages : seen[r] \subseteq seen'[r]
      BY <1>1 DEF Inv2
    <2>3. QED
      BY <1>3, <2>1, <2>2, ShaStep
  <1> DEFINE New(c) == c = new.content /\ c.ver = writes + 1 /\ writes' = writes + 1
  <1>5. ASSUME NEW c \in Contents, Held(c)'
        PROVE  Held(c) \/ New(c)
    <2>1. CASE \E r \in Pages : page'[r].content = c
      BY <1>3, <2>1, NoFile DEF Held
    <2>2. CASE \E r \in Pages : \E m \in jobs'[r] : m.content = c
      <3>1. PICK r \in Pages : \E m \in jobs'[r] : m.content = c
        BY <2>2
      <3>2. (\E m \in jobs[r] : m.content = c) \/ c = new.content
        BY <1>3, <3>1
      <3>3. QED
        BY <1>3, <3>2, NoFile DEF Held
    <2>3. QED
      BY <1>5, <2>1, <2>2 DEF Held
  <1>6. ASSUME NEW l \in Listed, NEW c \in Contents, Known(l, c)'
        PROVE  Known(l, c) \/ (New(c) /\ l = new.at)
    <2>1. CASE repo'[l] = c \/ \E r \in Pages : <<l, c>> \in seen'[r]
      BY <1>1, <2>1 DEF Known
    <2>2. CASE Coming(l, c)'
      <3>1. PICK r \in Pages : \E m \in jobs'[r] :
              m.kind \in {"save", "copy"} /\ m.step \in {"look", "put"} /\ m.at = l /\ m.content = c
        BY <2>2 DEF Coming
      <3>2. PICK m \in jobs'[r] :
              m.kind \in {"save", "copy"} /\ m.step \in {"look", "put"} /\ m.at = l /\ m.content = c
        BY <3>1
      <3>3. CASE m \in jobs[r]
        BY <3>2, <3>3 DEF Known, Coming
      <3>4. CASE m = new
        BY <1>3, <3>2, <3>4
      <3>5. QED
        BY <1>3, <3>3, <3>4
    <2>3. QED
      BY <1>6, <2>1, <2>2 DEF Known
  <1>7. Numbered'
    <2>1. Numbered /\ writes' \in Nat /\ writes <= writes'
      BY <1>3 DEF Inv2
    <2>2. ASSUME NEW c \in Contents, Held(c)' \/ (\E l \in Listed : Known(l, c)')
          PROVE  c.ver <= writes' \/ Held(c) \/ \E l \in Listed : Known(l, c)
      <3>1. Held(c) \/ New(c) \/ \E l \in Listed : Known(l, c)
        BY <1>5, <1>6, <2>2
      <3>2. New(c) => c.ver <= writes'
        BY <1>3
      <3>3. QED
        BY <3>1, <3>2
    <2>3. QED
      BY <2>1, <2>2, NumberStep
  <1>8. OnePath'
    <2> SUFFICES ASSUME NEW l \in Listed, NEW m \in Listed, NEW c \in Contents, Known(l, c)', Known(m, c)'
                 PROVE  l = m \/ ForRemoval(c)
      BY DEF OnePath, ForRemoval
    <2>1. Known(l, c) \/ Known(m, c) => c.ver <= writes
      BY DEF Inv2, Numbered
    <2>2. c.ver \in Nat
      BY DEF Contents
    <2>3. CASE New(c)
      <3>1. ~Known(l, c) /\ ~Known(m, c)
        BY <1>3, <2>1, <2>2, <2>3
      <3>2. QED
        BY <1>6, <3>1
    <2>4. CASE ~New(c)
      <3>1. Known(l, c) /\ Known(m, c)
        BY <1>6, <2>4
      <3>2. QED
        BY <3>1 DEF Inv2, OnePath
    <2>5. QED
      BY <2>3, <2>4
  <1>9. QED
    BY <1>4, <1>7, <1>8 DEF Inv2

LEMMA StepSeen == Inv /\ Inv2 /\ [Next]_vars => Inv2'
  <1>1. SUFFICES ASSUME Inv, Inv2, [Next]_vars PROVE Inv2'
    OBVIOUS
  <1>2. TypeOK /\ InStep
    BY <1>1 DEF Inv
  <1>3. CASE UNCHANGED vars
    <2>1. UNCHANGED <<repo, jobs, seen, writes, page>>
      BY <1>3 DEF vars, counters
    <2>2. QED
      BY <1>1, <1>2, <2>1, QuietSeen
  <1>4. ASSUME NEW p \in Pages, NEW l \in Listed, Click(p, l) PROVE Inv2'
    <2>1. /\ UNCHANGED <<repo, jobs, seen, writes>>
          /\ \A r \in Pages : \/ page'[r] = page[r]
                              \/ page'[r].sha = None /\ page'[r].content = None
      BY <1>2, <1>4, ClickIs
    <2>2. QED
      BY <1>1, <1>2, <2>1, QuietSeen
  <1>5. ASSUME NEW p \in Pages, NEW d \in loads[p], SidecarAnswers(p, d) PROVE Inv2'
    <2>1. /\ UNCHANGED <<repo, jobs, seen, writes>>
          /\ \A r \in Pages : page'[r].content = page[r].content /\ page'[r].sha = page[r].sha
      BY <1>2, <1>5, SidecarAnswersTypes DEF SidecarAnswers
    <2>2. QED
      BY <1>1, <1>2, <2>1, QuietSeen
  <1>6. ASSUME NEW p \in Pages, Reload(p) PROVE Inv2'
    <2>1. /\ UNCHANGED <<repo, seen, writes>> /\ \A r \in Pages : jobs'[r] \subseteq jobs[r]
          /\ \A r \in Pages : \/ page'[r] = page[r]
                              \/ page'[r].sha = None /\ page'[r].content = None
      BY <1>2, <1>6, ReloadTypes
    <2>2. QED
      BY <1>1, <1>2, <2>1, QuietSeen
  <1>7. ASSUME NEW p \in Pages, NEW d \in loads[p], FileAnswers(p, d) PROVE Inv2'
    BY <1>1, <1>2, <1>7, FileAnswersSeen
  <1>8. ASSUME NEW p \in Pages, Button(p) PROVE Inv2'
    BY <1>1, <1>2, <1>8, ButtonSeen
  <1>9. ASSUME NEW p \in Pages, NEW j \in jobs[p], Read(p, j) PROVE Inv2'
    BY <1>1, <1>2, <1>9, ReadSeen
  <1>10. ASSUME NEW p \in Pages, NEW j \in jobs[p], Write(p, j) PROVE Inv2'
    BY <1>1, <1>2, <1>10, WriteSeen
  <1>11. QED
    BY <1>1, <1>3, <1>4, <1>5, <1>6, <1>7, <1>8, <1>9, <1>10 DEF Next, Button

\* The contents that a save or a removal takes the place of.
LEMMA TakesSeen ==
  ASSUME Inv, Inv2, NEW p \in Pages, NEW j \in jobs[p], j.kind # "copy", j.step \in {"put", "delete"},
         repo[j.at] # None, repo'[j.at] # repo[j.at], Write(p, j)
  PROVE  \E l \in Listed : /\ <<l, repo[j.at]>> \in seen[p]
                           /\ l = j.at \/ repo[j.at] \in {Manifest(repo[j.at]), Manifest(None)}
  <1>1. j \in Job /\ j.at \in Listed /\ j.at \in Paths /\ WellFormed(j) /\ j.kind \in Kinds
    BY ListedPath DEF Inv, TypeOK, InStep, Job
  <1>2. j.kind \in {"save", "git", "tenants"} /\ (j.step = "put" => j.kind = "save")
    BY <1>1 DEF WellFormed, Kinds
  <1>3. repo[Target(j)] = Given(j)
    BY DEF Write, Accepts
  <1>4. Target(j) = j.at /\ Given(j) = j.sha
    BY <1>2 DEF Target, Given
  <1>5. PICK l \in Listed : <<l, repo[j.at]>> \in seen[p]
    BY <1>2, <1>3, <1>4 DEF Inv2, ShaSeen
  <1>6. repo[j.at] \in Contents
    BY <1>1 DEF Inv, TypeOK, File
  <1>7. Known(l, repo[j.at]) /\ Known(j.at, repo[j.at])
    BY <1>5 DEF Known
  <1>8. l = j.at \/ ForRemoval(repo[j.at])
    BY <1>1, <1>6, <1>7 DEF Inv2, OnePath
  <1>9. QED
    BY <1>5, <1>8 DEF ForRemoval

\* The sha that a save or a removal gives is one of contents that the page has loaded of
\* that path, or that a staging has written (BaselineClient.tsx:536-607).
THEOREM TakesWhatIsSeen == Spec => NoEditUnseen
  <1>1. Init => Inv /\ Inv2
    BY InitInv, InitSeen
  <1>2. Inv /\ Inv2 /\ [Next]_vars => (Inv /\ Inv2)'
    BY StepInv, StepSeen
  <1> DEFINE A == \A p \in Pages : \A j \in jobs[p] :
       /\ j.kind # "copy" /\ j.step \in {"put", "delete"}
       /\ repo[j.at] # None /\ repo'[j.at] # repo[j.at] /\ Write(p, j)
       => \E l \in Listed : /\ <<l, repo[j.at]>> \in seen[p]
                            /\ l = j.at \/ repo[j.at] \in {Manifest(repo[j.at]), Manifest(None)}
  <1>3. Inv /\ Inv2 => A
    BY TakesSeen
  <1>4. NoEditUnseen <=> [][A]_vars
    BY DEF NoEditUnseen
  <1> HIDE DEF A
  <1>5. QED
    BY <1>1, <1>2, <1>3, <1>4, PTL DEF Spec
-----------------------------------------------------------------------------
(* What is there of a policy describes it, unless its page held something else. *)

\* A handler that is to write contents of a policy has contents that describe it.
Writer(j)   == j.kind \in {"save", "tenants", "copy"}
NamesOwn(j) == Writer(j) /\ j.at[2] \notin crossed => Describes(j.content, j.at[2])
OwnFile(l)  == l[2] \notin crossed /\ repo[l] # None => Describes(repo[l], l[2])
Named       == (\A l \in Listed : OwnFile(l)) /\ \A p \in Pages : \A j \in jobs[p] : NamesOwn(j)

LEMMA InitNamed == Init => Named
  <1> SUFFICES ASSUME Init PROVE Named
    OBVIOUS
  <1>1. ASSUME NEW l \in Listed PROVE OwnFile(l)
    <2>1. repo[l] \in {Original(l[2]), None}
      BY <1>1, ListedPath DEF Init
    <2>2. QED
      BY <2>1 DEF OwnFile, Describes, Original
  <1>2. \A p \in Pages : jobs[p] = {}
    BY DEF Init
  <1>3. QED
    BY <1>1, <1>2 DEF Named

\* A step after which every handler that writes is one of before, with the same contents.
LEMMA SameNamed ==
  ASSUME Named, UNCHANGED crossed, \A l \in Listed : repo'[l] = repo[l] \/ OwnFile(l)',
         \A r \in Pages : \A m \in jobs'[r] :
           \E k \in jobs[r] : m.kind = k.kind /\ m.at = k.at /\ m.content = k.content
  PROVE  Named'
  <1>1. ASSUME NEW l \in Listed PROVE OwnFile(l)'
    BY DEF Named, OwnFile
  <1>2. ASSUME NEW r \in Pages, NEW m \in jobs'[r] PROVE NamesOwn(m)'
    <2>1. PICK k \in jobs[r] : m.kind = k.kind /\ m.at = k.at /\ m.content = k.content
      OBVIOUS
    <2>2. NamesOwn(k)
      BY DEF Named
    <2>3. QED
      BY <2>1, <2>2 DEF NamesOwn, Writer
  <1>3. Named' <=> (\A l \in Listed : OwnFile(l)') /\ \A r \in Pages : \A m \in jobs'[r] : NamesOwn(m)'
    BY DEF Named
  <1>4. QED
    BY <1>1, <1>2, <1>3

\* A button that begins a save or a staging with other contents marks the policy as crossed.
LEMMA PressNamed ==
  ASSUME TypeOK, Named, NEW p \in Pages, NEW kind \in Kinds, NEW l \in Listed, NEW content \in File,
         NEW sha \in File, NEW marks \in File, NEW step \in Steps,
         Press(p, kind, l, content, sha, marks, step), kind = "copy" => Describes(content, l[2])
  PROVE  Named'
  <1> DEFINE new == Started(kind, l, content, sha, marks, step)
  <1>1. /\ \A r \in Pages : \A m \in jobs'[r] : m \in jobs[r] \/ (r = p /\ m = new)
        /\ UNCHANGED repo
    BY Presses
  <1>2. new.kind = kind /\ new.at = l /\ new.content = content
    BY DEF Started
  <1> HIDE DEF new
  <1>3. crossed \subseteq crossed'
    BY DEF Press
  <1>4. kind \in {"save", "tenants"} /\ ~Describes(content, l[2]) => l[2] \in crossed'
    BY DEF Press
  <1>5. ASSUME NEW m \in Listed PROVE OwnFile(m)'
    BY <1>1, <1>3 DEF Named, OwnFile
  <1>6. NamesOwn(new)'
    BY <1>2, <1>4 DEF NamesOwn, Writer
  <1>7. ASSUME NEW r \in Pages, NEW m \in jobs[r] PROVE NamesOwn(m)'
    <2>1. NamesOwn(m)
      BY <1>7 DEF Named
    <2>2. QED
      BY <1>3, <2>1 DEF NamesOwn
  <1>8. Named' <=> (\A m \in Listed : OwnFile(m)') /\ \A r \in Pages : \A m \in jobs'[r] : NamesOwn(m)'
    BY DEF Named
  <1>9. QED
    BY <1>1, <1>5, <1>6, <1>7, <1>8

LEMMA ButtonNamed ==
  ASSUME TypeOK, Named, NEW p \in Pages, Button(p)
  PROVE  Named'
  <1>1. None \in File /\ page[p].sha \in File /\ page[p].marks \in File /\ page[p].content \in File
    BY WindowOf DEF File
  <1>2. /\ {"save", "git", "tenants", "mark", "clear", "copy"} \subseteq Kinds
        /\ {"put", "delete", "check", "look", "erase"} \subseteq Steps
    BY DEF Kinds, Steps
  <1>3. CASE SaveFile(p)
    <2> DEFINE edited == [page[p].content EXCEPT !.ver = writes + 1]
    <2>1. /\ page[p].at # None /\ page[p].content # None
          /\ Press(p, "save", page[p].at, edited, page[p].sha, None, "put")
      BY <1>3 DEF SaveFile, Ready
    <2>2. page[p].at \in Listed /\ edited \in File
      BY <1>1, <2>1, WindowOf, Edited DEF File
    <2> HIDE DEF edited
    <2>3. QED
      BY <1>1, <1>2, <2>1, <2>2, PressNamed
  <1>4. CASE RemoveFromGit(p)
    <2>1. page[p].at # None /\ Press(p, "git", page[p].at, None, page[p].sha, page[p].marks, "delete")
      BY <1>4 DEF RemoveFromGit, Ready
    <2>2. page[p].at \in Listed
      BY <2>1, WindowOf
    <2>3. QED
      BY <1>1, <1>2, <2>1, <2>2, PressNamed
  <1>5. CASE RemoveFromTenants(p)
    <2>1. /\ page[p].at # None
          /\ Press(p, "tenants", page[p].at, page[p].content, page[p].sha, page[p].marks, "check")
      BY <1>5 DEF RemoveFromTenants, Ready
    <2>2. page[p].at \in Listed
      BY <2>1, WindowOf
    <2>3. QED
      BY <1>1, <1>2, <2>1, <2>2, PressNamed
  <1>6. CASE SaveSidecar(p)
    <2>1. /\ page[p].at # None
          /\ \/ Press(p, "mark", page[p].at, Fresh(page[p].at[2]), None, None, "look")
             \/ Press(p, "clear", page[p].at, None, None, page[p].marks, "erase")
      BY <1>6 DEF SaveSidecar, Ready
    <2>2. page[p].at \in Listed /\ Fresh(page[p].at[2]) \in File
      BY <2>1, WindowOf, ListedPath, FreshFile DEF File
    <2>3. QED
      BY <1>1, <1>2, <2>1, <2>2, PressNamed
  <1>7. ASSUME NEW q \in Policies, CopyToBaseline(p, q) PROVE Named'
    <2>1. PICK marks \in {None, Fresh(q)} : Press(p, "copy", Deploy(q), Fresh(q), None, marks, "look")
      BY <1>7 DEF CopyToBaseline
    <2>2. Fresh(q) \in File /\ marks \in File /\ Deploy(q) \in Listed /\ Deploy(q)[2] = q
      BY <1>1, FreshFile, PathsOf DEF File
    <2>3. Fresh(q) # None /\ Fresh(q).of = q
      BY FreshFile, NoFile DEF Fresh
    <2>4. Describes(Fresh(q), Deploy(q)[2])
      BY <2>2, <2>3 DEF Describes
    <2>5. QED
      BY <1>1, <1>2, <2>1, <2>2, <2>4, PressNamed
  <1>8. QED
    BY <1>3, <1>4, <1>5, <1>6, <1>7 DEF Button

\* What a staging or a save writes describes the policy that it is written of.
LEMMA WritesOwn ==
  ASSUME TypeOK, Named, NEW p \in Pages, NEW j \in jobs[p], WellFormed(j), j.step \notin Reading, Made(p, j),
         UNCHANGED crossed, NEW l \in Listed
  PROVE  repo'[l] = repo[l] \/ OwnFile(l)'
  <1>1. j \in Job /\ l \in Paths
    BY ListedPath DEF TypeOK
  <1>2. repo'[l] = IF l = Target(j) THEN Wanted(j) ELSE repo[l]
    BY <1>1, MadeTypes
  <1>3. CASE l = Target(j) /\ j.step = "put"
    <2>1. Writer(j) /\ Target(j) = j.at /\ Wanted(j) = j.content
      BY <1>1, <1>3, PutIsContents DEF Writer
    <2>2. NamesOwn(j)
      BY DEF Named
    <2>3. QED
      BY <1>2, <1>3, <2>1, <2>2 DEF NamesOwn, OwnFile
  <1>4. CASE l = Target(j) /\ j.step = "stage"
    <2>1. Writer(j) /\ Target(j)[2] = j.at[2] /\ Wanted(j) = Manifest(j.content) /\ j.content \in File
      BY <1>1, <1>4, Writes1, Targets DEF Writer, Job
    <2>2. ASSUME j.at[2] \notin crossed PROVE Describes(Wanted(j), j.at[2])
      <3>1. Describes(j.content, j.at[2])
        BY <2>1, <2>2 DEF Named, NamesOwn
      <3>2. j.content # None /\ j.content \in Contents /\ j.content.of = j.at[2]
        BY <2>1, <3>1 DEF Describes, File
      <3>3. Manifest(j.content) = [j.content EXCEPT !.reason = TRUE]
        BY <3>2 DEF Manifest
      <3>4. Manifest(j.content).of = j.at[2]
        BY <3>2, <3>3 DEF Contents
      <3>5. Manifest(j.content) # None
        BY <2>1, ManifestFile, NoFile
      <3>6. QED
        BY <2>1, <3>4, <3>5 DEF Describes
    <2>3. QED
      BY <1>2, <1>4, <2>1, <2>2 DEF OwnFile
  <1>5. CASE l = Target(j) /\ j.step = "delete"
    BY <1>1, <1>2, <1>5, Writes1 DEF OwnFile
  <1>6. CASE l = Target(j) /\ j.step \notin {"put", "stage", "delete"}
    BY <1>1, <1>6, Writes1, PathsOf
  <1>7. QED
    BY <1>2, <1>3, <1>4, <1>5, <1>6

LEMMA CallNamed ==
  ASSUME Inv, Named, NEW p \in Pages, NEW j \in jobs[p], Read(p, j) \/ Write(p, j)
  PROVE  Named'
  <1>1. TypeOK /\ j \in Job /\ WellFormed(j)
    BY DEF Inv, InStep, TypeOK
  <1>2. PICK next \in Ended :
          /\ Proceed(p, j, next) /\ next.kind = j.kind
          /\ \/ next.step \in {"done", "failed"}
             \/ next.at = j.at /\ next.content = j.content
          /\ UNCHANGED repo \/ (Made(p, j) /\ j.step \notin Reading)
    <2>1. CASE Read(p, j)
      BY <1>1, <2>1, ReadIs
    <2>2. CASE Write(p, j)
      BY <1>1, <2>2, WriteIs
    <2>3. QED
      BY <2>1, <2>2
  <1>3. UNCHANGED crossed
    BY <1>2 DEF Proceed
  <1>4. ASSUME NEW r \in Pages, NEW m \in jobs'[r]
        PROVE  \E k \in jobs[r] : m.kind = k.kind /\ m.at = k.at /\ m.content = k.content
    <2>1. \/ r = p /\ m = next /\ next.step \notin {"done", "failed"}
          \/ \E k \in jobs[r] : Kept(k, m)
      BY <1>1, <1>2, HandlersAfter
    <2>2. QED
      BY <1>2, <2>1 DEF Kept
  <1>5. \A l \in Listed : repo'[l] = repo[l] \/ OwnFile(l)'
    BY <1>1, <1>2, <1>3, WritesOwn
  <1>6. QED
    BY <1>3, <1>4, <1>5, SameNamed

LEMMA StepNamed == Inv /\ Named /\ [Next]_vars => Named'
  <1> SUFFICES ASSUME Inv, Named, [Next]_vars PROVE Named'
    OBVIOUS
  <1>1. TypeOK
    BY DEF Inv
  <1>2. CASE UNCHANGED <<repo, jobs, crossed>>
    BY <1>2, SameNamed
  <1>3. ASSUME NEW p \in Pages, Reload(p) PROVE Named'
    <2>1. UNCHANGED <<repo, crossed>> /\ jobs' = [jobs EXCEPT ![p] = {}]
      BY <1>3 DEF Reload
    <2>2. \A r \in Pages : jobs'[r] \subseteq jobs[r]
      BY <1>1, <2>1 DEF TypeOK
    <2>3. QED
      BY <2>1, <2>2, SameNamed
  <1>4. ASSUME NEW p \in Pages, Button(p) PROVE Named'
    BY <1>1, <1>4, ButtonNamed
  <1>5. ASSUME NEW p \in Pages, NEW j \in jobs[p], Read(p, j) \/ Write(p, j) PROVE Named'
    BY <1>5, CallNamed
  <1>6. ASSUME NEW p \in Pages, NEW l \in Listed, Click(p, l) PROVE UNCHANGED <<repo, jobs, crossed>>
    BY <1>6 DEF Click
  <1>7. ASSUME NEW p \in Pages, NEW d \in loads[p], FileAnswers(p, d) \/ SidecarAnswers(p, d)
        PROVE  UNCHANGED <<repo, jobs, crossed>>
    BY <1>7 DEF FileAnswers, SidecarAnswers
  <1>8. CASE UNCHANGED vars
    BY <1>2, <1>8 DEF vars
  <1>9. QED
    BY <1>2, <1>3, <1>4, <1>5, <1>6, <1>7, <1>8 DEF Next, Button

\* No policy drops out of the baseline and the staging tree unless it was removed from Git,
\* and what is there of it describes it unless the editor held other contents when it was
\* saved or staged (BaselineClient.tsx:536-585).
THEOREM NothingForgotten == Spec => []NotForgotten
  <1>1. Init => Inv /\ Named
    BY InitInv, InitNamed
  <1>2. Inv /\ Named /\ [Next]_vars => (Inv /\ Named)'
    BY StepInv, StepNamed
  <1>3. ASSUME Inv, Named PROVE NotForgotten
    <2>1. ASSUME NEW q \in Policies \ givenUp
          PROVE  \E l \in {Deploy(q), Staged(q)} : Describes(repo[l], q) \/ (repo[l] # None /\ q \in crossed)
      <3>1. PICK l \in {Deploy(q), Staged(q)} : repo[l] # None
        BY <1>3 DEF Inv, Somewhere
      <3>2. l \in Listed /\ l[2] = q
        BY PathsOf
      <3>3. QED
        BY <1>3, <3>1, <3>2 DEF Named, OwnFile
    <2>2. QED
      BY <2>1 DEF NotForgotten
  <1>4. QED
    BY <1>1, <1>2, <1>3, PTL DEF Spec
=============================================================================
