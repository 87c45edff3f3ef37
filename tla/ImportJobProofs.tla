-------------------------- MODULE ImportJobProofs --------------------------
(***************************************************************************)
(* Proofs about ImportJob, for any number of imports, files, faults and    *)
(* restarts, any batch and chunk size, with or without a path prefix.  The *)
(* inductive invariant says where an import's files are: what is staged    *)
(* and what the browser still has to upload always make up the whole       *)
(* import (Target); a commit has read the whole import, and has written    *)
(* what is no longer left to write.                                        *)
(***************************************************************************)
EXTENDS ImportJob, FiniteSetTheorems, TLAPS

\* The files of an import with a prefix put n times.
Prefixed(n) == [file : Files, prefixes : {n}]
Uploads == Prefixed(IF PathPrefix THEN 2 ELSE 0)
Target  == Prefixed(IF PathPrefix THEN 3 ELSE 0)

LEMMA FinalizePrefixed ==
  ASSUME NEW n \in Nat
  PROVE  Finalize(Prefixed(n)) = Prefixed(IF PathPrefix THEN n + 1 ELSE n)
<1>1. CASE PathPrefix
  <2>1. ASSUME NEW p \in Prefixed(n)
        PROVE  [p EXCEPT !.prefixes = @ + 1] \in Prefixed(n + 1)
    BY DEF Prefixed
  <2>2. ASSUME NEW q \in Prefixed(n + 1)
        PROVE  \E p \in Prefixed(n) : q = [p EXCEPT !.prefixes = @ + 1]
    <3>1. q = [file |-> q.file, prefixes |-> n + 1] /\ q.file \in Files
      BY DEF Prefixed
    <3> DEFINE p == [file |-> q.file, prefixes |-> n]
    <3>2. p \in Prefixed(n) /\ q = [p EXCEPT !.prefixes = @ + 1]
      BY <3>1 DEF Prefixed
    <3>3. QED
      BY <3>2
  <2>3. QED
    BY <1>1, <2>1, <2>2 DEF Finalize
<1>2. CASE ~PathPrefix
  BY <1>2 DEF Finalize
<1>3. QED
  BY <1>1, <1>2

LEMMA FinalizeSplit ==
  ASSUME NEW P, NEW B \in SUBSET P
  PROVE  Finalize(P) = Finalize(B) \cup Finalize(P \ B)
BY DEF Finalize

LEMMA FinalizeNothing == Finalize({}) = {}
BY DEF Finalize

LEMMA FinalizeTwice ==
  Finalize(Finalize([file : Files, prefixes : {0}])) = Uploads
<1>1. CASE PathPrefix
  BY <1>1, FinalizePrefixed, 0 + 1 = 1, 1 + 1 = 2 DEF Uploads, Prefixed
<1>2. CASE ~PathPrefix
  BY <1>2 DEF Finalize, Uploads, Prefixed
<1>3. QED
  BY <1>1, <1>2

LEMMA UploadsBecomeTarget == Finalize(Uploads) = Target
<1>1. CASE PathPrefix
  BY <1>1, FinalizePrefixed, 2 + 1 = 3 DEF Uploads, Target
<1>2. CASE ~PathPrefix
  BY <1>2 DEF Finalize, Uploads, Target
<1>3. QED
  BY <1>1, <1>2

LEMMA TargetPaths == Target \subseteq Paths /\ Uploads \subseteq Paths
BY DEF Target, Uploads, Prefixed, Paths

LEMMA PrefixedCardinality ==
  ASSUME NEW n
  PROVE  IsFiniteSet(Prefixed(n)) /\ Cardinality(Prefixed(n)) = Total /\ Total \in Nat
<1> DEFINE to == [f \in Files |-> [file |-> f, prefixes |-> n]]
<1>1. to \in Bijection(Files, Prefixed(n))
  <2>1. to \in [Files -> Prefixed(n)]
    BY DEF Prefixed
  <2>2. \A f, g \in Files : to[f] = to[g] => f = g
    <3> SUFFICES ASSUME NEW f \in Files, NEW g \in Files, to[f] = to[g] PROVE f = g
      OBVIOUS
    <3>1. to[f].file = f /\ to[g].file = g
      OBVIOUS
    <3>2. QED
      BY <3>1
  <2>3. \A p \in Prefixed(n) : \E f \in Files : to[f] = p
    BY DEF Prefixed
  <2>4. QED
    BY <2>1, <2>2, <2>3 DEF Bijection, Injection, Surjection, IsInjective
<1>2. ExistsBijection(Files, Prefixed(n))
  BY <1>1 DEF ExistsBijection
<1>3. QED
  BY <1>2, FS_Bijection, FS_CardinalityType, ConstantsAssumption DEF Total

LEMMA TargetCardinality ==
  /\ IsFiniteSet(Target) /\ Cardinality(Target) = Total
  /\ IsFiniteSet(Uploads) /\ Total \in Nat
BY PrefixedCardinality DEF Target, Uploads

-----------------------------------------------------------------------------
(* The inductive invariant, of every import. *)

NotCreated(j) == client[j] = "idle" => phase[j] = "none" /\ staged[j] = {}

\* What is staged and what is still to upload make up the import.
UploadKept(j) ==
  /\ todo[j] \subseteq Uploads
  /\ client[j] = "upload" /\ phase[j] = "uploading" =>
       staged[j] \cup Finalize(todo[j]) = Target

\* A commit has read the whole import, and writes what is left of it.
CommitKept(j) ==
  /\ worker[j] # "off" =>
       /\ phase[j] \in {"committing", "gone"}
       /\ files[j] = Target
       /\ left[j] \subseteq files[j]
       /\ files[j] \ left[j] \subseteq wrote[j]
  /\ worker[j] = "put" => seen[j].path \in left[j]

WroteTarget(j) == wrote[j] # {} => files[j] = Target /\ wrote[j] \subseteq Target

Finished(j) ==
  /\ phase[j] = "done" \/ client[j] = "imported" => wrote[j] = Target /\ committed[j] = Total
  /\ client[j] = "imported" => phase[j] = "gone"

JobInv(j) ==
  /\ NotCreated(j)
  /\ UploadKept(j)
  /\ CommitKept(j)
  /\ WroteTarget(j)
  /\ Finished(j)
  /\ committed[j] <= Cardinality(wrote[j])

IInv == TypeOK /\ \A j \in Jobs : JobInv(j)

-----------------------------------------------------------------------------
(* Helpers. *)

LEMMA Updated ==
  ASSUME NEW T, NEW f \in [Jobs -> T], NEW j \in Jobs, NEW v \in T
  PROVE  [f EXCEPT ![j] = v] \in [Jobs -> T]
OBVIOUS

LEMMA Counted ==
  ASSUME NEW S \in SUBSET Target, NEW T \in SUBSET S
  PROVE  /\ Cardinality(S) \in 0 .. Total /\ Cardinality(T) \in 0 .. Total
         /\ Cardinality(T) <= Cardinality(S)
<1>1. /\ IsFiniteSet(S) /\ Cardinality(S) \in Nat /\ Cardinality(S) <= Total
  BY TargetCardinality, FS_Subset, FS_CardinalityType
<1>2. /\ Cardinality(T) \in Nat /\ Cardinality(T) <= Cardinality(S)
  BY <1>1, FS_Subset, FS_CardinalityType
<1>3. QED
  BY <1>1, <1>2, TargetCardinality

LEMMA InitIInv == Init => IInv
<1> SUFFICES ASSUME Init PROVE IInv
  OBVIOUS
<1>1. 0 \in 0 .. Total /\ 0 \in 0 .. MaxFaults /\ 0 \in 0 .. MaxCrashes
  BY TargetCardinality, ConstantsAssumption
<1>2. TypeOK
  BY <1>1 DEF Init, TypeOK, NoLookup
<1>3. ASSUME NEW j \in Jobs PROVE JobInv(j)
  <2>1. Cardinality({}) = 0
    BY FS_EmptySet
  <2>2. committed[j] <= Cardinality(wrote[j])
    BY <2>1 DEF Init
  <2>3. QED
    BY <2>2 DEF Init, JobInv, NotCreated, UploadKept, CommitKept, WroteTarget, Finished
<1>4. QED
  BY <1>2, <1>3 DEF IInv

\* An import whose state does not change keeps its invariant.
LEMMA Frame ==
  ASSUME NEW k \in Jobs, JobInv(k),
         client'[k] = client[k], todo'[k] = todo[k], phase'[k] = phase[k],
         committed'[k] = committed[k], staged'[k] = staged[k], worker'[k] = worker[k],
         files'[k] = files[k], left'[k] = left[k], seen'[k] = seen[k], wrote'[k] = wrote[k]
  PROVE  JobInv(k)'
BY DEF JobInv, NotCreated, UploadKept, CommitKept, WroteTarget, Finished

\* So does one whose job is removed.
LEMMA FrameGone ==
  ASSUME NEW k \in Jobs, JobInv(k),
         phase[k] # "none", phase'[k] = "gone",
         client'[k] = client[k], todo'[k] = todo[k], committed'[k] = committed[k],
         worker'[k] = worker[k],
         files'[k] = files[k], left'[k] = left[k], seen'[k] = seen[k], wrote'[k] = wrote[k]
  PROVE  JobInv(k)'
BY DEF JobInv, NotCreated, UploadKept, CommitKept, WroteTarget, Finished

-----------------------------------------------------------------------------
(* The ends of a commit. *)

LEMMA Moved ==
  ASSUME TypeOK, NEW j \in Jobs,
         NEW state \in {"idle", "upload", "poll", "imported", "failed", "cancelled"},
         Become(j, state)
  PROVE  client' \in [Jobs -> {"idle", "upload", "poll", "imported", "failed", "cancelled"}]
BY Updated DEF TypeOK, Become

LEMMA Removed ==
  ASSUME TypeOK, NEW K, Remove(K)
  PROVE  /\ phase' \in [Jobs -> {"none", "uploading", "committing", "done", "error", "gone"}]
         /\ staged' \in [Jobs -> SUBSET Paths]
BY DEF TypeOK, Remove

LEMMA EndTyped ==
  ASSUME TypeOK, NEW j \in Jobs, NEW result \in {"done", "error"}, End(j, result)
  PROVE  /\ worker' \in [Jobs -> {"off", "batch", "get", "put"}]
         /\ phase' \in [Jobs -> {"none", "uploading", "committing", "done", "error", "gone"}]
         /\ staged' \in [Jobs -> SUBSET Paths]
BY Updated DEF TypeOK, End, Run, Exists

LEMMA GoOnTyped ==
  ASSUME TypeOK, NEW j \in Jobs, NEW next \in {"batch", "get"}, GoOn(j, next),
         files[j] \subseteq Target
  PROVE  /\ worker' \in [Jobs -> {"off", "batch", "get", "put"}]
         /\ phase' \in [Jobs -> {"none", "uploading", "committing", "done", "error", "gone"}]
         /\ staged' \in [Jobs -> SUBSET Paths]
         /\ committed' \in [Jobs -> 0 .. Total]
<1>1. committed' \in [Jobs -> 0 .. Total]
  <2>1. Cardinality(files[j] \ left'[j]) \in 0 .. Total
    BY Counted
  <2>2. QED
    BY <2>1, Updated DEF GoOn, Progress, TypeOK
<1>2. CASE left'[j] = {}
  <2>1. End(j, "done")
    BY <1>2 DEF GoOn
  <2>2. QED
    BY <2>1, <1>1, EndTyped
<1>3. CASE left'[j] # {}
  BY <1>3, <1>1, Updated DEF GoOn, Run, TypeOK
<1>4. QED
  BY <1>2, <1>3

LEMMA Written ==
  ASSUME TypeOK, NEW j \in Jobs, NEW P \in SUBSET Paths, WriteToRepo(j, P)
  PROVE  /\ repo' \in [Paths -> Jobs \cup {Nobody}]
         /\ wrote' \in [Jobs -> SUBSET Paths]
         /\ wrote'[j] = wrote[j] \cup P
         /\ \A k \in Jobs \ {j} : wrote'[k] = wrote[k]
<1>1. wrote[j] \cup P \in SUBSET Paths
  BY DEF TypeOK
<1>2. QED
  BY <1>1, Updated DEF TypeOK, WriteToRepo

LEMMA Forgotten ==
  ASSUME TypeOK, NEW j \in Jobs, seen' = [seen EXCEPT ![j] = NoLookup]
  PROVE  seen' \in [Jobs -> [path : Paths \cup {Nobody}, version : Jobs \cup {Nobody}]]
<1>1. NoLookup \in [path : Paths \cup {Nobody}, version : Jobs \cup {Nobody}]
  BY DEF NoLookup
<1>2. QED
  BY <1>1, Updated DEF TypeOK

LEMMA Chunk ==
  ASSUME NEW S, NEW n, NEW B \in SomeOf(S, n)
  PROVE  B \subseteq S
BY DEF SomeOf

\* The commit of an import writes B, of what is left, and goes on.
LEMMA WriteOn ==
  ASSUME TypeOK, NEW j \in Jobs, JobInv(j), worker[j] # "off",
         NEW B \in SUBSET left[j], NEW next \in {"batch", "get"},
         WriteToRepo(j, B), left' = [left EXCEPT ![j] = @ \ B],
         GoOn(j, next), UNCHANGED <<browser, files>>
  PROVE  JobInv(j)'
<1>1. /\ wrote'[j] = wrote[j] \cup B /\ left'[j] = left[j] \ B
      /\ files'[j] = files[j] /\ client'[j] = client[j] /\ todo'[j] = todo[j]
  BY DEF TypeOK, WriteToRepo, browser
<1>2. /\ phase[j] \in {"committing", "gone"} /\ files[j] = Target
      /\ left[j] \subseteq Target /\ files[j] \ left[j] \subseteq wrote[j]
      /\ wrote[j] \subseteq Target
  BY DEF JobInv, CommitKept, WroteTarget
<1>3. files[j] \ left'[j] \subseteq wrote'[j] /\ wrote'[j] \subseteq Target
  BY <1>1, <1>2
<1>4. committed[j] <= Cardinality(wrote[j]) /\ committed[j] \in Nat
  BY TargetCardinality DEF JobInv, TypeOK
<1>5. /\ Cardinality(wrote[j]) <= Cardinality(wrote'[j])
      /\ Cardinality(files[j] \ left'[j]) <= Cardinality(wrote'[j])
      /\ Cardinality(wrote[j]) \in Nat /\ Cardinality(wrote'[j]) \in Nat
      /\ Cardinality(files[j] \ left'[j]) \in Nat
  <2>1. /\ wrote[j] \in SUBSET wrote'[j] /\ files[j] \ left'[j] \in SUBSET wrote'[j]
        /\ wrote'[j] \in SUBSET Target
    BY <1>1, <1>3
  <2>2. /\ Cardinality(wrote[j]) \in 0 .. Total /\ Cardinality(wrote'[j]) \in 0 .. Total
        /\ Cardinality(wrote[j]) <= Cardinality(wrote'[j])
    BY <2>1, Counted
  <2>3. /\ Cardinality(files[j] \ left'[j]) \in 0 .. Total
        /\ Cardinality(files[j] \ left'[j]) <= Cardinality(wrote'[j])
    BY <2>1, Counted
  <2>4. QED
    BY <2>2, <2>3, TargetCardinality
<1>6. committed'[j] = IF phase[j] = "committing" THEN Cardinality(files[j] \ left'[j])
                                                ELSE committed[j]
  BY DEF GoOn, Progress, TypeOK
<1>7. committed'[j] <= Cardinality(wrote'[j])
  BY <1>4, <1>5, <1>6
<1>8. NotCreated(j)' /\ UploadKept(j)' /\ WroteTarget(j)'
  <2>1. /\ phase'[j] \notin {"none", "uploading"} /\ client[j] # "idle"
        /\ todo[j] \subseteq Uploads
    BY <1>2 DEF GoOn, End, Exists, TypeOK, JobInv, NotCreated, UploadKept
  <2>2. QED
    BY <2>1, <1>1, <1>2, <1>3 DEF NotCreated, UploadKept, WroteTarget
<1>9. CASE left'[j] = {}
  <2>1. End(j, "done")
    BY <1>9 DEF GoOn
  <2>2. worker'[j] = "off" /\ phase'[j] = IF phase[j] = "gone" THEN "gone" ELSE "done"
    BY <2>1, <1>2 DEF End, Run, Exists, TypeOK
  <2>3. wrote'[j] = Target
    BY <1>2, <1>3, <1>9
  <2>4. phase[j] = "committing" => committed'[j] = Total
    <3>1. files[j] \ left'[j] = Target
      BY <1>2, <1>9
    <3>2. QED
      BY <3>1, <1>6, TargetCardinality
  <2>5. Finished(j)'
    BY <1>1, <1>2, <1>6, <2>2, <2>3, <2>4 DEF JobInv, Finished
  <2>6. CommitKept(j)'
    BY <2>2 DEF CommitKept
  <2>7. QED
    BY <1>7, <1>8, <2>5, <2>6 DEF JobInv
<1>10. CASE left'[j] # {}
  <2>1. worker'[j] = next /\ phase' = phase
    BY <1>10 DEF GoOn, Run, TypeOK
  <2>2. CommitKept(j)'
    BY <2>1, <1>1, <1>2, <1>3 DEF CommitKept
  <2>3. Finished(j)'
    BY <2>1, <1>1, <1>2, <1>3, <1>6 DEF JobInv, Finished
  <2>4. QED
    BY <1>7, <1>8, <2>2, <2>3 DEF JobInv
<1>11. QED
  BY <1>9, <1>10

\* It ends with an error, after writing B or nothing.
LEMMA ErrorKept ==
  ASSUME TypeOK, NEW j \in Jobs, JobInv(j), worker[j] # "off",
         End(j, "error"), wrote'[j] \in {wrote[j]} \cup {wrote[j] \cup B : B \in SUBSET left[j]},
         UNCHANGED <<browser, committed, files, left>>
  PROVE  JobInv(j)'
<1>1. /\ worker'[j] = "off" /\ phase[j] \in {"committing", "gone"}
      /\ phase'[j] = IF phase[j] = "gone" THEN "gone" ELSE "error"
  BY DEF End, Run, Exists, TypeOK, JobInv, CommitKept
<1>2. /\ files[j] = Target /\ wrote[j] \subseteq wrote'[j] /\ wrote'[j] \subseteq Target
  BY DEF JobInv, CommitKept, WroteTarget
<1>3. committed'[j] <= Cardinality(wrote'[j])
  <2>1. /\ wrote'[j] \in SUBSET Target /\ wrote[j] \in SUBSET wrote'[j]
    BY <1>2
  <2>2. /\ Cardinality(wrote[j]) \in 0 .. Total /\ Cardinality(wrote'[j]) \in 0 .. Total
        /\ Cardinality(wrote[j]) <= Cardinality(wrote'[j])
    BY <2>1, Counted
  <2>3. committed[j] <= Cardinality(wrote[j]) /\ committed[j] \in 0 .. Total
    BY DEF JobInv, TypeOK
  <2>4. QED
    BY <2>2, <2>3, TargetCardinality
<1>4. NotCreated(j)' /\ UploadKept(j)' /\ CommitKept(j)'
  BY <1>1 DEF JobInv, NotCreated, UploadKept, CommitKept, browser
<1>5. WroteTarget(j)'
  BY <1>2 DEF WroteTarget
<1>6. Finished(j)'
  BY <1>1, <1>2 DEF JobInv, Finished, browser
<1>7. QED
  BY <1>3, <1>4, <1>5, <1>6 DEF JobInv

-----------------------------------------------------------------------------
(* Every step keeps the type. *)

LEMMA TypeKept == IInv /\ [Next]_vars => TypeOK'
<1> SUFFICES ASSUME IInv, [Next]_vars PROVE TypeOK'
  OBVIOUS
<1> USE ConstantsAssumption
<1>0. /\ TypeOK /\ Total \in Nat
      /\ \A j \in Jobs : worker[j] # "off" => files[j] = Target /\ left[j] \in SUBSET Paths
  BY TargetCardinality DEF IInv, JobInv, CommitKept, TypeOK
<1>1. ASSUME NEW j \in Jobs, Create(j) PROVE TypeOK'
  <2>1. todo' \in [Jobs -> SUBSET Paths]
    BY <1>0, <1>1, FinalizeTwice, TargetPaths DEF TypeOK, Create
  <2>2. QED
    BY <1>0, <1>1, <2>1 DEF TypeOK, Create, Become, commit, git, bounds
<1>2. ASSUME NEW j \in Jobs, HourPasses(j) PROVE TypeOK'
  BY <1>0, <1>2, Updated DEF TypeOK, HourPasses, browser, commit, git, bounds
<1>3. ASSUME NEW j \in Jobs, Upload(j) PROVE TypeOK'
  <2>1. PICK batch \in SomeOf(todo[j], BatchSize) :
          IF phase[j] = "uploading" /\ uploaded[j] + Cardinality(batch) <= Total
            THEN /\ staged' = [staged EXCEPT ![j] = @ \cup Finalize(batch)]
                 /\ uploaded' = [uploaded EXCEPT ![j] = @ + Cardinality(batch)]
                 /\ todo' = [todo EXCEPT ![j] = @ \ batch]
                 /\ UNCHANGED client
            ELSE Become(j, "failed") /\ UNCHANGED <<staged, uploaded, todo>>
    BY <1>3 DEF Upload
  <2>2. batch \subseteq Uploads
    BY <2>1, Chunk DEF IInv, JobInv, UploadKept
  <2>3. Cardinality(batch) \in Nat /\ Finalize(batch) \in SUBSET Paths
    <3>1. Finalize(batch) \subseteq Target
      <4>1. batch \in SUBSET Uploads
        BY <2>2
      <4>2. Finalize(Uploads) = Finalize(batch) \cup Finalize(Uploads \ batch)
        BY <4>1, FinalizeSplit
      <4>3. QED
        BY <4>2, UploadsBecomeTarget
    <3>2. Cardinality(batch) \in Nat
      BY <2>2, TargetCardinality, FS_Subset, FS_CardinalityType
    <3>3. QED
      BY <3>1, <3>2, TargetPaths
  <2>4. CASE phase[j] = "uploading" /\ uploaded[j] + Cardinality(batch) <= Total
    <3>1. uploaded[j] + Cardinality(batch) \in 0 .. Total
      BY <1>0, <2>3, <2>4 DEF TypeOK
    <3>2. uploaded' \in [Jobs -> 0 .. Total]
      BY <1>0, <2>1, <2>4, <3>1, Updated DEF TypeOK
    <3>3. staged' \in [Jobs -> SUBSET Paths]
      BY SMTT(40), <1>0, <2>1, <2>3, <2>4, Updated DEF TypeOK
    <3>4. todo' \in [Jobs -> SUBSET Paths]
      <4>1. todo[j] \ batch \in SUBSET Paths
        BY <1>0 DEF TypeOK
      <4>2. todo \in [Jobs -> SUBSET Paths] /\ todo' = [todo EXCEPT ![j] = todo[j] \ batch]
        BY <1>0, <2>1, <2>4 DEF TypeOK
      <4>3. QED
        BY <4>1, <4>2, Updated
    <3>5. QED
      BY <1>0, <1>3, <2>1, <2>4, <3>2, <3>3, <3>4 DEF TypeOK, Upload, commit, git, bounds
  <2>5. CASE ~(phase[j] = "uploading" /\ uploaded[j] + Cardinality(batch) <= Total)
    BY <1>0, <1>3, <2>1, <2>5, Moved DEF TypeOK, Upload, commit, git, bounds
  <2>6. QED
    BY <2>4, <2>5
<1>4. ASSUME NEW j \in Jobs, StartCommit(j) PROVE TypeOK'
  <2>1. CASE phase[j] = "uploading" /\ uploaded[j] = Total
    <3>1. client' \in [Jobs -> {"idle", "upload", "poll", "imported", "failed", "cancelled"}]
      BY <1>0, <1>4, <2>1, Moved DEF StartCommit
    <3>2. committed' = [committed EXCEPT ![j] = 0]
      BY <1>4, <2>1 DEF StartCommit
    <3>3. files' = [files EXCEPT ![j] = staged[j]] /\ left' = [left EXCEPT ![j] = staged[j]]
      BY <1>4, <2>1 DEF StartCommit
    <3>4. phase' = [phase EXCEPT ![j] = "committing"] /\ worker' = [worker EXCEPT ![j] = "batch"]
      BY <1>4, <2>1 DEF StartCommit, Run
    <3>5. UNCHANGED <<todo, old, uploaded, staged, seen, git, bounds>>
      BY <1>4 DEF StartCommit
    <3>6. committed' \in [Jobs -> 0 .. Total]
      <4>1. 0 \in 0 .. Total
        BY <1>0
      <4>2. QED
        BY <1>0, <3>2, <4>1, Updated DEF TypeOK
    <3>7. files' \in [Jobs -> SUBSET Paths] /\ left' \in [Jobs -> SUBSET Paths]
      <4>1. staged[j] \in SUBSET Paths
        BY <1>0 DEF TypeOK
      <4>2. QED
        BY <1>0, <3>3, <4>1, Updated DEF TypeOK
    <3>8. phase' \in [Jobs -> {"none", "uploading", "committing", "done", "error", "gone"}]
      BY <1>0, <3>4, Updated DEF TypeOK
    <3>9. worker' \in [Jobs -> {"off", "batch", "get", "put"}]
      BY <1>0, <3>4, Updated DEF TypeOK
    <3>10. QED
      BY <1>0, <3>1, <3>5, <3>6, <3>7, <3>8, <3>9 DEF TypeOK, git, bounds
  <2>2. CASE ~(phase[j] = "uploading" /\ uploaded[j] = Total)
    BY <1>0, <1>4, <2>2, Moved DEF TypeOK, StartCommit, git, bounds
  <2>3. QED
    BY <2>1, <2>2
<1>5. ASSUME NEW j \in Jobs, Poll(j) PROVE TypeOK'
  <2>1. client' \in [Jobs -> {"idle", "upload", "poll", "imported", "failed", "cancelled"}]
    BY <1>0, <1>5, Moved DEF Poll
  <2>2. /\ phase' \in [Jobs -> {"none", "uploading", "committing", "done", "error", "gone"}]
        /\ staged' \in [Jobs -> SUBSET Paths]
    BY <1>0, <1>5, Removed DEF Poll, TypeOK
  <2>3. QED
    BY <1>0, <1>5, <2>1, <2>2 DEF TypeOK, Poll, commit, git, bounds
<1>6. ASSUME NEW j \in Jobs, Abort(j) PROVE TypeOK'
  BY <1>0, <1>6, Updated DEF TypeOK, Abort, Become, job, commit, git, bounds
<1>7. ASSUME NEW j \in Jobs, Delete(j) PROVE TypeOK'
  BY <1>0, <1>7 DEF TypeOK, Delete, Remove, browser, commit, git, bounds
<1>8. ASSUME NEW j \in Jobs, CommitChunk(j) PROVE TypeOK'
  <2>1. PICK chunk \in SomeOf(left[j], ChunkSize) :
               WriteToRepo(j, chunk) /\ left' = [left EXCEPT ![j] = @ \ chunk]
    BY <1>8 DEF CommitChunk
  <2>2. chunk \in SUBSET Paths /\ left' \in [Jobs -> SUBSET Paths]
    BY <1>0, <1>8, <2>1, Chunk, Updated DEF TypeOK, CommitChunk
  <2>3. /\ repo' \in [Paths -> Jobs \cup {Nobody}] /\ wrote' \in [Jobs -> SUBSET Paths]
    BY <1>0, <2>1, <2>2, Written
  <2>4. /\ worker' \in [Jobs -> {"off", "batch", "get", "put"}]
        /\ phase' \in [Jobs -> {"none", "uploading", "committing", "done", "error", "gone"}]
        /\ staged' \in [Jobs -> SUBSET Paths] /\ committed' \in [Jobs -> 0 .. Total]
    BY <1>0, <1>8, GoOnTyped DEF CommitChunk
  <2>5. QED
    BY <1>0, <1>8, <2>2, <2>3, <2>4 DEF TypeOK, CommitChunk, browser, bounds
<1>9. ASSUME NEW j \in Jobs, LookUp(j) PROVE TypeOK'
  <2>1. PICK p \in left[j] : seen' = [seen EXCEPT ![j] = [path |-> p, version |-> repo[p]]]
    BY <1>9 DEF LookUp
  <2>2. seen' \in [Jobs -> [path : Paths \cup {Nobody}, version : Jobs \cup {Nobody}]]
    BY <1>0, <2>1, Updated DEF TypeOK
  <2>3. QED
    BY <1>0, <1>9, <2>2, Updated DEF TypeOK, LookUp, Run, browser, job, git, bounds
<1>10. ASSUME NEW j \in Jobs, Put(j) PROVE TypeOK'
  <2>1. worker[j] = "put" /\ seen[j].path \in Paths
    BY <1>0, <1>10 DEF Put, IInv, JobInv, CommitKept
  <2>0. seen' \in [Jobs -> [path : Paths \cup {Nobody}, version : Jobs \cup {Nobody}]]
    BY <1>0, <1>10, Forgotten DEF Put
  <2>2. CASE repo[seen[j].path] = seen[j].version
    <3>1. /\ WriteToRepo(j, {seen[j].path}) /\ left' = [left EXCEPT ![j] = @ \ {seen[j].path}]
          /\ GoOn(j, "get")
      BY <1>10, <2>2 DEF Put
    <3>2. /\ repo' \in [Paths -> Jobs \cup {Nobody}] /\ wrote' \in [Jobs -> SUBSET Paths]
      BY <1>0, <2>1, <3>1, Written
    <3>3. /\ worker' \in [Jobs -> {"off", "batch", "get", "put"}]
          /\ phase' \in [Jobs -> {"none", "uploading", "committing", "done", "error", "gone"}]
          /\ staged' \in [Jobs -> SUBSET Paths] /\ committed' \in [Jobs -> 0 .. Total]
      BY <1>0, <2>1, <3>1, GoOnTyped
    <3>4. left' \in [Jobs -> SUBSET Paths]
      BY <1>0, <3>1, Updated DEF TypeOK
    <3>5. QED
      BY <1>0, <1>10, <2>0, <3>2, <3>3, <3>4 DEF TypeOK, Put, browser, bounds
  <2>3. CASE repo[seen[j].path] # seen[j].version
    BY <1>0, <1>10, <2>0, <2>3, EndTyped DEF TypeOK, Put, browser, git, bounds
  <2>4. QED
    BY <2>2, <2>3
<1>11. ASSUME NEW j \in Jobs, ChunkFails(j) PROVE TypeOK'
  <2>1. PICK chunk \in SomeOf(left[j], ChunkSize) \cup {{}} : WriteToRepo(j, chunk)
    BY <1>11 DEF ChunkFails
  <2>2. chunk \in SUBSET Paths
    BY <1>0, <2>1, Chunk DEF TypeOK
  <2>3. /\ repo' \in [Paths -> Jobs \cup {Nobody}] /\ wrote' \in [Jobs -> SUBSET Paths]
    BY <1>0, <2>1, <2>2, Written
  <2>4. left' \in [Jobs -> SUBSET Paths] /\ faults' \in 0 .. MaxFaults
    BY <1>0, <1>11, Updated DEF TypeOK, ChunkFails, Fault
  <2>5. worker' \in [Jobs -> {"off", "batch", "get", "put"}]
    BY <1>0, <1>11, Updated DEF TypeOK, ChunkFails, Run
  <2>6. QED
    BY <1>0, <1>11, <2>3, <2>4, <2>5 DEF TypeOK, ChunkFails, Fault, browser, job
<1>12. ASSUME NEW j \in Jobs, PutFails(j) PROVE TypeOK'
  <2>1. /\ repo' \in [Paths -> Jobs \cup {Nobody}] /\ wrote' \in [Jobs -> SUBSET Paths]
    <3>1. CASE UNCHANGED git
      BY <1>0, <3>1 DEF TypeOK, git
    <3>2. CASE worker[j] = "put" /\ WriteToRepo(j, {seen[j].path})
      <4>1. {seen[j].path} \in SUBSET Paths
        BY <1>0, <3>2 DEF IInv, JobInv, CommitKept
      <4>2. QED
        BY <1>0, <3>2, <4>1, Written
    <3>3. QED
      BY <1>12, <3>1, <3>2 DEF PutFails
  <2>2. seen' \in [Jobs -> [path : Paths \cup {Nobody}, version : Jobs \cup {Nobody}]]
    BY <1>0, <1>12, Forgotten DEF PutFails
  <2>3. QED
    BY <1>0, <1>12, <2>1, <2>2, EndTyped DEF TypeOK, PutFails, Fault, browser
<1>13. ASSUME NEW j \in Jobs, AnswerLost(j) PROVE TypeOK'
  <2>1. client' \in [Jobs -> {"idle", "upload", "poll", "imported", "failed", "cancelled"}]
    BY <1>0, <1>13, Moved DEF AnswerLost
  <2>2. /\ phase' \in [Jobs -> {"none", "uploading", "committing", "done", "error", "gone"}]
        /\ staged' \in [Jobs -> SUBSET Paths]
    BY <1>0, <1>13, Removed DEF AnswerLost, TypeOK
  <2>3. faults' \in 0 .. MaxFaults
    BY <1>0, <1>13 DEF TypeOK, AnswerLost, Fault
  <2>4. QED
    BY <1>0, <1>13, <2>1, <2>2, <2>3 DEF TypeOK, AnswerLost, Fault, commit, git
<1>14. CASE Crash
  BY <1>0, <1>14 DEF TypeOK, Crash, browser, job, git
<1>15. CASE UNCHANGED vars
  BY <1>0, <1>15 DEF TypeOK, vars, browser, job, commit, git, bounds
<1>16. QED
  BY <1>1, <1>2, <1>3, <1>4, <1>5, <1>6, <1>7, <1>8, <1>9, <1>10, <1>11, <1>12, <1>13,
     <1>14, <1>15 DEF Next, ImportStep, CommitStep

-----------------------------------------------------------------------------
(* Every step keeps the invariant of every import k: of the import j whose *)
(* action it is, and of the others.                                        *)

LEMMA CreateKept ==
  ASSUME IInv, NEW j \in Jobs, Create(j), NEW k \in Jobs
  PROVE  JobInv(k)'
<1>1. TypeOK /\ JobInv(k) /\ JobInv(j) /\ UNCHANGED <<committed, worker, files, left, seen, wrote>>
  BY DEF IInv, Create, commit, git
<1>2. phase[j] = "none" /\ staged[j] = {} /\ client[j] = "idle"
  BY <1>1 DEF Create, JobInv, NotCreated
<1>3. CASE k = j
  <2>1. phase'[k] = "uploading" /\ staged'[k] = {} /\ client'[k] = "upload"
    BY <1>1, <1>2, <1>3 DEF TypeOK, Create, Become, Exists
  <2>2. todo'[k] = Uploads
    BY <1>1, <1>3, FinalizeTwice DEF TypeOK, Create
  <2>3. NotCreated(k)' /\ UploadKept(k)'
    BY <2>1, <2>2, UploadsBecomeTarget DEF NotCreated, UploadKept
  <2>4. CommitKept(k)' /\ WroteTarget(k)'
    BY <1>1, <1>2, <1>3 DEF JobInv, CommitKept, WroteTarget
  <2>5. Finished(k)' /\ committed'[k] <= Cardinality(wrote'[k])
    BY <1>1, <2>1 DEF JobInv, Finished
  <2>6. QED
    BY <2>3, <2>4, <2>5 DEF JobInv
<1>4. CASE k # j
  <2>1. /\ client'[k] = client[k] /\ todo'[k] = todo[k]
        /\ \/ phase'[k] = phase[k] /\ staged'[k] = staged[k]
           \/ phase'[k] = "gone" /\ phase[k] # "none"
    BY <1>1, <1>4 DEF TypeOK, Create, Become, Exists
  <2>2. CASE phase'[k] = phase[k] /\ staged'[k] = staged[k]
    BY <1>1, <2>1, <2>2, Frame
  <2>3. CASE phase'[k] = "gone" /\ phase[k] # "none"
    BY <1>1, <2>1, <2>3, FrameGone
  <2>4. QED
    BY <2>1, <2>2, <2>3
<1>5. QED
  BY <1>3, <1>4

LEMMA UploadStepKept ==
  ASSUME IInv, NEW j \in Jobs, Upload(j), NEW k \in Jobs
  PROVE  JobInv(k)'
<1>1. TypeOK /\ JobInv(k) /\ UNCHANGED <<phase, committed, worker, files, left, seen, wrote>>
  BY DEF IInv, Upload, commit, git
<1>2. PICK batch \in SomeOf(todo[j], BatchSize) :
        IF phase[j] = "uploading" /\ uploaded[j] + Cardinality(batch) <= Total
          THEN /\ staged' = [staged EXCEPT ![j] = @ \cup Finalize(batch)]
               /\ uploaded' = [uploaded EXCEPT ![j] = @ + Cardinality(batch)]
               /\ todo' = [todo EXCEPT ![j] = @ \ batch]
               /\ UNCHANGED client
          ELSE Become(j, "failed") /\ UNCHANGED <<staged, uploaded, todo>>
  BY DEF Upload
<1>3. CASE k # j
  <2>1. client'[k] = client[k] /\ todo'[k] = todo[k] /\ staged'[k] = staged[k]
    BY <1>1, <1>2, <1>3 DEF TypeOK, Become
  <2>2. QED
    BY <1>1, <2>1, Frame
<1>4. CASE k = j
  <2>1. batch \subseteq todo[k] /\ client[k] = "upload"
    BY <1>2, <1>4, Chunk DEF Upload
  <2>2. client'[k] \in {"upload", "failed"}
    BY <1>1, <1>2, <1>4, <2>1 DEF TypeOK, Become
  <2>3. NotCreated(k)'
    BY <2>2 DEF NotCreated
  <2>4. UploadKept(k)'
    <3>1. CASE phase[j] = "uploading" /\ uploaded[j] + Cardinality(batch) <= Total
      <4>1. staged'[k] = staged[k] \cup Finalize(batch) /\ todo'[k] = todo[k] \ batch
        BY <1>1, <1>2, <1>4, <3>1 DEF TypeOK
      <4>2. Finalize(todo[k]) = Finalize(batch) \cup Finalize(todo[k] \ batch)
        BY <2>1, FinalizeSplit
      <4>3. staged[k] \cup Finalize(todo[k]) = Target /\ todo[k] \subseteq Uploads
        BY <1>1, <1>4, <2>1, <3>1 DEF JobInv, UploadKept
      <4>4. staged'[k] \cup Finalize(todo'[k]) = Target
        BY <4>1, <4>2, <4>3
      <4>5. QED
        BY <4>1, <4>3, <4>4 DEF UploadKept
    <3>2. CASE ~(phase[j] = "uploading" /\ uploaded[j] + Cardinality(batch) <= Total)
      <4>1. client'[k] = "failed" /\ todo' = todo
        BY <1>1, <1>2, <1>4, <3>2 DEF TypeOK, Become
      <4>2. QED
        BY <1>1, <4>1 DEF JobInv, UploadKept
    <3>3. QED
      BY <3>1, <3>2
  <2>5. CommitKept(k)' /\ WroteTarget(k)' /\ committed'[k] <= Cardinality(wrote'[k])
    BY <1>1 DEF JobInv, CommitKept, WroteTarget
  <2>6. Finished(k)'
    BY <1>1, <2>2 DEF JobInv, Finished
  <2>7. QED
    BY <2>3, <2>4, <2>5, <2>6 DEF JobInv
<1>5. QED
  BY <1>3, <1>4

LEMMA StartCommitKept ==
  ASSUME IInv, NEW j \in Jobs, StartCommit(j), NEW k \in Jobs
  PROVE  JobInv(k)'
<1>1. TypeOK /\ JobInv(k) /\ UNCHANGED <<todo, staged, seen, wrote>>
  BY DEF IInv, StartCommit, git
<1>2. CASE k # j
  <2>1. /\ client'[k] = client[k] /\ phase'[k] = phase[k] /\ committed'[k] = committed[k]
        /\ worker'[k] = worker[k] /\ files'[k] = files[k] /\ left'[k] = left[k]
    BY <1>1, <1>2 DEF TypeOK, StartCommit, Become, Run
  <2>2. QED
    BY <1>1, <2>1, Frame
<1>3. CASE k = j /\ phase[j] = "uploading" /\ uploaded[j] = Total
  <2>1. client[k] = "upload" /\ todo[k] = {} /\ phase[k] = "uploading"
    BY <1>3 DEF StartCommit
  <2>2. /\ client'[k] = "poll" /\ phase'[k] = "committing" /\ committed'[k] = 0
        /\ worker'[k] = "batch" /\ files'[k] = staged[k] /\ left'[k] = staged[k]
    BY <1>1, <1>3 DEF TypeOK, StartCommit, Become, Run
  <2>3. staged[k] = Target
    BY <1>1, <2>1, FinalizeNothing DEF JobInv, UploadKept
  <2>4. NotCreated(k)' /\ UploadKept(k)' /\ CommitKept(k)' /\ Finished(k)'
    BY <1>1, <2>1, <2>2, <2>3 DEF JobInv, NotCreated, UploadKept, CommitKept, Finished
  <2>5. WroteTarget(k)'
    BY <1>1, <2>2, <2>3 DEF JobInv, WroteTarget
  <2>6. committed'[k] <= Cardinality(wrote'[k])
    <3>1. wrote[k] \in SUBSET Target
      BY <1>1 DEF JobInv, WroteTarget
    <3>2. Cardinality(wrote[k]) \in 0 .. Total
      BY <3>1, Counted
    <3>3. QED
      BY <1>1, <2>2, <3>2, TargetCardinality
  <2>7. QED
    BY <2>4, <2>5, <2>6 DEF JobInv
<1>4. CASE k = j /\ ~(phase[j] = "uploading" /\ uploaded[j] = Total)
  <2>1. client[k] = "upload" /\ client'[k] = "failed"
        /\ UNCHANGED <<phase, committed, worker, files, left>>
    BY <1>1, <1>4 DEF TypeOK, StartCommit, Become
  <2>2. QED
    BY <1>1, <2>1 DEF JobInv, NotCreated, UploadKept, CommitKept, WroteTarget, Finished
<1>5. QED
  BY <1>2, <1>3, <1>4

\* A browser that is neither idle nor reported a success gives up.
LEMMA GiveUpKept ==
  ASSUME NEW k \in Jobs, JobInv(k), client'[k] \in {"failed", "cancelled"},
         \/ phase'[k] = phase[k] /\ staged'[k] = staged[k]
         \/ phase'[k] = "gone" /\ phase[k] # "none",
         UNCHANGED <<todo, committed, worker, files, left, seen, wrote>>
  PROVE  JobInv(k)'
BY DEF JobInv, NotCreated, UploadKept, CommitKept, WroteTarget, Finished

LEMMA PollKept ==
  ASSUME IInv, NEW j \in Jobs, Poll(j), NEW k \in Jobs
  PROVE  JobInv(k)'
<1>1. /\ TypeOK /\ JobInv(k)
      /\ UNCHANGED <<todo, committed, worker, files, left, seen, wrote>>
  BY DEF IInv, Poll, commit, git
<1>2. CASE k # j
  <2>1. client'[k] = client[k] /\ phase'[k] = phase[k] /\ staged'[k] = staged[k]
    BY <1>1, <1>2 DEF TypeOK, Poll, Become, Remove
  <2>2. QED
    BY <1>1, <2>1, Frame
<1>3. CASE k = j /\ phase[j] = "done"
  <2>1. client'[k] = "imported" /\ phase'[k] = "gone" /\ phase[k] = "done"
    BY <1>1, <1>3 DEF TypeOK, Poll, Become, Remove
  <2>2. QED
    BY <1>1, <2>1 DEF JobInv, NotCreated, UploadKept, CommitKept, WroteTarget, Finished
<1>4. CASE k = j /\ phase[j] # "done"
  <2>1. client'[k] = "failed" /\ phase'[k] = phase[k] /\ staged'[k] = staged[k]
    BY <1>1, <1>4 DEF TypeOK, Poll, Become
  <2>2. QED
    BY <1>1, <2>1, GiveUpKept
<1>5. QED
  BY <1>2, <1>3, <1>4

LEMMA AbortKept ==
  ASSUME IInv, NEW j \in Jobs, Abort(j), NEW k \in Jobs
  PROVE  JobInv(k)'
<1>1. /\ TypeOK /\ JobInv(k)
      /\ UNCHANGED <<todo, phase, staged, committed, worker, files, left, seen, wrote>>
  BY DEF IInv, Abort, job, commit, git
<1>2. CASE k # j
  <2>1. client'[k] = client[k]
    BY <1>1, <1>2 DEF TypeOK, Abort, Become
  <2>2. QED
    BY <1>1, <2>1, Frame
<1>3. CASE k = j
  <2>1. client'[k] = "cancelled"
    BY <1>1, <1>3 DEF TypeOK, Abort, Become
  <2>2. QED
    BY <1>1, <2>1, GiveUpKept
<1>4. QED
  BY <1>2, <1>3

LEMMA DeleteKept ==
  ASSUME IInv, NEW j \in Jobs, Delete(j), NEW k \in Jobs
  PROVE  JobInv(k)'
<1>1. /\ TypeOK /\ JobInv(k)
      /\ UNCHANGED <<client, todo, committed, worker, files, left, seen, wrote>>
  BY DEF IInv, Delete, browser, commit, git
<1>2. CASE k # j
  <2>1. phase'[k] = phase[k] /\ staged'[k] = staged[k]
    BY <1>1, <1>2 DEF TypeOK, Delete, Remove
  <2>2. QED
    BY <1>1, <2>1, Frame
<1>3. CASE k = j
  <2>1. phase'[k] = "gone" /\ phase[k] # "none"
    BY <1>1, <1>3 DEF TypeOK, Delete, Remove
  <2>2. QED
    BY <1>1, <2>1, FrameGone
<1>4. QED
  BY <1>2, <1>3

LEMMA AnswerLostKept ==
  ASSUME IInv, NEW j \in Jobs, AnswerLost(j), NEW k \in Jobs
  PROVE  JobInv(k)'
<1>1. /\ TypeOK /\ JobInv(k)
      /\ UNCHANGED <<todo, committed, worker, files, left, seen, wrote>>
  BY DEF IInv, AnswerLost, commit, git
<1>2. CASE k # j
  <2>1. client'[k] = client[k] /\ phase'[k] = phase[k] /\ staged'[k] = staged[k]
    BY <1>1, <1>2 DEF TypeOK, AnswerLost, Become, Remove
  <2>2. QED
    BY <1>1, <2>1, Frame
<1>3. CASE k = j
  <2>1. /\ client'[k] = "failed"
        /\ \/ phase'[k] = phase[k] /\ staged'[k] = staged[k]
           \/ phase'[k] = "gone" /\ phase[k] # "none"
    BY <1>1, <1>3 DEF TypeOK, AnswerLost, Become, Remove
  <2>2. QED
    BY <1>1, <2>1, GiveUpKept
<1>4. QED
  BY <1>2, <1>3

LEMMA CommitChunkKept ==
  ASSUME IInv, NEW j \in Jobs, CommitChunk(j), NEW k \in Jobs
  PROVE  JobInv(k)'
<1>1. /\ TypeOK /\ JobInv(k) /\ JobInv(j)
      /\ UNCHANGED <<browser, client, todo, files, seen>>
  BY DEF IInv, CommitChunk, browser
<1>2. PICK chunk \in SomeOf(left[j], ChunkSize) :
             WriteToRepo(j, chunk) /\ left' = [left EXCEPT ![j] = @ \ chunk]
  BY DEF CommitChunk
<1>3. worker[j] = "batch" /\ GoOn(j, "batch") /\ chunk \in SUBSET left[j]
  BY <1>2, Chunk DEF CommitChunk
<1>4. JobInv(j)'
  BY <1>1, <1>2, <1>3, WriteOn
<1>5. CASE k # j
  <2>1. /\ phase'[k] = phase[k] /\ staged'[k] = staged[k] /\ committed'[k] = committed[k]
        /\ worker'[k] = worker[k]
    BY <1>1, <1>3, <1>5 DEF TypeOK, GoOn, Progress, End, Run
  <2>2. left'[k] = left[k] /\ wrote'[k] = wrote[k]
    BY <1>1, <1>2, <1>5 DEF TypeOK, WriteToRepo
  <2>3. QED
    BY <1>1, <2>1, <2>2, Frame
<1>6. QED
  BY <1>4, <1>5

LEMMA LookUpKept ==
  ASSUME IInv, NEW j \in Jobs, LookUp(j), NEW k \in Jobs
  PROVE  JobInv(k)'
<1>1. /\ TypeOK /\ JobInv(k)
      /\ UNCHANGED <<client, todo, phase, staged, committed, files, left, wrote>>
  BY DEF IInv, LookUp, browser, job, git
<1>2. PICK p \in left[j] : seen' = [seen EXCEPT ![j] = [path |-> p, version |-> repo[p]]]
  BY DEF LookUp
<1>3. CASE k # j
  <2>1. worker'[k] = worker[k] /\ seen'[k] = seen[k]
    BY <1>1, <1>2, <1>3 DEF TypeOK, LookUp, Run
  <2>2. QED
    BY <1>1, <2>1, Frame
<1>4. CASE k = j
  <2>1. worker[k] = "get" /\ worker'[k] = "put" /\ seen'[k].path \in left[k]
    BY <1>1, <1>2, <1>4 DEF TypeOK, LookUp, Run
  <2>2. NotCreated(k)' /\ UploadKept(k)' /\ WroteTarget(k)' /\ Finished(k)'
    BY <1>1 DEF JobInv, NotCreated, UploadKept, WroteTarget, Finished
  <2>3. CommitKept(k)' /\ committed'[k] <= Cardinality(wrote'[k])
    BY <1>1, <2>1 DEF JobInv, CommitKept
  <2>4. QED
    BY <2>2, <2>3 DEF JobInv
<1>5. QED
  BY <1>3, <1>4

LEMMA PutKept ==
  ASSUME IInv, NEW j \in Jobs, Put(j), NEW k \in Jobs
  PROVE  JobInv(k)'
<1>1. /\ TypeOK /\ JobInv(k) /\ JobInv(j) /\ worker[j] = "put"
      /\ UNCHANGED <<browser, client, todo, files>>
      /\ k # j => seen'[k] = seen[k]
  BY DEF IInv, Put, browser, TypeOK
<1>2. CASE repo[seen[j].path] = seen[j].version
  <2>1. /\ WriteToRepo(j, {seen[j].path}) /\ left' = [left EXCEPT ![j] = @ \ {seen[j].path}]
        /\ GoOn(j, "get")
    BY <1>2 DEF Put
  <2>2. {seen[j].path} \in SUBSET left[j]
    BY <1>1 DEF JobInv, CommitKept
  <2>3. JobInv(j)'
    BY <1>1, <2>1, <2>2, WriteOn
  <2>4. CASE k # j
    <3>1. /\ phase'[k] = phase[k] /\ staged'[k] = staged[k] /\ committed'[k] = committed[k]
          /\ worker'[k] = worker[k]
      BY <1>1, <2>1, <2>4 DEF TypeOK, GoOn, Progress, End, Run
    <3>2. left'[k] = left[k] /\ wrote'[k] = wrote[k]
      BY <1>1, <2>1, <2>4 DEF TypeOK, WriteToRepo
    <3>3. QED
      BY <1>1, <2>4, <3>1, <3>2, Frame
  <2>5. QED
    BY <2>3, <2>4
<1>3. CASE repo[seen[j].path] # seen[j].version
  <2>1. End(j, "error") /\ UNCHANGED <<left, committed, wrote>>
    BY <1>3 DEF Put, git
  <2>2. CASE k # j
    <3>1. phase'[k] = phase[k] /\ staged'[k] = staged[k] /\ worker'[k] = worker[k]
      BY <1>1, <2>1, <2>2 DEF TypeOK, End, Run
    <3>2. QED
      BY <1>1, <2>1, <2>2, <3>1, Frame
  <2>3. CASE k = j
    BY <1>1, <2>1, <2>3, ErrorKept
  <2>4. QED
    BY <2>2, <2>3
<1>4. QED
  BY <1>2, <1>3

LEMMA ChunkFailsKept ==
  ASSUME IInv, NEW j \in Jobs, ChunkFails(j), NEW k \in Jobs
  PROVE  JobInv(k)'
<1>1. /\ TypeOK /\ JobInv(k) /\ worker[j] = "batch"
      /\ UNCHANGED <<client, todo, phase, staged, committed, files, seen>>
  BY DEF IInv, ChunkFails, browser, job
<1>2. PICK chunk \in SomeOf(left[j], ChunkSize) \cup {{}} : WriteToRepo(j, chunk)
  BY DEF ChunkFails
<1>3. CASE k # j
  <2>1. worker'[k] = worker[k] /\ left'[k] = left[k] /\ wrote'[k] = wrote[k]
    BY <1>1, <1>2, <1>3 DEF TypeOK, ChunkFails, Run, WriteToRepo
  <2>2. QED
    BY <1>1, <2>1, Frame
<1>4. CASE k = j
  <2>1. /\ worker'[k] = "get" /\ left'[k] = files[k] /\ wrote'[k] = wrote[k] \cup chunk
    BY <1>1, <1>2, <1>4 DEF TypeOK, ChunkFails, Run, WriteToRepo
  <2>2. chunk \subseteq left[k]
    BY <1>2, <1>4, Chunk
  <2>3. /\ files[k] = Target /\ left[k] \subseteq Target /\ wrote[k] \subseteq Target
        /\ phase[k] \in {"committing", "gone"}
    BY <1>1, <1>4 DEF JobInv, CommitKept, WroteTarget
  <2>4. wrote'[k] \in SUBSET Target /\ wrote[k] \in SUBSET wrote'[k]
    BY <2>1, <2>2, <2>3
  <2>5. committed'[k] <= Cardinality(wrote'[k])
    <3>1. /\ Cardinality(wrote[k]) \in 0 .. Total /\ Cardinality(wrote'[k]) \in 0 .. Total
          /\ Cardinality(wrote[k]) <= Cardinality(wrote'[k])
      BY <2>4, Counted
    <3>2. /\ committed'[k] = committed[k] /\ committed[k] <= Cardinality(wrote[k])
          /\ committed[k] \in 0 .. Total
      BY <1>1 DEF JobInv, TypeOK
    <3>3. QED
      BY <3>1, <3>2, TargetCardinality
  <2>6. NotCreated(k)' /\ UploadKept(k)'
    BY <1>1 DEF JobInv, NotCreated, UploadKept
  <2>7. CommitKept(k)' /\ WroteTarget(k)'
    BY <1>1, <2>1, <2>3, <2>4 DEF CommitKept, WroteTarget
  <2>8. Finished(k)'
    BY <1>1, <2>3, <2>4 DEF JobInv, Finished
  <2>9. QED
    BY <2>5, <2>6, <2>7, <2>8 DEF JobInv
<1>5. QED
  BY <1>3, <1>4

LEMMA PutFailsKept ==
  ASSUME IInv, NEW j \in Jobs, PutFails(j), NEW k \in Jobs
  PROVE  JobInv(k)'
<1>1. /\ TypeOK /\ JobInv(k) /\ worker[j] # "off" /\ End(j, "error")
      /\ UNCHANGED <<browser, client, todo, committed, files, left>>
      /\ k # j => seen'[k] = seen[k]
  BY DEF IInv, PutFails, browser, TypeOK
<1>2. CASE UNCHANGED wrote
  <2>1. CASE k # j
    <3>1. phase'[k] = phase[k] /\ staged'[k] = staged[k] /\ worker'[k] = worker[k]
      BY <1>1, <2>1 DEF TypeOK, End, Run
    <3>2. QED
      BY <1>1, <2>1, <1>2, <3>1, Frame
  <2>2. CASE k = j
    BY <1>1, <1>2, <2>2, ErrorKept
  <2>3. QED
    BY <2>1, <2>2
<1>3. CASE worker[j] = "put" /\ WriteToRepo(j, {seen[j].path})
  <2>1. CASE k # j
    <3>1. /\ phase'[k] = phase[k] /\ staged'[k] = staged[k] /\ worker'[k] = worker[k]
          /\ wrote'[k] = wrote[k]
      BY <1>1, <1>3, <2>1 DEF TypeOK, End, Run, WriteToRepo
    <3>2. QED
      BY <1>1, <2>1, <3>1, Frame
  <2>2. CASE k = j
    <3>1. {seen[k].path} \in SUBSET left[k]
      BY <1>1, <1>3, <2>2 DEF JobInv, CommitKept
    <3>2. wrote'[k] = wrote[k] \cup {seen[k].path}
      BY <1>1, <1>3, <2>2 DEF TypeOK, WriteToRepo
    <3>3. QED
      BY <1>1, <2>2, <3>1, <3>2, ErrorKept
  <2>3. QED
    BY <2>1, <2>2
<1>4. QED
  BY <1>2, <1>3 DEF PutFails, git

LEMMA CrashKept ==
  ASSUME IInv, Crash, NEW k \in Jobs
  PROVE  JobInv(k)'
<1>1. /\ JobInv(k) /\ worker'[k] = "off"
      /\ UNCHANGED <<client, todo, phase, staged, committed, files, left, seen, wrote>>
  BY DEF IInv, Crash, browser, job, git
<1>2. QED
  BY <1>1 DEF JobInv, NotCreated, UploadKept, CommitKept, WroteTarget, Finished

LEMMA JobsKept == IInv /\ [Next]_vars => \A k \in Jobs : JobInv(k)'
<1> SUFFICES ASSUME IInv, [Next]_vars, NEW k \in Jobs PROVE JobInv(k)'
  OBVIOUS
<1>1. CASE UNCHANGED vars
  BY <1>1, Frame DEF IInv, vars, browser, job, commit, git
<1>2. CASE \E j \in Jobs : HourPasses(j)
  BY <1>2, Frame DEF IInv, HourPasses, browser, commit, git
<1>3. CASE \E j \in Jobs : ImportStep(j) /\ ~HourPasses(j)
  BY <1>3, CreateKept, UploadStepKept, StartCommitKept, PollKept, AbortKept, DeleteKept,
     CommitChunkKept, LookUpKept, PutKept, ChunkFailsKept, PutFailsKept, AnswerLostKept
     DEF ImportStep, CommitStep
<1>4. CASE Crash
  BY <1>4, CrashKept
<1>5. QED
  BY <1>1, <1>2, <1>3, <1>4 DEF Next

-----------------------------------------------------------------------------
(* The theorems. *)

LEMMA Invariance == Spec => []IInv
<1>1. IInv /\ [Next]_vars => IInv'
  BY TypeKept, JobsKept DEF IInv
<1>2. QED
  BY InitIInv, <1>1, PTL DEF Spec

\* Every variable keeps its type: the counters of a job never pass the size of
\* its import.
THEOREM TypeCorrect == Spec => []TypeOK
BY Invariance, PTL DEF IInv

\* runImportJobCommit, the polling route: an import is reported as imported only
\* when Gitea got every file of it, also when a chunk failed and the commit
\* started over file by file.
THEOREM ImportedIsWritten == Spec => []DoneIsImported
<1>1. IInv => DoneIsImported
  BY TargetCardinality DEF IInv, JobInv, Finished, DoneIsImported
<1>2. QED
  BY Invariance, <1>1, PTL

\* The progress callback: the number of files the browser is shown is never more
\* than Gitea got.
THEOREM ProgressIsWritten == Spec => []ProgressIsReal
<1>1. IInv => ProgressIsReal
  BY DEF IInv, JobInv, ProgressIsReal
<1>2. QED
  BY Invariance, <1>1, PTL

\* startImportJobCommit: no file of an import reaches Gitea before its last batch
\* is staged.
THEOREM WholeImportStaged == Spec => []AllStagedFirst
<1>1. IInv => AllStagedFirst
  BY TargetCardinality DEF IInv, JobInv, WroteTarget, AllStagedFirst
<1>2. QED
  BY Invariance, <1>1, PTL

\* updateMeta after an await: the end of a commit does not bring back a job that was
\* removed meanwhile.
THEOREM RemovedForGood == Spec => GoneStaysGone
<1>1. IInv /\ [Next]_vars =>
        [\A j \in Jobs : phase[j] = "gone" => phase'[j] = "gone"]_vars
  <2> SUFFICES ASSUME IInv, Next, NEW k \in Jobs, phase[k] = "gone" PROVE phase'[k] = "gone"
    OBVIOUS
  <2>1. TypeOK /\ client[k] # "idle"
    BY DEF IInv, JobInv, NotCreated
  <2>2. ASSUME NEW j \in Jobs, Create(j) PROVE phase'[k] = "gone"
    BY <2>1, <2>2 DEF TypeOK, Create
  <2>3. ASSUME NEW j \in Jobs, StartCommit(j) PROVE phase'[k] = "gone"
    BY <2>1, <2>3 DEF TypeOK, StartCommit
  <2>4. ASSUME NEW j \in Jobs, Poll(j) \/ AnswerLost(j) \/ Delete(j) PROVE phase'[k] = "gone"
    BY <2>1, <2>4 DEF TypeOK, Poll, AnswerLost, Delete, Remove
  <2>5. ASSUME NEW j \in Jobs, NEW result, End(j, result) PROVE phase'[k] = "gone"
    BY <2>1, <2>5 DEF TypeOK, End, Exists
  <2>6. ASSUME NEW j \in Jobs, CommitChunk(j) \/ Put(j) \/ PutFails(j)
        PROVE  phase'[k] = "gone"
    BY <2>5, <2>6 DEF CommitChunk, Put, PutFails, GoOn
  <2>7. ASSUME NEW j \in Jobs,
               Upload(j) \/ Abort(j) \/ HourPasses(j) \/ LookUp(j) \/ ChunkFails(j)
        PROVE  phase'[k] = "gone"
    BY <2>7 DEF Upload, Abort, HourPasses, LookUp, ChunkFails, job
  <2>8. CASE Crash
    BY <2>8 DEF Crash, job
  <2>9. QED
    BY <2>2, <2>3, <2>4, <2>6, <2>7, <2>8 DEF Next, ImportStep, CommitStep
<1>2. QED
  BY Invariance, <1>1, PTL DEF Spec, GoneStaysGone
=============================================================================
