------------------------- MODULE UpdateWizardProofs -------------------------
(***************************************************************************)
(* Theorems about UpdateWizard for every number of releases, sessions,     *)
(* faults and crashes: type correctness, the schema before the code, and,  *)
(* unless sessions overlapped, that only verified releases are linked, that*)
(* a finished swap is recorded and that the scripts follow the link.       *)
(***************************************************************************)
EXTENDS UpdateWizard, TLAPS

-----------------------------------------------------------------------------
(* The inductive invariants. *)

\* A request that is past the migration may link.
MayLink == \A i \in Ids : at[i] \in {"link", "linked"} => target[i] <= schema

\* Sessions that are not started yet have no request.
StartedOnly == file.id <= sessions /\ \A i \in Ids : at[i] # "none" => i <= sessions

SchemaIInv ==
  /\ TypeOK
  /\ SchemaBeforeCode
  /\ StartedOnly
  /\ MayLink

\* Started sessions name a published release.
TargetsNamed == \A i \in Ids : i <= sessions => target[i] # 0

\* Without the app layer the portal stages the scripts of the image.
ImageScripts ==
  /\ appLayer => current # 0
  /\ ~appLayer => scripts = 0 /\ syncing \subseteq {0} /\ \A i \in Ids : read[i] = 0

\* Without overlap, what is worked on is the newest session.
NewestOnly ==
  file.id \in {0, sessions} /\ \A i \in Ids : at[i] # "none" => i = sessions

\* Past the link, the request's target is linked, then recorded.
LinkedIsTarget ==
  /\ \A i \in Ids : at[i] \in {"linked", "diff", "branch", "push"} => current = target[i]
  /\ \A i \in Ids : at[i] \in {"diff", "branch", "push"} => installed = target[i]
  /\ file.step \in {"restarting", "step3", "step4"} =>
       /\ file.id # 0
       /\ current = target[file.id] /\ installed = target[file.id]

\* What is proposed is what is linked.
ProposedIsCurrent ==
  /\ \A i \in Ids : at[i] \in {"branch", "push"} => read[i] = current
  /\ file.step = "step4" => file.id # 0 /\ read[file.id] = current

\* A sync only carries something else when the link has moved under it.
SyncIsStaged == ~swapped => syncing \subseteq {Staged}

\* What is past the verification is extracted.
VerifiedWhole ==
  \A i \in Ids : at[i] \in {"migrate", "link", "linked"} => release[target[i]] = "whole"

SoloIInv ==
  /\ TypeOK
  /\ StartedOnly
  /\ TargetsNamed
  /\ ImageScripts
  /\ SyncIsStaged
  /\ ~overlap => NewestOnly /\ LinkedIsTarget /\ ProposedIsCurrent /\ VerifiedWhole

-----------------------------------------------------------------------------
\* Migrations under way only take the schema forward, to a version there is.
LEMMA SchemaGrows ==
  ASSUME TypeOK
  PROVE  SchemaMayBe \subseteq schema .. Last
BY ConstantsAssumption DEF SchemaMayBe, TypeOK, Ids, Versions

LEMMA SchemaMoves ==
  ASSUME TypeOK, schema' \in SchemaMayBe
  PROVE  schema \in Nat /\ schema' \in Nat /\ schema <= schema'
<1>1. schema \in Nat /\ schema' \in schema .. Last
  BY SchemaGrows DEF TypeOK
<1>2. QED
  BY <1>1

\* Updating a function keeps its type.
LEMMA Updated ==
  ASSUME NEW S, NEW T, NEW f \in [S -> T], NEW x, NEW v \in T
  PROVE  [f EXCEPT ![x] = v] \in [S -> T]
OBVIOUS

LEMMA TypeInit == Init => TypeOK
<1> SUFFICES ASSUME Init PROVE TypeOK
  OBVIOUS
<1> USE ConstantsAssumption DEF Init, NoSession, Ids, Versions, Steps, Places
<1>1. file \in [id : 0 .. MaxSessions, step : Steps]
  OBVIOUS
<1>2. target \in [Ids -> 0 .. Last] /\ at \in [Ids -> Places]
  OBVIOUS
<1>3. release \in [Versions -> {"none", "damaged", "whole"}]
  OBVIOUS
<1>4. branches \subseteq 0 .. Last /\ read \in [Ids -> 0 .. Last]
  OBVIOUS
<1>5. base \in [Ids -> 0 .. Last]
  OBVIOUS
<1>6. appLayer \in BOOLEAN /\ restart \in BOOLEAN /\ swapped \in BOOLEAN /\ overlap \in BOOLEAN
  OBVIOUS
<1>7. QED
  BY <1>1, <1>2, <1>3, <1>4, <1>5, <1>6 DEF TypeOK

\* Type correctness is preserved.
LEMMA TypeStep == TypeOK /\ [Next]_vars => TypeOK'
<1> SUFFICES ASSUME TypeOK, [Next]_vars PROVE TypeOK'
  OBVIOUS
<1> USE ConstantsAssumption DEF disk, portal, git, bounds
<1>1. CASE Publish
  <2>1. latest' \in 0 .. Last
    BY <1>1 DEF Publish, TypeOK
  <2>2. UNCHANGED <<file, target, at, release, schema, current, installed, appLayer,
                  running, restart, swapped, syncing, scripts, branches, read, base,
                  overlap, sessions, faults, crashes>>
    BY <1>1 DEF Publish
  <2>3. QED
    BY <2>1, <2>2 DEF TypeOK
<1>2. CASE Start
  <2>1. file' \in [id : 0 .. MaxSessions, step : Steps]
    BY <1>2 DEF Start, TypeOK, Write, NoSession, Failed, Verify, Steps, Ids
  <2>2. target' \in [Ids -> 0 .. Last]
    BY <1>2 DEF Start, TypeOK, Ids
  <2>3. sessions' \in 0 .. MaxSessions
    BY <1>2 DEF Start, TypeOK
  <2>4. overlap' \in BOOLEAN
    BY <1>2 DEF Start, TypeOK
  <2>5. UNCHANGED <<at, latest, release, schema, current, installed, appLayer, running,
                  restart, swapped, syncing, scripts, branches, read, base, faults,
                  crashes>>
    BY <1>2 DEF Start
  <2>6. QED
    BY <2>1, <2>2, <2>3, <2>4, <2>5 DEF TypeOK
<1>3. CASE Cancel
  <2>1. file' \in [id : 0 .. MaxSessions, step : Steps]
    BY <1>3 DEF Cancel, TypeOK, Write, NoSession, Failed, Verify, Steps, Ids
  <2>2. UNCHANGED <<target, at, latest, release, schema, current, installed, appLayer,
                  running, restart, swapped, syncing, scripts, branches, read, base,
                  overlap, sessions, faults, crashes>>
    BY <1>3 DEF Cancel
  <2>3. QED
    BY <2>1, <2>2 DEF TypeOK
<1>4. CASE SyncScripts
  <2>1. syncing' \subseteq 0 .. Last
    BY <1>4 DEF SyncScripts, TypeOK, Staged, PortalStarts
  <2>2. UNCHANGED <<file, target, at, latest, release, schema, current, installed,
                  appLayer, running, restart, swapped, scripts, branches, read, base,
                  overlap, sessions, faults, crashes>>
    BY <1>4 DEF SyncScripts
  <2>3. QED
    BY <2>1, <2>2 DEF TypeOK
<1>5. CASE PushScripts
  <2>1. syncing' \subseteq 0 .. Last
    BY <1>5 DEF PushScripts, TypeOK, Staged, PortalStarts
  <2>2. scripts' \in 0 .. Last
    BY <1>5 DEF PushScripts, TypeOK, Staged
  <2>3. UNCHANGED <<file, target, at, latest, release, schema, current, installed,
                  appLayer, running, restart, swapped, branches, read, base, overlap,
                  sessions, faults, crashes>>
    BY <1>5 DEF PushScripts
  <2>4. QED
    BY <2>1, <2>2, <2>3 DEF TypeOK
<1>6. CASE RestartPortal
  <2>1. restart' \in BOOLEAN
    BY <1>6 DEF RestartPortal, TypeOK
  <2>2. at' \in [Ids -> Places]
    BY <1>6, Updated DEF RestartPortal, TypeOK, Move, Failed, Verify, Places, PortalStarts
  <2>3. syncing' \subseteq 0 .. Last
    BY <1>6 DEF RestartPortal, TypeOK, Staged, PortalStarts
  <2>4. swapped' \in BOOLEAN
    BY <1>6 DEF RestartPortal, TypeOK, PortalStarts
  <2>5. running' \in 0 .. Last
    BY <1>6 DEF RestartPortal, TypeOK, Staged
  <2>6. schema' \in 0 .. Last
    BY <1>6, SchemaGrows DEF RestartPortal, TypeOK
  <2>7. UNCHANGED <<file, target, latest, release, current, installed, appLayer, scripts,
                  branches, read, base, overlap, sessions, faults, crashes>>
    BY <1>6 DEF RestartPortal
  <2>8. QED
    BY <2>1, <2>2, <2>3, <2>4, <2>5, <2>6, <2>7 DEF TypeOK
<1>7. CASE Crash
  <2>1. crashes' \in 0 .. MaxCrashes
    BY <1>7 DEF Crash, TypeOK
  <2>2. at' \in [Ids -> Places]
    BY <1>7, Updated DEF Crash, TypeOK, Move, Failed, Verify, Places, PortalStarts
  <2>3. syncing' \subseteq 0 .. Last
    BY <1>7 DEF Crash, TypeOK, Staged, PortalStarts
  <2>4. swapped' \in BOOLEAN
    BY <1>7 DEF Crash, TypeOK, PortalStarts
  <2>5. running' \in 0 .. Last
    BY <1>7 DEF Crash, TypeOK, Staged
  <2>6. schema' \in 0 .. Last
    BY <1>7, SchemaGrows DEF Crash, TypeOK
  <2>7. UNCHANGED <<file, target, latest, release, current, installed, appLayer, restart,
                  scripts, branches, read, base, overlap, sessions, faults>>
    BY <1>7 DEF Crash
  <2>8. QED
    BY <2>1, <2>2, <2>3, <2>4, <2>5, <2>6, <2>7 DEF TypeOK
<1>8. CASE RestartContainer
  <2>1. crashes' \in 0 .. MaxCrashes
    BY <1>8 DEF RestartContainer, TypeOK
  <2>2. restart' \in BOOLEAN
    BY <1>8 DEF RestartContainer, TypeOK
  <2>3. at' \in [Ids -> Places]
    BY <1>8, Updated DEF RestartContainer, TypeOK, Move, Failed, Verify, Places, PortalStarts
  <2>4. syncing' \subseteq 0 .. Last
    BY <1>8 DEF RestartContainer, TypeOK, Staged, PortalStarts
  <2>5. swapped' \in BOOLEAN
    BY <1>8 DEF RestartContainer, TypeOK, PortalStarts
  <2>6. running' \in 0 .. Last
    BY <1>8 DEF RestartContainer, TypeOK, Staged
  <2>7. appLayer' \in BOOLEAN
    BY <1>8 DEF RestartContainer, TypeOK
  <2>8. schema' \in 0 .. Last
    BY <1>8, SchemaGrows DEF RestartContainer, TypeOK
  <2>9. UNCHANGED <<file, target, latest, release, current, installed, scripts, branches,
                  read, base, overlap, sessions, faults>>
    BY <1>8 DEF RestartContainer
  <2>10. QED
    BY <2>1, <2>2, <2>3, <2>4, <2>5, <2>6, <2>7, <2>8, <2>9 DEF TypeOK
<1>9. ASSUME NEW i \in Ids, Continue(i) PROVE TypeOK'
  <2>1. file' \in [id : 0 .. MaxSessions, step : Steps]
    BY <1>9 DEF Continue, TypeOK, Write, NoSession, Failed, Verify, Steps, Ids
  <2>2. at' \in [Ids -> Places]
    BY <1>9, Updated DEF Continue, TypeOK, Move, Failed, Verify, Places, PortalStarts
  <2>3. UNCHANGED <<target, latest, release, schema, current, installed, appLayer,
                  running, restart, swapped, syncing, scripts, branches, read, base,
                  overlap, sessions, faults, crashes>>
    BY <1>9 DEF Continue
  <2>4. QED
    BY <2>1, <2>2, <2>3 DEF TypeOK
<1>10. ASSUME NEW i \in Ids, Resume(i) PROVE TypeOK'
  <2>1. file' \in [id : 0 .. MaxSessions, step : Steps]
    BY <1>10 DEF Resume, TypeOK, Write, NoSession, Failed, Verify, Steps, Ids
  <2>2. at' \in [Ids -> Places]
    BY <1>10, Updated DEF Resume, TypeOK, Move, Failed, Verify, Places, PortalStarts
  <2>3. UNCHANGED <<target, latest, release, schema, current, installed, appLayer,
                  running, restart, swapped, syncing, scripts, branches, read, base,
                  overlap, sessions, faults, crashes>>
    BY <1>10 DEF Resume
  <2>4. QED
    BY <2>1, <2>2, <2>3 DEF TypeOK
<1>11. ASSUME NEW i \in Ids, Approve(i) PROVE TypeOK'
  <2>1. file' \in [id : 0 .. MaxSessions, step : Steps]
    BY <1>11 DEF Approve, TypeOK, Write, NoSession, Failed, Verify, Steps, Ids
  <2>2. scripts' \in 0 .. Last
    BY <1>11 DEF Approve, TypeOK, Staged
  <2>3. UNCHANGED <<target, at, latest, release, schema, current, installed, appLayer,
                  running, restart, swapped, syncing, branches, read, base, overlap,
                  sessions, faults, crashes>>
    BY <1>11 DEF Approve
  <2>4. QED
    BY <2>1, <2>2, <2>3 DEF TypeOK
<1>12. ASSUME NEW i \in Ids, Extract(i) PROVE TypeOK'
  <2>1. file' \in [id : 0 .. MaxSessions, step : Steps]
    BY <1>12 DEF Extract, TypeOK, Write, NoSession, Failed, Verify, Steps, Ids
  <2>2. at' \in [Ids -> Places]
    BY <1>12, Updated DEF Extract, TypeOK, Move, Failed, Verify, Places, PortalStarts
  <2>3. release' \in [Versions -> {"none", "damaged", "whole"}]
    <3>1. PICK state \in {"none", "damaged"} : release' = [release EXCEPT ![target[i]] = state]
      BY <1>12 DEF Extract
    <3>2. QED
      BY <3>1, Updated DEF TypeOK
  <2>4. UNCHANGED <<target, latest, schema, current, installed, appLayer, running,
                  restart, swapped, syncing, scripts, branches, read, base, overlap,
                  sessions, faults, crashes>>
    BY <1>12 DEF Extract
  <2>5. QED
    BY <2>1, <2>2, <2>3, <2>4 DEF TypeOK
<1>13. ASSUME NEW i \in Ids, Extracted(i) PROVE TypeOK'
  <2>1. file' \in [id : 0 .. MaxSessions, step : Steps]
    BY <1>13 DEF Extracted, TypeOK, Write, NoSession, Failed, Verify, Steps, Ids
  <2>2. at' \in [Ids -> Places]
    BY <1>13, Updated DEF Extracted, TypeOK, Move, Failed, Verify, Places, PortalStarts
  <2>3. release' \in [Versions -> {"none", "damaged", "whole"}]
    <3>1. PICK state \in {"damaged", "whole"} :
            release' = [release EXCEPT ![target[i]] = state]
      BY <1>13 DEF Extracted
    <3>2. QED
      BY <3>1, Updated DEF TypeOK
  <2>4. UNCHANGED <<target, latest, schema, current, installed, appLayer, running,
                  restart, swapped, syncing, scripts, branches, read, base, overlap,
                  sessions, faults, crashes>>
    BY <1>13 DEF Extracted
  <2>5. QED
    BY <2>1, <2>2, <2>3, <2>4 DEF TypeOK
<1>14. ASSUME NEW i \in Ids, Migrate(i) PROVE TypeOK'
  <2>1. file' \in [id : 0 .. MaxSessions, step : Steps]
    BY <1>14 DEF Migrate, TypeOK, Write, NoSession, Failed, Verify, Steps, Ids
  <2>2. at' \in [Ids -> Places]
    BY <1>14, Updated DEF Migrate, TypeOK, Move, Failed, Verify, Places, PortalStarts
  <2>3. schema' \in 0 .. Last
    BY <1>14 DEF Migrate, TypeOK
  <2>4. UNCHANGED <<target, latest, release, current, installed, appLayer, running,
                  restart, swapped, syncing, scripts, branches, read, base, overlap,
                  sessions, faults, crashes>>
    BY <1>14 DEF Migrate
  <2>5. QED
    BY <2>1, <2>2, <2>3, <2>4 DEF TypeOK
<1>15. ASSUME NEW i \in Ids, Link(i) PROVE TypeOK'
  <2>1. file' \in [id : 0 .. MaxSessions, step : Steps]
    BY <1>15 DEF Link, TypeOK, Write, NoSession, Failed, Verify, Steps, Ids
  <2>2. at' \in [Ids -> Places]
    BY <1>15, Updated DEF Link, TypeOK, Move, Failed, Verify, Places, PortalStarts
  <2>3. current' \in 0 .. Last
    BY <1>15 DEF Link, TypeOK
  <2>4. swapped' \in BOOLEAN
    BY <1>15 DEF Link, TypeOK, PortalStarts
  <2>5. UNCHANGED <<target, latest, release, schema, installed, appLayer, running,
                  restart, syncing, scripts, branches, read, base, overlap, sessions,
                  faults, crashes>>
    BY <1>15 DEF Link
  <2>6. QED
    BY <2>1, <2>2, <2>3, <2>4, <2>5 DEF TypeOK
<1>16. ASSUME NEW i \in Ids, Record(i) PROVE TypeOK'
  <2>1. file' \in [id : 0 .. MaxSessions, step : Steps]
    BY <1>16 DEF Record, TypeOK, Write, NoSession, Failed, Verify, Steps, Ids
  <2>2. at' \in [Ids -> Places]
    BY <1>16, Updated DEF Record, TypeOK, Move, Failed, Verify, Places, PortalStarts
  <2>3. installed' \in 0 .. Last
    BY <1>16 DEF Record, TypeOK
  <2>4. restart' \in BOOLEAN
    BY <1>16 DEF Record, TypeOK
  <2>5. UNCHANGED <<target, latest, release, schema, current, appLayer, running, swapped,
                  syncing, scripts, branches, read, base, overlap, sessions, faults,
                  crashes>>
    BY <1>16 DEF Record
  <2>6. QED
    BY <2>1, <2>2, <2>3, <2>4, <2>5 DEF TypeOK
<1>17. ASSUME NEW i \in Ids, NoScripts(i) PROVE TypeOK'
  <2>1. file' \in [id : 0 .. MaxSessions, step : Steps]
    BY <1>17 DEF NoScripts, TypeOK, Write, NoSession, Failed, Verify, Steps, Ids
  <2>2. at' \in [Ids -> Places]
    BY <1>17, Updated DEF NoScripts, TypeOK, Move, Failed, Verify, Places, PortalStarts
  <2>3. UNCHANGED <<target, latest, release, schema, current, installed, appLayer,
                  running, restart, swapped, syncing, scripts, branches, read, base,
                  overlap, sessions, faults, crashes>>
    BY <1>17 DEF NoScripts
  <2>4. QED
    BY <2>1, <2>2, <2>3 DEF TypeOK
<1>18. ASSUME NEW i \in Ids, ReadScripts(i) PROVE TypeOK'
  <2>1. at' \in [Ids -> Places]
    BY <1>18, Updated DEF ReadScripts, TypeOK, Move, Failed, Verify, Places, PortalStarts
  <2>2. read' \in [Ids -> 0 .. Last]
    BY <1>18 DEF ReadScripts, TypeOK, Ids, Staged
  <2>3. UNCHANGED <<file, target, latest, release, schema, current, installed, appLayer,
                  running, restart, swapped, syncing, scripts, branches, base, overlap,
                  sessions, faults, crashes>>
    BY <1>18 DEF ReadScripts
  <2>4. QED
    BY <2>1, <2>2, <2>3 DEF TypeOK
<1>19. ASSUME NEW i \in Ids, CreateBranch(i) PROVE TypeOK'
  <2>1. file' \in [id : 0 .. MaxSessions, step : Steps]
    BY <1>19 DEF CreateBranch, TypeOK, Write, NoSession, Failed, Verify, Steps, Ids
  <2>2. at' \in [Ids -> Places]
    BY <1>19, Updated DEF CreateBranch, TypeOK, Move, Failed, Verify, Places, PortalStarts
  <2>3. branches' \subseteq 0 .. Last
    <3>1. target[i] \in 0 .. Last /\ branches \subseteq 0 .. Last
      BY DEF TypeOK
    <3>2. branches' = branches \/ branches' = branches \cup {target[i]}
      BY <1>19 DEF CreateBranch
    <3>3. QED
      BY <3>1, <3>2
  <2>4. base' \in [Ids -> 0 .. Last]
    BY <1>19 DEF CreateBranch, TypeOK, Ids
  <2>5. UNCHANGED <<target, latest, release, schema, current, installed, appLayer,
                  running, restart, swapped, syncing, scripts, read, overlap, sessions,
                  faults, crashes>>
    BY <1>19 DEF CreateBranch
  <2>6. QED
    BY <2>1, <2>2, <2>3, <2>4, <2>5 DEF TypeOK
<1>20. ASSUME NEW i \in Ids, CreatePullRequest(i) PROVE TypeOK'
  <2>1. file' \in [id : 0 .. MaxSessions, step : Steps]
    BY <1>20 DEF CreatePullRequest, TypeOK, Write, NoSession, Failed, Verify, Steps, Ids
  <2>2. at' \in [Ids -> Places]
    BY <1>20, Updated DEF CreatePullRequest, TypeOK, Move, Failed, Verify, Places, PortalStarts
  <2>3. UNCHANGED <<target, latest, release, schema, current, installed, appLayer,
                  running, restart, swapped, syncing, scripts, branches, read, base,
                  overlap, sessions, faults, crashes>>
    BY <1>20 DEF CreatePullRequest
  <2>4. QED
    BY <2>1, <2>2, <2>3 DEF TypeOK
<1>21. ASSUME NEW i \in Ids, Fault(i) PROVE TypeOK'
  <2>1. file' \in [id : 0 .. MaxSessions, step : Steps]
    BY <1>21 DEF Fault, TypeOK, Write, NoSession, Failed, Verify, Steps, Ids
  <2>2. at' \in [Ids -> Places]
    BY <1>21, Updated DEF Fault, TypeOK, Move, Failed, Verify, Places, PortalStarts
  <2>3. faults' \in 0 .. MaxFaults
    BY <1>21 DEF Fault, TypeOK
  <2>4. schema' \in 0 .. Last
    BY <1>21, SchemaGrows DEF Fault, TypeOK
  <2>5. UNCHANGED <<target, latest, release, current, installed, appLayer, running,
                  restart, swapped, syncing, scripts, branches, read, base, overlap,
                  sessions, crashes>>
    BY <1>21 DEF Fault
  <2>6. QED
    BY <2>1, <2>2, <2>3, <2>4, <2>5 DEF TypeOK
<1>22. CASE UNCHANGED vars
  BY <1>22 DEF vars, TypeOK
<1>23. QED
  BY <1>1, <1>2, <1>3, <1>4, <1>5, <1>6, <1>7, <1>8, <1>9, <1>10, <1>11,
     <1>12, <1>13, <1>14, <1>15, <1>16, <1>17, <1>18, <1>19, <1>20, <1>21,
     <1>22 DEF Next, RequestStep

\* The portal keeps its types whatever operators and faults do.
THEOREM TypeCorrect == Spec => []TypeOK
BY TypeInit, TypeStep, PTL DEF Spec

-----------------------------------------------------------------------------
(* Schema before code. *)

LEMMA SchemaInit == Init => SchemaIInv
BY TypeInit DEF Init, SchemaIInv, SchemaBeforeCode, StartedOnly, MayLink, NoSession

LEMMA SchemaStep == SchemaIInv /\ [Next]_vars => SchemaIInv'
<1> SUFFICES ASSUME SchemaIInv, [Next]_vars PROVE SchemaIInv'
  OBVIOUS
<1>type. TypeOK'
  BY TypeStep DEF SchemaIInv
<1> USE <1>type, ConstantsAssumption
    DEF SchemaIInv, SchemaBeforeCode, StartedOnly, MayLink, TypeOK, Ids,
      Versions, Steps, Places, disk, portal, git, bounds, Write, Move, Failed, Verify, NoSession, PortalStarts, Staged
<1>1. CASE Publish
  BY <1>1 DEF Publish
<1>2. CASE Start
  <2>1. SchemaBeforeCode'
    BY <1>2 DEF Start
  <2>2. StartedOnly'
    BY <1>2 DEF Start
  <2>3. MayLink'
    BY <1>2 DEF Start
  <2>4. QED
    BY <2>1, <2>2, <2>3
<1>3. CASE Cancel
  BY <1>3 DEF Cancel
<1>4. CASE SyncScripts
  BY <1>4 DEF SyncScripts
<1>5. CASE RestartPortal
  <2>1. schema \in Nat /\ schema' \in Nat /\ schema <= schema'
    BY <1>5, SchemaMoves DEF RestartPortal
  <2>2. /\ running' = current \/ running' = 0
        /\ current \in Nat /\ UNCHANGED <<file, sessions, current, target>>
        /\ \A j \in Ids : at'[j] = "none"
    BY <1>5 DEF RestartPortal
  <2> HIDE DEF TypeOK
  <2>3. QED
    BY <2>1, <2>2
<1>6. CASE Crash
  <2>1. schema \in Nat /\ schema' \in Nat /\ schema <= schema'
    BY <1>6, SchemaMoves DEF Crash
  <2>2. /\ running' = current \/ running' = 0
        /\ current \in Nat /\ UNCHANGED <<file, sessions, current, target>>
        /\ \A j \in Ids : at'[j] = "none"
    BY <1>6 DEF Crash
  <2> HIDE DEF TypeOK
  <2>3. QED
    BY <2>1, <2>2
<1>7. CASE RestartContainer
  <2>1. schema \in Nat /\ schema' \in Nat /\ schema <= schema'
    BY <1>7, SchemaMoves DEF RestartContainer
  <2>2. /\ running' = current \/ running' = 0
        /\ current \in Nat /\ UNCHANGED <<file, sessions, current, target>>
        /\ \A j \in Ids : at'[j] = "none"
    BY <1>7 DEF RestartContainer
  <2> HIDE DEF TypeOK
  <2>3. QED
    BY <2>1, <2>2
<1>8. ASSUME NEW i \in Ids, Continue(i) PROVE SchemaIInv'
  <2>1. SchemaBeforeCode'
    BY <1>8 DEF Continue
  <2>2. StartedOnly'
    BY <1>8 DEF Continue
  <2>3. MayLink'
    BY <1>8 DEF Continue
  <2>4. QED
    BY <2>1, <2>2, <2>3
<1>9. ASSUME NEW i \in Ids, Resume(i) PROVE SchemaIInv'
  BY <1>9 DEF Resume
<1>10. ASSUME NEW i \in Ids, Approve(i) PROVE SchemaIInv'
  BY <1>10 DEF Approve
<1>11. ASSUME NEW i \in Ids, Extract(i) PROVE SchemaIInv'
  BY <1>11 DEF Extract
<1>12. ASSUME NEW i \in Ids, Extracted(i) PROVE SchemaIInv'
  BY SMTT(40), <1>12 DEF Extracted
<1>13. ASSUME NEW i \in Ids, Migrate(i) PROVE SchemaIInv'
  <2>1. SchemaBeforeCode'
    BY <1>13 DEF Migrate
  <2>2. StartedOnly'
    BY <1>13 DEF Migrate
  <2>3. MayLink'
    BY <1>13 DEF Migrate
  <2>4. QED
    BY <2>1, <2>2, <2>3
<1>14. ASSUME NEW i \in Ids, Link(i) PROVE SchemaIInv'
  BY SMTT(40), <1>14 DEF Link
<1>15. ASSUME NEW i \in Ids, Record(i) PROVE SchemaIInv'
  BY <1>15 DEF Record
<1>16. ASSUME NEW i \in Ids, NoScripts(i) PROVE SchemaIInv'
  BY <1>16 DEF NoScripts
<1>17. ASSUME NEW i \in Ids, CreateBranch(i) PROVE SchemaIInv'
  <2>1. SchemaBeforeCode'
    BY <1>17 DEF CreateBranch
  <2>2. StartedOnly'
    BY <1>17 DEF CreateBranch
  <2>3. MayLink'
    BY SMTT(40), <1>17 DEF CreateBranch
  <2>4. QED
    BY <2>1, <2>2, <2>3
<1>18. ASSUME NEW i \in Ids, CreatePullRequest(i) PROVE SchemaIInv'
  BY <1>18 DEF CreatePullRequest
<1>19. ASSUME NEW i \in Ids, Fault(i) PROVE SchemaIInv'
  <2>1. schema \in Nat /\ schema' \in Nat /\ schema <= schema'
    BY <1>19, SchemaMoves DEF Fault
  <2>2. /\ UNCHANGED <<sessions, current, running, target>>
        /\ file'.id = i /\ current \in Nat /\ running \in Nat
        /\ \A j \in Ids : at'[j] # "none" => at'[j] = at[j]
        /\ \A j \in Ids : target[j] \in Nat
        /\ i <= sessions
    BY <1>19 DEF Fault
  <2> HIDE DEF TypeOK
  <2>3. QED
    BY <2>1, <2>2
<1>22. ASSUME NEW i \in Ids, ReadScripts(i) PROVE SchemaIInv'
  BY <1>22 DEF ReadScripts
<1>23. CASE PushScripts
  BY <1>23 DEF PushScripts
<1>20. CASE UNCHANGED vars
  BY <1>20 DEF vars
<1>21. QED
  BY <1>1, <1>2, <1>3, <1>4, <1>5, <1>6, <1>7, <1>8, <1>9, <1>10, <1>11,
     <1>12, <1>13, <1>14, <1>15, <1>16, <1>17, <1>18, <1>19, <1>20, <1>22, <1>23 DEF Next, RequestStep

\* No release is ever linked, or runs, before the database has its schema, whichever
\* requests overlap, fail, die or are retried.
THEOREM SchemaFirst == Spec => []SchemaBeforeCode
<1>1. SchemaIInv => SchemaBeforeCode
  BY DEF SchemaIInv
<1>2. QED
  BY <1>1, SchemaInit, SchemaStep, PTL DEF Spec

-----------------------------------------------------------------------------
(* Sessions that do not overlap. *)

LEMMA SoloInit == Init => SoloIInv
BY TypeInit DEF Init, SoloIInv, StartedOnly, TargetsNamed, ImageScripts, SyncIsStaged, NewestOnly,
  LinkedIsTarget, ProposedIsCurrent, VerifiedWhole, NoSession, Ids, Versions

\* Only Start counts sessions, and names the release of the new one.
LEMMA StartedStep ==
  TypeOK /\ StartedOnly /\ TargetsNamed /\ [Next]_vars => StartedOnly' /\ TargetsNamed'
<1> SUFFICES ASSUME TypeOK, StartedOnly, TargetsNamed, [Next]_vars
             PROVE  StartedOnly' /\ TargetsNamed'
  OBVIOUS
<1>t. /\ sessions \in Nat /\ sessions <= MaxSessions /\ target \in [Ids -> 0 .. Last]
      /\ at \in [Ids -> Places]
  BY ConstantsAssumption DEF TypeOK
<1> USE <1>t, ConstantsAssumption DEF StartedOnly, TargetsNamed, Ids,
      disk, portal, git, bounds, Write, Move, Failed, Verify, NoSession, PortalStarts
<1>1. CASE Publish
  BY <1>1 DEF Publish
<1>2. CASE Start
  BY <1>2 DEF Start
<1>3. CASE Cancel
  BY <1>3 DEF Cancel
<1>4. CASE SyncScripts
  BY <1>4 DEF SyncScripts
<1>5. CASE PushScripts
  BY <1>5 DEF PushScripts
<1>6. CASE RestartPortal
  BY <1>6 DEF RestartPortal
<1>7. CASE Crash
  BY <1>7 DEF Crash
<1>8. CASE RestartContainer
  BY <1>8 DEF RestartContainer
<1>9. ASSUME NEW i \in Ids, Continue(i) PROVE StartedOnly' /\ TargetsNamed'
  BY <1>9 DEF Continue
<1>10. ASSUME NEW i \in Ids, Resume(i) PROVE StartedOnly' /\ TargetsNamed'
  BY <1>10 DEF Resume
<1>11. ASSUME NEW i \in Ids, Approve(i) PROVE StartedOnly' /\ TargetsNamed'
  BY <1>11 DEF Approve
<1>12. ASSUME NEW i \in Ids, Extract(i) PROVE StartedOnly' /\ TargetsNamed'
  BY <1>12 DEF Extract
<1>13. ASSUME NEW i \in Ids, Extracted(i) PROVE StartedOnly' /\ TargetsNamed'
  BY <1>13 DEF Extracted
<1>14. ASSUME NEW i \in Ids, Migrate(i) PROVE StartedOnly' /\ TargetsNamed'
  BY <1>14 DEF Migrate
<1>15. ASSUME NEW i \in Ids, Link(i) PROVE StartedOnly' /\ TargetsNamed'
  BY <1>15 DEF Link
<1>16. ASSUME NEW i \in Ids, Record(i) PROVE StartedOnly' /\ TargetsNamed'
  BY <1>16 DEF Record
<1>17. ASSUME NEW i \in Ids, NoScripts(i) PROVE StartedOnly' /\ TargetsNamed'
  BY <1>17 DEF NoScripts
<1>18. ASSUME NEW i \in Ids, ReadScripts(i) PROVE StartedOnly' /\ TargetsNamed'
  BY <1>18 DEF ReadScripts
<1>19. ASSUME NEW i \in Ids, CreateBranch(i) PROVE StartedOnly' /\ TargetsNamed'
  BY <1>19 DEF CreateBranch
<1>20. ASSUME NEW i \in Ids, CreatePullRequest(i) PROVE StartedOnly' /\ TargetsNamed'
  BY <1>20 DEF CreatePullRequest
<1>21. ASSUME NEW i \in Ids, Fault(i) PROVE StartedOnly' /\ TargetsNamed'
  BY <1>21 DEF Fault
<1>22. CASE UNCHANGED vars
  BY <1>22 DEF vars
<1>23. QED
  BY <1>1, <1>2, <1>3, <1>4, <1>5, <1>6, <1>7, <1>8, <1>9, <1>10, <1>11,
     <1>12, <1>13, <1>14, <1>15, <1>16, <1>17, <1>18, <1>19, <1>20, <1>21,
     <1>22 DEF Next, RequestStep

\* The app layer needs a link, and whatever is read without it is the image's.
LEMMA ImageStep ==
  TypeOK /\ StartedOnly /\ TargetsNamed /\ ImageScripts /\ [Next]_vars => ImageScripts'
<1> SUFFICES ASSUME TypeOK, StartedOnly, TargetsNamed, ImageScripts, [Next]_vars
             PROVE  ImageScripts'
  OBVIOUS
<1>t. read \in [Ids -> 0 .. Last] /\ at \in [Ids -> Places] /\ appLayer \in BOOLEAN
  BY DEF TypeOK
<1> USE <1>t DEF ImageScripts, Staged, disk, portal, git, bounds, Write, Move, Failed, Verify, NoSession, PortalStarts
<1>1. CASE Publish
  BY <1>1 DEF Publish
<1>2. CASE Start
  BY <1>2 DEF Start
<1>3. CASE Cancel
  BY <1>3 DEF Cancel
<1>4. CASE SyncScripts
  BY <1>4 DEF SyncScripts
<1>5. CASE PushScripts
  BY <1>5 DEF PushScripts
<1>6. CASE RestartPortal
  BY <1>6 DEF RestartPortal
<1>7. CASE Crash
  BY <1>7 DEF Crash
<1>8. CASE RestartContainer
  BY <1>8 DEF RestartContainer
<1>9. ASSUME NEW i \in Ids, Continue(i) PROVE ImageScripts'
  BY <1>9 DEF Continue
<1>10. ASSUME NEW i \in Ids, Resume(i) PROVE ImageScripts'
  BY <1>10 DEF Resume
<1>11. ASSUME NEW i \in Ids, Approve(i) PROVE ImageScripts'
  BY <1>11 DEF Approve
<1>12. ASSUME NEW i \in Ids, Extract(i) PROVE ImageScripts'
  BY <1>12 DEF Extract
<1>13. ASSUME NEW i \in Ids, Extracted(i) PROVE ImageScripts'
  BY <1>13 DEF Extracted
<1>14. ASSUME NEW i \in Ids, Migrate(i) PROVE ImageScripts'
  BY <1>14 DEF Migrate
<1>15. ASSUME NEW i \in Ids, Link(i) PROVE ImageScripts'
  BY <1>15 DEF Link, StartedOnly, TargetsNamed
<1>16. ASSUME NEW i \in Ids, Record(i) PROVE ImageScripts'
  BY <1>16 DEF Record
<1>17. ASSUME NEW i \in Ids, NoScripts(i) PROVE ImageScripts'
  BY <1>17 DEF NoScripts
<1>18. ASSUME NEW i \in Ids, ReadScripts(i) PROVE ImageScripts'
  BY <1>18 DEF ReadScripts
<1>19. ASSUME NEW i \in Ids, CreateBranch(i) PROVE ImageScripts'
  BY <1>19 DEF CreateBranch
<1>20. ASSUME NEW i \in Ids, CreatePullRequest(i) PROVE ImageScripts'
  BY <1>20 DEF CreatePullRequest
<1>21. ASSUME NEW i \in Ids, Fault(i) PROVE ImageScripts'
  BY <1>21 DEF Fault
<1>22. CASE UNCHANGED vars
  BY <1>22 DEF vars
<1>23. QED
  BY <1>1, <1>2, <1>3, <1>4, <1>5, <1>6, <1>7, <1>8, <1>9, <1>10, <1>11,
     <1>12, <1>13, <1>14, <1>15, <1>16, <1>17, <1>18, <1>19, <1>20, <1>21,
     <1>22 DEF Next, RequestStep

\* A sync reads what is staged, which only a swap changes under a running portal.
LEMMA SyncStep == SyncIsStaged /\ [Next]_vars => SyncIsStaged'
<1> SUFFICES ASSUME SyncIsStaged, [Next]_vars PROVE SyncIsStaged'
  OBVIOUS
<1> USE DEF SyncIsStaged, Staged, disk, portal, git, bounds, Write, Move, Failed, Verify, NoSession, PortalStarts
<1>1. CASE Publish
  BY <1>1 DEF Publish
<1>2. CASE Start
  BY <1>2 DEF Start
<1>3. CASE Cancel
  BY <1>3 DEF Cancel
<1>4. CASE SyncScripts
  BY <1>4 DEF SyncScripts
<1>5. CASE PushScripts
  BY <1>5 DEF PushScripts
<1>6. CASE RestartPortal
  BY <1>6 DEF RestartPortal
<1>7. CASE Crash
  BY <1>7 DEF Crash
<1>8. CASE RestartContainer
  BY <1>8 DEF RestartContainer
<1>9. ASSUME NEW i \in Ids, Continue(i) PROVE SyncIsStaged'
  BY <1>9 DEF Continue
<1>10. ASSUME NEW i \in Ids, Resume(i) PROVE SyncIsStaged'
  BY <1>10 DEF Resume
<1>11. ASSUME NEW i \in Ids, Approve(i) PROVE SyncIsStaged'
  BY <1>11 DEF Approve
<1>12. ASSUME NEW i \in Ids, Extract(i) PROVE SyncIsStaged'
  BY <1>12 DEF Extract
<1>13. ASSUME NEW i \in Ids, Extracted(i) PROVE SyncIsStaged'
  BY <1>13 DEF Extracted
<1>14. ASSUME NEW i \in Ids, Migrate(i) PROVE SyncIsStaged'
  BY <1>14 DEF Migrate
<1>15. ASSUME NEW i \in Ids, Link(i) PROVE SyncIsStaged'
  BY <1>15 DEF Link
<1>16. ASSUME NEW i \in Ids, Record(i) PROVE SyncIsStaged'
  BY <1>16 DEF Record
<1>17. ASSUME NEW i \in Ids, NoScripts(i) PROVE SyncIsStaged'
  BY <1>17 DEF NoScripts
<1>18. ASSUME NEW i \in Ids, ReadScripts(i) PROVE SyncIsStaged'
  BY <1>18 DEF ReadScripts
<1>19. ASSUME NEW i \in Ids, CreateBranch(i) PROVE SyncIsStaged'
  BY <1>19 DEF CreateBranch
<1>20. ASSUME NEW i \in Ids, CreatePullRequest(i) PROVE SyncIsStaged'
  BY <1>20 DEF CreatePullRequest
<1>21. ASSUME NEW i \in Ids, Fault(i) PROVE SyncIsStaged'
  BY <1>21 DEF Fault
<1>22. CASE UNCHANGED vars
  BY <1>22 DEF vars
<1>23. QED
  BY <1>1, <1>2, <1>3, <1>4, <1>5, <1>6, <1>7, <1>8, <1>9, <1>10, <1>11,
     <1>12, <1>13, <1>14, <1>15, <1>16, <1>17, <1>18, <1>19, <1>20, <1>21,
     <1>22 DEF Next, RequestStep

\* Only the newest session has requests, also after a cancel that they overwrite.
LEMMA NewestStep ==
  ASSUME SoloIInv, ~overlap', [Next]_vars
  PROVE  NewestOnly'
<1>t. /\ target \in [Ids -> 0 .. Last] /\ at \in [Ids -> Places] /\ file \in [id : 0 .. MaxSessions, step : Steps]
      /\ release \in [Versions -> {"none", "damaged", "whole"}] /\ read \in [Ids -> 0 .. Last]
      /\ sessions \in Nat /\ sessions <= MaxSessions
      /\ StartedOnly /\ TargetsNamed /\ ImageScripts
  BY ConstantsAssumption DEF SoloIInv, TypeOK
<1>n. ~overlap
  BY DEF Next, RequestStep, disk, portal, git, bounds, Write, Move, Failed, Verify, NoSession, PortalStarts,
     Publish, Start, Cancel, SyncScripts, PushScripts, RestartPortal, Crash, RestartContainer, Continue, Resume, Approve, Extract, Extracted, Migrate, Link, Record, NoScripts, ReadScripts, CreateBranch, CreatePullRequest, Fault, vars
<1>s. NewestOnly /\ LinkedIsTarget /\ ProposedIsCurrent /\ VerifiedWhole
  BY <1>n DEF SoloIInv
<1> USE <1>t, <1>n, <1>s, ConstantsAssumption DEF NewestOnly, Ids, disk, portal, git, bounds, Write, Move, Failed, Verify, NoSession, PortalStarts, NewestOnly, StartedOnly
<1>1. CASE Publish
  BY <1>1 DEF Publish
<1>2. CASE Start
  BY <1>2 DEF Start, UnderWay, StartedOnly
<1>3. CASE Cancel
  BY <1>3 DEF Cancel
<1>4. CASE SyncScripts
  BY <1>4 DEF SyncScripts
<1>5. CASE PushScripts
  BY <1>5 DEF PushScripts
<1>6. CASE RestartPortal
  BY <1>6 DEF RestartPortal
<1>7. CASE Crash
  BY <1>7 DEF Crash
<1>8. CASE RestartContainer
  BY <1>8 DEF RestartContainer
<1>9. ASSUME NEW i \in Ids, Continue(i) PROVE NewestOnly'
  BY <1>9 DEF Continue
<1>10. ASSUME NEW i \in Ids, Resume(i) PROVE NewestOnly'
  BY <1>10 DEF Resume
<1>11. ASSUME NEW i \in Ids, Approve(i) PROVE NewestOnly'
  BY <1>11 DEF Approve
<1>12. ASSUME NEW i \in Ids, Extract(i) PROVE NewestOnly'
  BY <1>12 DEF Extract
<1>13. ASSUME NEW i \in Ids, Extracted(i) PROVE NewestOnly'
  BY <1>13 DEF Extracted
<1>14. ASSUME NEW i \in Ids, Migrate(i) PROVE NewestOnly'
  BY <1>14 DEF Migrate
<1>15. ASSUME NEW i \in Ids, Link(i) PROVE NewestOnly'
  BY <1>15 DEF Link
<1>16. ASSUME NEW i \in Ids, Record(i) PROVE NewestOnly'
  BY <1>16 DEF Record
<1>17. ASSUME NEW i \in Ids, NoScripts(i) PROVE NewestOnly'
  BY <1>17 DEF NoScripts
<1>18. ASSUME NEW i \in Ids, ReadScripts(i) PROVE NewestOnly'
  BY <1>18 DEF ReadScripts
<1>19. ASSUME NEW i \in Ids, CreateBranch(i) PROVE NewestOnly'
  BY <1>19 DEF CreateBranch
<1>20. ASSUME NEW i \in Ids, CreatePullRequest(i) PROVE NewestOnly'
  BY <1>20 DEF CreatePullRequest
<1>21. ASSUME NEW i \in Ids, Fault(i) PROVE NewestOnly'
  BY <1>21 DEF Fault
<1>22. CASE UNCHANGED vars
  BY <1>22 DEF vars
<1>23. QED
  BY <1>1, <1>2, <1>3, <1>4, <1>5, <1>6, <1>7, <1>8, <1>9, <1>10, <1>11,
     <1>12, <1>13, <1>14, <1>15, <1>16, <1>17, <1>18, <1>19, <1>20, <1>21,
     <1>22 DEF Next, RequestStep

\* Link and Record follow one another in the one request there is.
LEMMA LinkedStep ==
  ASSUME SoloIInv, ~overlap', [Next]_vars
  PROVE  LinkedIsTarget'
<1>t. /\ target \in [Ids -> 0 .. Last] /\ at \in [Ids -> Places] /\ file \in [id : 0 .. MaxSessions, step : Steps]
      /\ release \in [Versions -> {"none", "damaged", "whole"}] /\ read \in [Ids -> 0 .. Last]
      /\ sessions \in Nat /\ sessions <= MaxSessions
      /\ StartedOnly /\ TargetsNamed /\ ImageScripts
  BY ConstantsAssumption DEF SoloIInv, TypeOK
<1>n. ~overlap
  BY DEF Next, RequestStep, disk, portal, git, bounds, Write, Move, Failed, Verify, NoSession, PortalStarts,
     Publish, Start, Cancel, SyncScripts, PushScripts, RestartPortal, Crash, RestartContainer, Continue, Resume, Approve, Extract, Extracted, Migrate, Link, Record, NoScripts, ReadScripts, CreateBranch, CreatePullRequest, Fault, vars
<1>s. NewestOnly /\ LinkedIsTarget /\ ProposedIsCurrent /\ VerifiedWhole
  BY <1>n DEF SoloIInv
<1> USE <1>t, <1>n, <1>s, ConstantsAssumption DEF LinkedIsTarget, Ids, disk, portal, git, bounds, Write, Move, Failed, Verify, NoSession, PortalStarts, NewestOnly, StartedOnly
<1>1. CASE Publish
  BY <1>1 DEF Publish
<1>2. CASE Start
  BY <1>2 DEF Start, UnderWay
<1>3. CASE Cancel
  BY <1>3 DEF Cancel
<1>4. CASE SyncScripts
  BY <1>4 DEF SyncScripts
<1>5. CASE PushScripts
  BY <1>5 DEF PushScripts
<1>6. CASE RestartPortal
  BY <1>6 DEF RestartPortal
<1>7. CASE Crash
  BY <1>7 DEF Crash
<1>8. CASE RestartContainer
  BY <1>8 DEF RestartContainer
<1>9. ASSUME NEW i \in Ids, Continue(i) PROVE LinkedIsTarget'
  BY <1>9 DEF Continue
<1>10. ASSUME NEW i \in Ids, Resume(i) PROVE LinkedIsTarget'
  BY <1>10 DEF Resume
<1>11. ASSUME NEW i \in Ids, Approve(i) PROVE LinkedIsTarget'
  BY <1>11 DEF Approve
<1>12. ASSUME NEW i \in Ids, Extract(i) PROVE LinkedIsTarget'
  BY <1>12 DEF Extract
<1>13. ASSUME NEW i \in Ids, Extracted(i) PROVE LinkedIsTarget'
  BY <1>13 DEF Extracted
<1>14. ASSUME NEW i \in Ids, Migrate(i) PROVE LinkedIsTarget'
  BY <1>14 DEF Migrate
<1>15. ASSUME NEW i \in Ids, Link(i) PROVE LinkedIsTarget'
  BY <1>15 DEF Link
<1>16. ASSUME NEW i \in Ids, Record(i) PROVE LinkedIsTarget'
  BY <1>16 DEF Record
<1>17. ASSUME NEW i \in Ids, NoScripts(i) PROVE LinkedIsTarget'
  BY <1>17 DEF NoScripts
<1>18. ASSUME NEW i \in Ids, ReadScripts(i) PROVE LinkedIsTarget'
  BY <1>18 DEF ReadScripts
<1>19. ASSUME NEW i \in Ids, CreateBranch(i) PROVE LinkedIsTarget'
  BY <1>19 DEF CreateBranch
<1>20. ASSUME NEW i \in Ids, CreatePullRequest(i) PROVE LinkedIsTarget'
  BY <1>20 DEF CreatePullRequest
<1>21. ASSUME NEW i \in Ids, Fault(i) PROVE LinkedIsTarget'
  BY <1>21 DEF Fault
<1>22. CASE UNCHANGED vars
  BY <1>22 DEF vars
<1>23. QED
  BY <1>1, <1>2, <1>3, <1>4, <1>5, <1>6, <1>7, <1>8, <1>9, <1>10, <1>11,
     <1>12, <1>13, <1>14, <1>15, <1>16, <1>17, <1>18, <1>19, <1>20, <1>21,
     <1>22 DEF Next, RequestStep

\* A request that found a difference reads the scripts of the linked release.
LEMMA ProposedStep ==
  ASSUME SoloIInv, ~overlap', [Next]_vars
  PROVE  ProposedIsCurrent'
<1>t. /\ target \in [Ids -> 0 .. Last] /\ at \in [Ids -> Places] /\ file \in [id : 0 .. MaxSessions, step : Steps]
      /\ release \in [Versions -> {"none", "damaged", "whole"}] /\ read \in [Ids -> 0 .. Last]
      /\ sessions \in Nat /\ sessions <= MaxSessions
      /\ StartedOnly /\ TargetsNamed /\ ImageScripts
  BY ConstantsAssumption DEF SoloIInv, TypeOK
<1>n. ~overlap
  BY DEF Next, RequestStep, disk, portal, git, bounds, Write, Move, Failed, Verify, NoSession, PortalStarts,
     Publish, Start, Cancel, SyncScripts, PushScripts, RestartPortal, Crash, RestartContainer, Continue, Resume, Approve, Extract, Extracted, Migrate, Link, Record, NoScripts, ReadScripts, CreateBranch, CreatePullRequest, Fault, vars
<1>s. NewestOnly /\ LinkedIsTarget /\ ProposedIsCurrent /\ VerifiedWhole
  BY <1>n DEF SoloIInv
<1> USE <1>t, <1>n, <1>s, ConstantsAssumption DEF ProposedIsCurrent, Ids, disk, portal, git, bounds, Write, Move, Failed, Verify, NoSession, PortalStarts, NewestOnly, StartedOnly, LinkedIsTarget
<1>1. CASE Publish
  BY <1>1 DEF Publish
<1>2. CASE Start
  BY <1>2 DEF Start, UnderWay
<1>3. CASE Cancel
  BY <1>3 DEF Cancel
<1>4. CASE SyncScripts
  BY <1>4 DEF SyncScripts
<1>5. CASE PushScripts
  BY <1>5 DEF PushScripts
<1>6. CASE RestartPortal
  BY <1>6 DEF RestartPortal
<1>7. CASE Crash
  BY <1>7 DEF Crash
<1>8. CASE RestartContainer
  BY <1>8 DEF RestartContainer
<1>9. ASSUME NEW i \in Ids, Continue(i) PROVE ProposedIsCurrent'
  BY <1>9 DEF Continue
<1>10. ASSUME NEW i \in Ids, Resume(i) PROVE ProposedIsCurrent'
  BY <1>10 DEF Resume
<1>11. ASSUME NEW i \in Ids, Approve(i) PROVE ProposedIsCurrent'
  BY <1>11 DEF Approve
<1>12. ASSUME NEW i \in Ids, Extract(i) PROVE ProposedIsCurrent'
  BY <1>12 DEF Extract
<1>13. ASSUME NEW i \in Ids, Extracted(i) PROVE ProposedIsCurrent'
  BY <1>13 DEF Extracted
<1>14. ASSUME NEW i \in Ids, Migrate(i) PROVE ProposedIsCurrent'
  BY <1>14 DEF Migrate
<1>15. ASSUME NEW i \in Ids, Link(i) PROVE ProposedIsCurrent'
  BY <1>15 DEF Link
<1>16. ASSUME NEW i \in Ids, Record(i) PROVE ProposedIsCurrent'
  BY <1>16 DEF Record
<1>17. ASSUME NEW i \in Ids, NoScripts(i) PROVE ProposedIsCurrent'
  BY <1>17 DEF NoScripts
<1>18. ASSUME NEW i \in Ids, ReadScripts(i) PROVE ProposedIsCurrent'
  BY <1>18 DEF ReadScripts, Staged, ImageScripts
<1>19. ASSUME NEW i \in Ids, CreateBranch(i) PROVE ProposedIsCurrent'
  BY <1>19 DEF CreateBranch
<1>20. ASSUME NEW i \in Ids, CreatePullRequest(i) PROVE ProposedIsCurrent'
  BY <1>20 DEF CreatePullRequest
<1>21. ASSUME NEW i \in Ids, Fault(i) PROVE ProposedIsCurrent'
  BY <1>21 DEF Fault
<1>22. CASE UNCHANGED vars
  BY <1>22 DEF vars
<1>23. QED
  BY <1>1, <1>2, <1>3, <1>4, <1>5, <1>6, <1>7, <1>8, <1>9, <1>10, <1>11,
     <1>12, <1>13, <1>14, <1>15, <1>16, <1>17, <1>18, <1>19, <1>20, <1>21,
     <1>22 DEF Next, RequestStep

\* Nobody else extracts into the release that was verified.
LEMMA VerifiedStep ==
  ASSUME SoloIInv, ~overlap', [Next]_vars
  PROVE  VerifiedWhole'
<1>t. /\ target \in [Ids -> 0 .. Last] /\ at \in [Ids -> Places] /\ file \in [id : 0 .. MaxSessions, step : Steps]
      /\ release \in [Versions -> {"none", "damaged", "whole"}] /\ read \in [Ids -> 0 .. Last]
      /\ sessions \in Nat /\ sessions <= MaxSessions
      /\ StartedOnly /\ TargetsNamed /\ ImageScripts
  BY ConstantsAssumption DEF SoloIInv, TypeOK
<1>n. ~overlap
  BY DEF Next, RequestStep, disk, portal, git, bounds, Write, Move, Failed, Verify, NoSession, PortalStarts,
     Publish, Start, Cancel, SyncScripts, PushScripts, RestartPortal, Crash, RestartContainer, Continue, Resume, Approve, Extract, Extracted, Migrate, Link, Record, NoScripts, ReadScripts, CreateBranch, CreatePullRequest, Fault, vars
<1>s. NewestOnly /\ LinkedIsTarget /\ ProposedIsCurrent /\ VerifiedWhole
  BY <1>n DEF SoloIInv
<1> USE <1>t, <1>n, <1>s, ConstantsAssumption DEF VerifiedWhole, Ids, disk, portal, git, bounds, Write, Move, Failed, Verify, NoSession, PortalStarts, NewestOnly, StartedOnly, SharedExtraction, Versions, TargetsNamed
<1>1. CASE Publish
  BY <1>1 DEF Publish
<1>2. CASE Start
  BY <1>2 DEF Start, UnderWay
<1>3. CASE Cancel
  BY <1>3 DEF Cancel
<1>4. CASE SyncScripts
  BY <1>4 DEF SyncScripts
<1>5. CASE PushScripts
  BY <1>5 DEF PushScripts
<1>6. CASE RestartPortal
  BY <1>6 DEF RestartPortal
<1>7. CASE Crash
  BY <1>7 DEF Crash
<1>8. CASE RestartContainer
  BY <1>8 DEF RestartContainer
<1>9. ASSUME NEW i \in Ids, Continue(i) PROVE VerifiedWhole'
  BY <1>9 DEF Continue
<1>10. ASSUME NEW i \in Ids, Resume(i) PROVE VerifiedWhole'
  BY <1>10 DEF Resume
<1>11. ASSUME NEW i \in Ids, Approve(i) PROVE VerifiedWhole'
  BY <1>11 DEF Approve
<1>12. ASSUME NEW i \in Ids, Extract(i) PROVE VerifiedWhole'
  BY <1>12 DEF Extract
<1>13. ASSUME NEW i \in Ids, Extracted(i) PROVE VerifiedWhole'
  BY <1>13 DEF Extracted
<1>14. ASSUME NEW i \in Ids, Migrate(i) PROVE VerifiedWhole'
  BY <1>14 DEF Migrate
<1>15. ASSUME NEW i \in Ids, Link(i) PROVE VerifiedWhole'
  BY <1>15 DEF Link
<1>16. ASSUME NEW i \in Ids, Record(i) PROVE VerifiedWhole'
  BY <1>16 DEF Record
<1>17. ASSUME NEW i \in Ids, NoScripts(i) PROVE VerifiedWhole'
  BY <1>17 DEF NoScripts
<1>18. ASSUME NEW i \in Ids, ReadScripts(i) PROVE VerifiedWhole'
  BY <1>18 DEF ReadScripts
<1>19. ASSUME NEW i \in Ids, CreateBranch(i) PROVE VerifiedWhole'
  BY <1>19 DEF CreateBranch
<1>20. ASSUME NEW i \in Ids, CreatePullRequest(i) PROVE VerifiedWhole'
  BY <1>20 DEF CreatePullRequest
<1>21. ASSUME NEW i \in Ids, Fault(i) PROVE VerifiedWhole'
  BY <1>21 DEF Fault
<1>22. CASE UNCHANGED vars
  BY <1>22 DEF vars
<1>23. QED
  BY <1>1, <1>2, <1>3, <1>4, <1>5, <1>6, <1>7, <1>8, <1>9, <1>10, <1>11,
     <1>12, <1>13, <1>14, <1>15, <1>16, <1>17, <1>18, <1>19, <1>20, <1>21,
     <1>22 DEF Next, RequestStep

LEMMA SoloStep == SoloIInv /\ [Next]_vars => SoloIInv'
<1> SUFFICES ASSUME SoloIInv, [Next]_vars PROVE SoloIInv'
  OBVIOUS
<1>1. TypeOK' /\ StartedOnly' /\ TargetsNamed' /\ ImageScripts' /\ SyncIsStaged'
  BY TypeStep, StartedStep, ImageStep, SyncStep DEF SoloIInv
<1>2. ASSUME ~overlap'
      PROVE  NewestOnly' /\ LinkedIsTarget' /\ ProposedIsCurrent' /\ VerifiedWhole'
  BY <1>2, NewestStep, LinkedStep, ProposedStep, VerifiedStep
<1>3. QED
  BY <1>1, <1>2 DEF SoloIInv

\* A step that moves the link moves it to an extracted, verified release.
LEMMA LinkStep ==
  SoloIInv /\ [Next]_vars => (current' # current => overlap \/ release[current'] = "whole")
<1> SUFFICES ASSUME SoloIInv, [Next]_vars, current' # current, ~overlap
             PROVE  release[current'] = "whole"
  OBVIOUS
<1> USE DEF disk, portal, git, bounds
<1>1. PICK i \in Ids : Link(i)
  BY DEF Next, RequestStep, vars, Publish, Start, Cancel, SyncScripts, PushScripts, RestartPortal,
    Crash, RestartContainer, Continue, Resume, Approve, Extract, Extracted, Migrate, Record,
    NoScripts, ReadScripts, CreateBranch, CreatePullRequest, Fault
<1>2. QED
  BY <1>1 DEF Link, SoloIInv, VerifiedWhole, TypeOK

\* A step that changes the scripts is an approval or a sync.
LEMMA ScriptsStep ==
  SoloIInv /\ [Next]_vars =>
    (scripts' # scripts /\ (file' # file \/ ~swapped) => overlap \/ scripts' = current)
<1> SUFFICES ASSUME SoloIInv, [Next]_vars, scripts' # scripts, file' # file \/ ~swapped, ~overlap
             PROVE  scripts' = current
  OBVIOUS
<1> USE DEF disk, portal, git, bounds
<1>1. PushScripts \/ \E i \in Ids : Approve(i)
  BY DEF Next, RequestStep, vars, Publish, Start, Cancel, SyncScripts, RestartPortal,
    Crash, RestartContainer, Continue, Resume, Extract, Extracted, Migrate, Link, Record,
    NoScripts, ReadScripts, CreateBranch, CreatePullRequest, Fault
<1>2. CASE PushScripts
  BY <1>2 DEF PushScripts, SoloIInv, SyncIsStaged, Staged, ImageScripts
<1>3. ASSUME NEW i \in Ids, Approve(i) PROVE scripts' = current
  BY <1>3 DEF Approve, SoloIInv, ProposedIsCurrent
<1>4. QED
  BY <1>1, <1>2, <1>3

\* Unless sessions overlapped, a swap the wizard calls done is linked and recorded.
THEOREM SwapsRecorded == Spec => []SwapRecorded
<1>1. SoloIInv => SwapRecorded
  BY DEF SoloIInv, LinkedIsTarget, SwapRecorded
<1>2. QED
  BY <1>1, SoloInit, SoloStep, PTL DEF Spec

\* Only releases that are whole are linked.
THEOREM OnlyWholeLinked == Spec => LinkedWhole
<1>1. SoloIInv /\ [Next]_vars
        => [current' # current => overlap \/ release[current'] = "whole"]_vars
  BY LinkStep
<1>2. QED
  BY <1>1, SoloInit, SoloStep, PTL DEF Spec, LinkedWhole

\* Approvals and syncs of a restarted portal write the linked release's scripts.
THEOREM ScriptsFollow == Spec => ScriptsFollowLink
<1>1. SoloIInv /\ [Next]_vars =>
        [scripts' # scripts /\ (file' # file \/ ~swapped) => overlap \/ scripts' = current]_vars
  BY ScriptsStep
<1>2. QED
  BY <1>1, SoloInit, SoloStep, PTL DEF Spec, ScriptsFollowLink
=============================================================================
