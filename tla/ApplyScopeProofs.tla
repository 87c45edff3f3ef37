-------------------------- MODULE ApplyScopeProofs --------------------------
(* Theorems of ApplyScope: its types, what a run applies, whose plan is shown, marks. *)
EXTENDS ApplyScope, TLAPS

\* What the properties need to know of types.
Typed ==
  /\ run \in 0 .. MaxRuns
  /\ stage \in {"idle", "clear", "publish", "gate", "apply", "cleanup"}
  /\ stage # "idle" => run # 0
  /\ pending \in Set /\ listed \in [Runs -> Set]

\* The list of a run past the publishing step is there, or the step has failed; a run
\* that has not published shows nobody else's plan, or the clearing has failed.
Published ==
  /\ stage \in {"gate", "apply"} /\ "publish" \notin failed =>
       plan = run /\ (listed[run] # {} => run \in scopes)
  /\ stage \in {"clear", "publish"} => "publish" \notin failed
  /\ stage = "publish" /\ plan # 0 => "clear" \in failed

IInv == Typed /\ Published /\ PlannedOnly /\ NoGhostPlan

LEMMA InitIInv == Init => IInv
BY BoundsAssumption, SMT DEF Init, IInv, Typed, Published, PlannedOnly, NoGhostPlan, Set, Runs

\* Steps that leave the run and its files alone.
LEMMA IdleSteps ==
  ASSUME IInv, pending' \in Set, UNCHANGED <<run, stage, listed, baseline, failed, plan, scopes, applied>>
  PROVE  IInv'
BY DEF IInv, Typed, Published, PlannedOnly, NoGhostPlan

LEMMA StepIInv == IInv /\ [Next]_vars => IInv'
<1> SUFFICES ASSUME IInv, [Next]_vars PROVE IInv'
  OBVIOUS
<1> USE DEF IInv, Typed, Published, PlannedOnly, NoGhostPlan
<1>1. CASE Start
  <2>1. run' = run + 1 /\ run + 1 \in Runs
    BY <1>1, BoundsAssumption, SMT DEF Start, Runs
  <2>2. run' \in 0 .. MaxRuns /\ run' # 0
    BY <2>1, SMT DEF Runs
  <2>3. listed' \in [Runs -> Set]
    <3>1. pending \ ignore \in Set /\ listed \in [Runs -> Set]
      BY DEF Set
    <3>2. listed' = [listed EXCEPT ![run + 1] = pending \ ignore]
      BY <1>1 DEF Start
    <3> QED BY <3>1, <3>2, Zenon
  <2> QED BY <1>1, <2>1, <2>2, <2>3 DEF Start
<1>2. CASE ClearStalePlans
  BY <1>2 DEF ClearStalePlans, TryStep
<1>3. CASE PublishPlan
  BY <1>3 DEF PublishPlan, TryStep, Publish
<1>4. CASE Approve
  BY <1>4 DEF Approve
<1>5. CASE RunStops
  BY <1>5 DEF RunStops
<1>6. CASE CleanUp
  BY <1>6 DEF CleanUp, TryStep
<1>7. CASE \E done \in Set : Apply(done)
  <2> PICK done \in Set : Apply(done)
    BY <1>7
  <2>2. pending' \in Set
    BY DEF Apply, Set
  <2>1. "publish" \notin failed /\ ~(baseline /\ listed[run] = {}) => done \subseteq listed[run]
    BY DEF Apply, Selected
  <2> QED BY <2>1, <2>2 DEF Apply
<1>8. CASE \E i \in Items : BaselineChanges(i) \/ EditIgnore(i)
  <2>1. pending' \in Set
    BY <1>8 DEF BaselineChanges, EditIgnore, Set
  <2> QED BY <1>8, <2>1, IdleSteps DEF BaselineChanges, EditIgnore
<1>9. CASE \E r \in Runs : RemoveScope(r)
  BY <1>9 DEF RemoveScope
<1>10. CASE SkipStep
  <2> PICK m \in Modals :
         \/ Open(m) \/ SaveSkipFile(m) \/ DropTimer(m) \/ Close(m)
         \/ \E i \in Items : Toggle(m, i)
         \/ \E s \in saves[m] : SaveLands(m, s) \/ SaveRereads(m, s)
    BY <1>10 DEF SkipStep
  <2>1. CASE Open(m)
    BY <2>1, IdleSteps, Zenon DEF Open, pipeline
  <2>2. CASE SaveSkipFile(m)
    BY <2>2, IdleSteps, Zenon DEF SaveSkipFile, pipeline
  <2>3. CASE DropTimer(m)
    BY <2>3, IdleSteps, Zenon DEF DropTimer, pipeline
  <2>4. CASE Close(m)
    BY <2>4, IdleSteps, Zenon DEF Close, pipeline
  <2>5. CASE \E i \in Items : Toggle(m, i)
    BY <2>5, IdleSteps, Zenon DEF Toggle, pipeline
  <2>6. CASE \E s \in saves[m] : SaveLands(m, s)
    BY <2>6, IdleSteps, Zenon DEF SaveLands, pipeline
  <2>7. CASE \E s \in saves[m] : SaveRereads(m, s)
    BY <2>7, IdleSteps, Zenon DEF SaveRereads, pipeline
  <2> QED BY <2>1, <2>2, <2>3, <2>4, <2>5, <2>6, <2>7
<1>11. CASE UNCHANGED vars
  BY <1>11, IdleSteps DEF vars, pipeline
<1> QED
  BY <1>1, <1>2, <1>3, <1>4, <1>5, <1>6, <1>7, <1>8, <1>9, <1>10, <1>11 DEF Next, RunStep

\* A run applies nothing that its plan did not list, unless publishing the list failed or
\* the plan has a removal or an error but no file, for any baseline, browsers and number of runs.
THEOREM AppliedIsPlanned == Spec => []PlannedOnly
<1>1. IInv => PlannedOnly
  BY DEF IInv
<1> QED BY InitIInv, StepIInv, <1>1, PTL DEF Spec

\* The portal shows the waiting run's plan, or else two steps of its job have failed.
THEOREM ShownIsWaiting == Spec => []NoGhostPlan
<1>1. IInv => NoGhostPlan
  BY DEF IInv
<1> QED BY InitIInv, StepIInv, <1>1, PTL DEF Spec

-----------------------------------------------------------------------------
(* Types. *)

\* Only a run that was started is at a step, a window that is open or has a timer shows a
\* run, and what its timer will save are marks.
Begun == stage # "idle" => run # 0
Sound(w) == /\ w.open \/ w.timer # NoTimer => w.shows # 0
            /\ w.timer # NoTimer => w.timer.set \in Set
Shown == \A m \in Modals : Sound(modal[m])
TInv  == TypeOK /\ Begun /\ Shown

Timer  == [set : File, sha : File]
Window == [open : BOOLEAN, shows : 0 .. MaxRuns, marked : Set, sha : File, timer : Timer]
Saving == [want : Set, sha : File, run : Runs, step : {"send", "reread"}, live : BOOLEAN]

LEMMA TypeInit == Init => TInv
<1> SUFFICES ASSUME Init PROVE TInv
  OBVIOUS
<1>1. Closed \in Window /\ Sound(Closed)
  BY BoundsAssumption, SMT DEF Closed, Sound, Window, Timer, NoTimer, File, Set
<1>2. modal \in [Modals -> Window] /\ \A m \in Modals : modal[m] = Closed
  BY <1>1 DEF Init
<1>3. baseline \in BOOLEAN
  BY Zenon DEF Init
<1> DEFINE Others == /\ run \in 0 .. MaxRuns /\ stage = "idle" /\ pending \in Set /\ ignore \in Set
                     /\ listed \in [Runs -> Set] /\ applied \in Set
                     /\ failed \subseteq {"clear", "publish", "cleanup"}
                     /\ plan \in 0 .. MaxRuns /\ scopes \subseteq Runs /\ skip \in [Runs -> File]
                     /\ saves \in [Modals -> SUBSET Saving]
                     /\ changes \in 0 .. MaxChanges /\ toggles \in 0 .. MaxToggles
                     /\ faults \in 0 .. MaxFaults
<1>4. Others
  BY BoundsAssumption, SMT DEF Init, File, Set, Runs
<1>5. doubtful \in [Modals -> BOOLEAN]
  BY Zenon DEF Init
<1> QED BY <1>1, <1>2, <1>3, <1>4, <1>5 DEF TInv, TypeOK, Begun, Shown, Window, Timer, Saving

\* A step of a run leaves windows, their writes and the browsers' calls alone.
LEMMA RunTypes == TInv /\ RunStep => TInv'
<1> SUFFICES ASSUME TInv, RunStep PROVE TInv'
  OBVIOUS
<1> USE DEF TInv, TypeOK, Begun, Shown, skipping
<1>0. 0 \in 0 .. MaxRuns
  BY BoundsAssumption, SMT
<1>1. CASE Start
  <2>1. run' = run + 1 /\ run + 1 \in Runs /\ run' \in 0 .. MaxRuns /\ run' # 0
    BY <1>1, BoundsAssumption, SMT DEF Start, Runs
  <2>2. pending \ ignore \in Set /\ {} \in Set
    BY DEF Set
  <2>3. listed' \in [Runs -> Set]
    BY <1>1, <2>1, <2>2, Zenon DEF Start
  <2>4. baseline' \in BOOLEAN
    BY <1>1, Zenon DEF Start
  <2>5. /\ stage' \in {"idle", "clear", "publish", "gate", "apply", "cleanup"}
        /\ failed' = {} /\ applied' \in Set
    BY <1>1, <2>2 DEF Start
  <2>6. UNCHANGED <<pending, plan, scopes, ignore, changes, skip, modal, saves, toggles, doubtful, faults>>
    BY <1>1 DEF Start
  <2> QED BY <2>1, <2>3, <2>4, <2>5, <2>6
<1>2. CASE ClearStalePlans
  BY <1>0, <1>2, Zenon DEF ClearStalePlans, TryStep
<1>3. CASE PublishPlan
  <2>1. stage' \in {"gate", "idle"} /\ run \in Runs /\ run # 0 /\ failed' \subseteq failed \cup {"publish"}
    BY <1>3, SMT DEF PublishPlan, TryStep, Runs
  <2>2. plan' \in {plan, run} /\ scopes' \subseteq scopes \cup {run}
    BY <1>3 DEF PublishPlan, TryStep, Publish
  <2> QED BY <1>3, <2>1, <2>2, Zenon DEF PublishPlan, TryStep
<1>4. CASE Approve
  BY <1>4 DEF Approve
<1>5. CASE RunStops
  BY <1>5 DEF RunStops
<1>6. CASE CleanUp
  BY <1>0, <1>6, Zenon DEF CleanUp, TryStep
<1>7. ASSUME NEW done \in Set, Apply(done) PROVE TInv'
  <2>1. pending' \in Set
    BY <1>7 DEF Apply, Set
  <2> QED BY <1>7, <2>1 DEF Apply
<1>8. ASSUME NEW i \in Items, BaselineChanges(i) \/ EditIgnore(i) PROVE TInv'
  <2>1. pending' \in Set /\ ignore' \in Set
    BY <1>8 DEF BaselineChanges, EditIgnore, Set
  <2>2. changes' \in 0 .. MaxChanges
    BY <1>8, BoundsAssumption, SMT DEF BaselineChanges, EditIgnore
  <2> QED BY <1>8, <2>1, <2>2 DEF BaselineChanges, EditIgnore
<1>9. ASSUME NEW r \in Runs, RemoveScope(r) PROVE TInv'
  BY <1>9 DEF RemoveScope
<1> QED BY <1>1, <1>2, <1>3, <1>4, <1>5, <1>6, <1>7, <1>8, <1>9 DEF RunStep

\* One window becomes w and its writes become W.
LEMMA WindowTypes ==
  ASSUME TInv, NEW m \in Modals, NEW w \in Window, NEW W \in SUBSET Saving, Sound(w),
         modal' = [modal EXCEPT ![m] = w], saves' = [saves EXCEPT ![m] = W],
         doubtful' \in [Modals -> BOOLEAN],
         skip' \in [Runs -> File], toggles' \in 0 .. MaxToggles, faults' \in 0 .. MaxFaults,
         UNCHANGED pipeline
  PROVE  TInv'
<1>1. modal \in [Modals -> Window] /\ saves \in [Modals -> SUBSET Saving]
  BY DEF TInv, TypeOK, Window, Timer, Saving
<1>2. modal' \in [Modals -> Window] /\ saves' \in [Modals -> SUBSET Saving]
  BY <1>1, Zenon
<1>3. Shown'
  BY <1>1 DEF TInv, Shown
<1>4. TypeOK'
  BY <1>2 DEF TInv, TypeOK, Window, Timer, Saving, pipeline
<1> QED BY <1>3, <1>4 DEF TInv, Begun, pipeline

LEMMA DoubtTypes ==
  ASSUME TInv, NEW m \in Modals, NEW d \in BOOLEAN, doubtful' = [doubtful EXCEPT ![m] = d]
  PROVE  doubtful' \in [Modals -> BOOLEAN]
BY DEF TInv, TypeOK

LEMMA FaultTypes == TInv /\ (Fault \/ NoFault) => faults' \in 0 .. MaxFaults
BY BoundsAssumption, SMT DEF TInv, TypeOK, Fault, NoFault

\* What a step reads of a window.
LEMMA WindowRead ==
  ASSUME TInv, NEW m \in Modals
  PROVE  /\ modal[m] \in Window /\ saves[m] \in SUBSET Saving /\ doubtful[m] \in BOOLEAN
         /\ Sound(modal[m])
         /\ modal = [modal EXCEPT ![m] = modal[m]] /\ saves = [saves EXCEPT ![m] = saves[m]]
         /\ doubtful = [doubtful EXCEPT ![m] = doubtful[m]]
         /\ skip \in [Runs -> File] /\ toggles \in 0 .. MaxToggles /\ faults \in 0 .. MaxFaults
BY DEF TInv, TypeOK, Shown, Window, Timer, Saving

\* Whatever is done in a window, and whatever comes of its writes.
LEMMA WindowSteps ==
  ASSUME TInv, NEW m \in Modals,
         \/ Open(m) \/ SaveSkipFile(m) \/ DropTimer(m) \/ Close(m)
         \/ \E i \in Items : Toggle(m, i)
         \/ \E s \in saves[m] : SaveLands(m, s) \/ SaveRereads(m, s)
  PROVE  TInv'
<1>0. NoTimer \in Timer /\ Closed.timer = NoTimer /\ ~Closed.open /\ NoFile \in File /\ Set \subseteq File
  BY DEF NoTimer, Timer, File, Closed
<1>1. CASE Open(m)
  <2> DEFINE w == [Closed EXCEPT !.open = TRUE, !.shows = plan]
             W == {[s EXCEPT !.live = FALSE] : s \in saves[m]}
  <2>1. w \in Window /\ Sound(w) /\ FALSE \in BOOLEAN
    <3>1. plan \in 0 .. MaxRuns /\ plan # 0 /\ {} \in Set
      BY <1>1 DEF Open, TInv, TypeOK, Set
    <3>2. Closed \in Window
      BY <1>0, BoundsAssumption, <3>1, SMT DEF Closed, Window
    <3>3. w \in Window /\ w.shows = plan /\ w.timer = NoTimer
      BY <1>0, <3>1, <3>2 DEF Window
    <3> HIDE DEF w
    <3> QED BY <3>1, <3>3 DEF Sound
  <2>2. W \in SUBSET Saving
    <3>1. ASSUME NEW s \in Saving PROVE [s EXCEPT !.live = FALSE] \in Saving
      BY DEF Saving
    <3> QED BY <3>1, WindowRead
  <2>3. modal' = [modal EXCEPT ![m] = w] /\ saves' = [saves EXCEPT ![m] = W]
        /\ doubtful' = [doubtful EXCEPT ![m] = FALSE]
    BY <1>1, Zenon DEF Open
  <2>4. UNCHANGED <<pipeline, skip, toggles, faults>>
    BY <1>1 DEF Open
  <2> HIDE DEF w, W
  <2> QED BY <2>1, <2>2, <2>3, <2>4, WindowRead, DoubtTypes, WindowTypes
<1>2. CASE SaveSkipFile(m)
  <2> DEFINE t == modal[m].timer
             w == [modal[m] EXCEPT !.timer = NoTimer]
             s == [want |-> t.set, sha |-> t.sha, run |-> modal[m].shows, step |-> "send", live |-> TRUE]
             W == IF t.set = {} /\ t.sha = NoFile THEN saves[m] ELSE saves[m] \cup {s}
             d == doubtful[m] \/ \E x \in saves[m] : x.step = "send"
  <2>1. w \in Window /\ Sound(w)
    BY <1>0, <1>2, WindowRead, SMT DEF Window, Sound
  <2>2. t \in Timer /\ t.set \in Set /\ modal[m].shows \in Runs
    BY <1>2, WindowRead, BoundsAssumption, SMT DEF SaveSkipFile, Window, Runs, Sound
  <2>3. W \in SUBSET Saving
    <3>1. s \in Saving
      BY <2>2 DEF Saving, Timer
    <3> QED BY <3>1, WindowRead
  <2>4. d \in BOOLEAN
    OBVIOUS
  <2>5. modal' = [modal EXCEPT ![m] = w] /\ doubtful' = [doubtful EXCEPT ![m] = d]
    BY <1>2, Zenon DEF SaveSkipFile
  <2>6. saves' = [saves EXCEPT ![m] = W]
    BY <1>2, WindowRead DEF SaveSkipFile
  <2>7. UNCHANGED <<pipeline, skip, toggles, faults>>
    BY <1>2 DEF SaveSkipFile
  <2> HIDE DEF w, W, d
  <2> QED BY <2>1, <2>3, <2>4, <2>5, <2>6, <2>7, WindowRead, DoubtTypes, WindowTypes
<1>3. CASE DropTimer(m) \/ Close(m)
  <2> PICK o \in BOOLEAN, d \in BOOLEAN :
        /\ modal' = [modal EXCEPT ![m] = [modal[m] EXCEPT !.open = o, !.timer = NoTimer]]
        /\ doubtful' = [doubtful EXCEPT ![m] = d] /\ (o => modal[m].open)
    <3>1. modal[m] = [modal[m] EXCEPT !.open = modal[m].open] /\ modal[m].open \in BOOLEAN
      BY WindowRead DEF Window
    <3>2. CASE DropTimer(m)
      BY <3>1, <3>2, WindowRead DEF DropTimer, Window
    <3>3. CASE Close(m)
      <4>1. modal' = [modal EXCEPT ![m] = [modal[m] EXCEPT !.open = FALSE, !.timer = NoTimer]]
        BY <3>3, WindowRead DEF Close, Window
      <4>2. (doubtful[m] \/ modal[m].timer # NoTimer) \in BOOLEAN /\ FALSE \in BOOLEAN
        OBVIOUS
      <4>3. doubtful' = [doubtful EXCEPT ![m] = doubtful[m] \/ modal[m].timer # NoTimer]
        BY <3>3, Zenon DEF Close
      <4> QED BY <4>1, <4>2, <4>3
    <3> QED BY <1>3, <3>2, <3>3
  <2> DEFINE w == [modal[m] EXCEPT !.open = o, !.timer = NoTimer]
  <2>1. w \in Window /\ Sound(w)
    <3>1. w \in Window
      BY <1>0, WindowRead DEF Window
    <3>2. w.open = o /\ w.timer = NoTimer /\ w.shows = modal[m].shows
      BY WindowRead DEF Window
    <3> HIDE DEF w
    <3> QED BY <3>1, <3>2, WindowRead DEF Sound
  <2>2. UNCHANGED <<pipeline, skip, saves, toggles, faults>>
    BY <1>3 DEF DropTimer, Close
  <2> HIDE DEF w
  <2> QED BY <2>1, <2>2, WindowRead, DoubtTypes, WindowTypes DEF w
<1>4. ASSUME NEW i \in Items, Toggle(m, i) PROVE TInv'
  <2> DEFINE next == IF i \in modal[m].marked THEN modal[m].marked \ {i} ELSE modal[m].marked \cup {i}
             w == [modal[m] EXCEPT !.marked = next, !.timer = [set |-> next, sha |-> modal[m].sha]]
  <2>1. next \in Set /\ modal[m].open
    BY <1>4, WindowRead DEF Toggle, Window, Set
  <2>2. w \in Window /\ Sound(w)
    <3> HIDE DEF next
    <3>1. [set |-> next, sha |-> modal[m].sha] \in Timer
      BY <2>1, <1>0, WindowRead DEF Window, Timer
    <3>2. w \in Window
      BY <2>1, <3>1, WindowRead DEF Window
    <3>3. w.open = modal[m].open /\ w.shows = modal[m].shows /\ w.timer.set = next
      BY WindowRead DEF Window
    <3> HIDE DEF w
    <3> QED BY <2>1, <3>2, <3>3, WindowRead DEF Sound
  <2>3. modal' = [modal EXCEPT ![m] = w]
    BY <1>4, WindowRead DEF Toggle, Window
  <2>4. toggles' \in 0 .. MaxToggles
    BY <1>4, WindowRead, BoundsAssumption, SMT DEF Toggle
  <2>5. UNCHANGED <<pipeline, skip, saves, doubtful, faults>>
    BY <1>4 DEF Toggle
  <2> HIDE DEF w
  <2> QED BY <2>2, <2>3, <2>4, <2>5, WindowRead, DoubtTypes, WindowTypes
<1>5. ASSUME NEW s \in saves[m], SaveLands(m, s) PROVE TInv'
  <2>0. s \in Saving /\ Set \subseteq File /\ NoFile \in File
    BY WindowRead DEF File
  <2>1. skip' \in [Runs -> File]
    BY <1>5, <2>0, WindowRead, SMT DEF SaveLands, Saving
  <2>2. PICK W \in SUBSET Saving : saves' = [saves EXCEPT ![m] = W]
    <3>1. [s EXCEPT !.step = "reread"] \in Saving
      BY <2>0 DEF Saving
    <3> DEFINE again == {[s EXCEPT !.step = "reread"]}
    <3>2. \/ saves' = [saves EXCEPT ![m] = (saves[m] \ {s}) \cup again]
          \/ saves' = [saves EXCEPT ![m] = (saves[m] \ {s}) \cup {}]
      BY <1>5, Zenon DEF SaveLands
    <3>3. (saves[m] \ {s}) \cup again \in SUBSET Saving /\ (saves[m] \ {s}) \cup {} \in SUBSET Saving
      BY <3>1, WindowRead
    <3> HIDE DEF again
    <3> QED BY <3>2, <3>3
  <2>3. PICK w \in Window : Sound(w) /\ modal' = [modal EXCEPT ![m] = w]
    <3>1. [modal[m] EXCEPT !.sha = NoFile] \in Window /\ Sound([modal[m] EXCEPT !.sha = NoFile])
      BY <2>0, WindowRead, SMT DEF Window, Sound
    <3>2. modal' = modal \/ modal' = [modal EXCEPT ![m] = [modal[m] EXCEPT !.sha = NoFile]]
      BY <1>5, WindowRead DEF SaveLands, Window
    <3> QED BY <3>1, <3>2, WindowRead
  <2>4. doubtful' \in [Modals -> BOOLEAN]
    BY <1>5, WindowRead DEF SaveLands
  <2>5. faults' \in 0 .. MaxFaults
    BY <1>5, FaultTypes DEF SaveLands
  <2>6. UNCHANGED <<pipeline, toggles>>
    BY <1>5 DEF SaveLands
  <2> QED BY <2>1, <2>2, <2>3, <2>4, <2>5, <2>6, WindowRead, DoubtTypes, WindowTypes
<1>6. ASSUME NEW s \in saves[m], SaveRereads(m, s) PROVE TInv'
  <2> DEFINE W == saves[m] \ {s}
  <2>1. W \in SUBSET Saving
    BY WindowRead
  <2>2. PICK w \in Window : Sound(w) /\ modal' = [modal EXCEPT ![m] = w]
    <3>1. CASE modal' = modal
      BY <3>1, WindowRead
    <3>2. CASE modal' # modal
      <4>1. skip[s.run] \in File /\ modal' = [modal EXCEPT ![m] = [modal[m] EXCEPT !.sha = skip[s.run]]]
        BY <1>6, <3>2, WindowRead, SMT DEF SaveRereads, Saving, Window
      <4>2. [modal[m] EXCEPT !.sha = skip[s.run]] \in Window /\ Sound([modal[m] EXCEPT !.sha = skip[s.run]])
        BY <4>1, WindowRead, SMT DEF Window, Sound
      <4> QED BY <4>1, <4>2
    <3> QED BY <3>1, <3>2
  <2>3. saves' = [saves EXCEPT ![m] = W] /\ UNCHANGED <<pipeline, skip, toggles, doubtful>>
    BY <1>6, Zenon DEF SaveRereads
  <2>4. faults' \in 0 .. MaxFaults
    BY <1>6, FaultTypes DEF SaveRereads
  <2> QED BY <2>1, <2>2, <2>3, <2>4, WindowRead, DoubtTypes, WindowTypes
<1> QED BY <1>1, <1>2, <1>3, <1>4, <1>5, <1>6

LEMMA TypeStep == TInv /\ [Next]_vars => TInv'
<1> SUFFICES ASSUME TInv, [Next]_vars PROVE TInv'
  OBVIOUS
<1>1. CASE RunStep
  BY <1>1, RunTypes
<1>2. CASE SkipStep
  BY <1>2, WindowSteps DEF SkipStep
<1>3. CASE UNCHANGED vars
  BY <1>3 DEF vars, pipeline, skipping, TInv, TypeOK, Begun, Shown
<1> QED BY <1>1, <1>2, <1>3 DEF Next

\* Runs, plans, windows and their writes keep their types, for any baseline, browsers and
\* number of runs.
THEOREM TypeCorrect == Spec => []TypeOK
<1>1. TInv => TypeOK
  BY DEF TInv
<1> QED BY TypeInit, TypeStep, <1>1, PTL DEF Spec

-----------------------------------------------------------------------------
(* Marks. *)

\* What the timer of an open window will save are its marks, and a live write is one of
\* the run that the window shows.
TimerSaves(m) ==
  modal[m].timer # NoTimer => modal[m].open /\ modal[m].timer.set = modal[m].marked
LiveRun(m) == \A s \in saves[m] : s.live => s.run = modal[m].shows

\* The marks of an open window without doubts are none, wait for the timer, are in the
\* only write under way, or are in the file while no write is under way.
Sends(m)   == {s \in saves[m] : s.step = "send"}
Carried(m) == \E s \in Sends(m) : s.live /\ s.want = modal[m].marked /\ Alone(m, s)
Stored(m)  == Sends(m) = {} /\ modal[m].marked \subseteq Patterns(skip[modal[m].shows])
Kept(m) ==
  modal[m].open /\ ~doubtful[m] =>
    modal[m].marked = {} \/ modal[m].timer # NoTimer \/ Carried(m) \/ Stored(m)

Marks(m) == TimerSaves(m) /\ LiveRun(m) /\ Kept(m)
MInv == TInv /\ \A m \in Modals : Marks(m)

\* A window that no step is about keeps its marks, unless the file they are in is written.
LEMMA Undisturbed ==
  ASSUME NEW n \in Modals, Marks(n), modal'[n] = modal[n], saves'[n] = saves[n],
         doubtful'[n] \/ (~doubtful[n] /\ skip'[modal[n].shows] = skip[modal[n].shows])
           \/ (doubtful[n] /\ doubtful'[n])
  PROVE  Marks(n)'
BY DEF Marks, TimerSaves, LiveRun, Kept, Sends, Carried, Stored, Alone, Patterns

\* A step of window m, or of one of its writes, that writes no file.
LEMMA OthersKept ==
  ASSUME MInv, NEW m \in Modals, NEW w, NEW W, NEW d,
         modal' = [modal EXCEPT ![m] = w], saves' = [saves EXCEPT ![m] = W],
         doubtful' = [doubtful EXCEPT ![m] = d], skip' = skip, Marks(m)'
  PROVE  \A n \in Modals : Marks(n)'
<1> SUFFICES ASSUME NEW n \in Modals, n # m PROVE Marks(n)'
  OBVIOUS
<1>1. modal'[n] = modal[n] /\ saves'[n] = saves[n] /\ doubtful'[n] = doubtful[n] /\ Marks(n)
  BY DEF MInv, TInv, TypeOK
<1> QED BY <1>1, Undisturbed

\* What a step of window m makes of it.
LEMMA Becomes ==
  ASSUME TInv, NEW m \in Modals, NEW w, NEW W, NEW d,
         modal' = [modal EXCEPT ![m] = w], saves' = [saves EXCEPT ![m] = W],
         doubtful' = [doubtful EXCEPT ![m] = d]
  PROVE  modal'[m] = w /\ saves'[m] = W /\ doubtful'[m] = d
BY DEF TInv, TypeOK

LEMMA OpenKeeps == ASSUME MInv, NEW m \in Modals, Open(m) PROVE \A n \in Modals : Marks(n)'
<1> DEFINE w == [Closed EXCEPT !.open = TRUE, !.shows = plan]
           W == {[s EXCEPT !.live = FALSE] : s \in saves[m]}
<1>1. /\ modal' = [modal EXCEPT ![m] = w] /\ saves' = [saves EXCEPT ![m] = W]
      /\ doubtful' = [doubtful EXCEPT ![m] = FALSE] /\ skip' = skip
  BY Zenon DEF Open
<1>2. w.marked = {} /\ w.timer = NoTimer
  BY DEF Closed
<1>3. \A s \in W : ~s.live
  <2> SUFFICES ASSUME NEW t \in saves[m] PROVE ~[t EXCEPT !.live = FALSE].live
    OBVIOUS
  <2> QED BY WindowRead DEF MInv, Saving
<1> HIDE DEF w, W
<1>4. modal'[m] = w /\ saves'[m] = W
  BY <1>1, Becomes DEF MInv
<1>5. Marks(m)'
  BY <1>2, <1>3, <1>4 DEF Marks, TimerSaves, LiveRun, Kept
<1> QED BY <1>1, <1>5, OthersKept

LEMMA ToggleKeeps ==
  ASSUME MInv, NEW m \in Modals, NEW i \in Items, Toggle(m, i)
  PROVE  \A n \in Modals : Marks(n)'
<1> DEFINE next == IF i \in modal[m].marked THEN modal[m].marked \ {i} ELSE modal[m].marked \cup {i}
           t == [set |-> next, sha |-> modal[m].sha]
           w == [modal[m] EXCEPT !.marked = next, !.timer = t]
<1>1. /\ modal' = [modal EXCEPT ![m] = w] /\ saves' = [saves EXCEPT ![m] = saves[m]]
      /\ doubtful' = [doubtful EXCEPT ![m] = doubtful[m]] /\ skip' = skip
  BY WindowRead DEF Toggle, MInv, Window
<1>2. w.open /\ w.marked = next /\ w.timer = t /\ t.set = next /\ w.shows = modal[m].shows /\ t # NoTimer
  <2>1. modal[m] \in Window /\ modal[m].open
    BY WindowRead DEF MInv, Toggle
  <2>2. next \in Set
    BY <2>1 DEF Window, Set
  <2> HIDE DEF next
  <2>3. t # NoTimer
    BY <2>2, NoFileAssumption DEF NoTimer, Set
  <2> HIDE DEF t
  <2> QED BY <2>1, <2>3 DEF Window, t
<1> HIDE DEF w, t, next
<1>3. modal'[m] = w /\ saves'[m] = saves[m]
  BY <1>1, Becomes DEF MInv
<1>4. Marks(m)'
  BY <1>2, <1>3 DEF MInv, Marks, TimerSaves, LiveRun, Kept
<1> QED BY <1>1, <1>4, OthersKept

LEMMA SaveSkipFileKeeps ==
  ASSUME MInv, NEW m \in Modals, SaveSkipFile(m)
  PROVE  \A n \in Modals : Marks(n)'
<1> DEFINE t == modal[m].timer
           w == [modal[m] EXCEPT !.timer = NoTimer]
           s == [want |-> t.set, sha |-> t.sha, run |-> modal[m].shows, step |-> "send", live |-> TRUE]
           W == IF t.set = {} /\ t.sha = NoFile THEN saves[m] ELSE saves[m] \cup {s}
           d == doubtful[m] \/ \E x \in saves[m] : x.step = "send"
<1>1. /\ modal' = [modal EXCEPT ![m] = w] /\ saves' = [saves EXCEPT ![m] = W]
      /\ doubtful' = [doubtful EXCEPT ![m] = d] /\ skip' = skip
  BY WindowRead DEF SaveSkipFile, MInv
<1>2. w.open /\ w.timer = NoTimer /\ w.marked = modal[m].marked /\ w.shows = modal[m].shows
      /\ t.set = modal[m].marked
  BY WindowRead DEF SaveSkipFile, MInv, Window, Marks, TimerSaves
<1>3. s.want = modal[m].marked /\ s.run = modal[m].shows /\ s.step = "send" /\ s.live
  BY <1>2
<1>4. W = saves[m] \cup {s} \/ (W = saves[m] /\ modal[m].marked = {})
  BY <1>2
<1>5. ~d => Sends(m) = {}
  BY DEF Sends
<1> HIDE DEF w, W, s, d
<1>6. modal'[m] = w /\ saves'[m] = W /\ doubtful'[m] = d
  BY <1>1, Becomes DEF MInv
<1>7. TimerSaves(m)'
  BY <1>2, <1>6 DEF TimerSaves
<1>8. LiveRun(m)'
  BY <1>2, <1>3, <1>4, <1>6 DEF LiveRun, MInv, Marks
<1>9. Kept(m)'
  <2>1. CASE modal[m].marked = {}
    BY <1>2, <1>6, <2>1 DEF Kept
  <2>2. CASE W = saves[m] \cup {s}
    <3>1. ~d => Carried(m)'
      BY <1>2, <1>3, <1>5, <1>6, <2>2 DEF Carried, Sends, Alone
    <3> QED BY <1>6, <3>1 DEF Kept
  <2> QED BY <1>4, <2>1, <2>2
<1> QED BY <1>1, <1>7, <1>8, <1>9, OthersKept DEF Marks

\* The timer is dropped, by a redrawing or by closing the window.
LEMMA DropKeeps ==
  ASSUME MInv, NEW m \in Modals, DropTimer(m) \/ Close(m)
  PROVE  \A n \in Modals : Marks(n)'
<1> PICK o \in BOOLEAN, d \in BOOLEAN :
      /\ modal' = [modal EXCEPT ![m] = [modal[m] EXCEPT !.open = o, !.timer = NoTimer]]
      /\ doubtful' = [doubtful EXCEPT ![m] = d] /\ (o => d)
  <2>1. CASE DropTimer(m)
    <3>1. modal[m].open /\ modal[m] \in Window
      BY <2>1, WindowRead DEF DropTimer, MInv
    <3>2. [modal[m] EXCEPT !.timer = NoTimer] = [modal[m] EXCEPT !.open = TRUE, !.timer = NoTimer]
      BY <3>1 DEF Window
    <3>3. /\ modal' = [modal EXCEPT ![m] = [modal[m] EXCEPT !.timer = NoTimer]]
          /\ doubtful' = [doubtful EXCEPT ![m] = TRUE]
      BY <2>1, Zenon DEF DropTimer
    <3> QED BY <3>2, <3>3
  <2>2. CASE Close(m)
    <3>1. modal' = [modal EXCEPT ![m] = [modal[m] EXCEPT !.open = FALSE, !.timer = NoTimer]]
      BY <2>2, WindowRead DEF Close, MInv, Window
    <3>2. (doubtful[m] \/ modal[m].timer # NoTimer) \in BOOLEAN /\ FALSE \in BOOLEAN
      OBVIOUS
    <3>3. doubtful' = [doubtful EXCEPT ![m] = doubtful[m] \/ modal[m].timer # NoTimer]
      BY <2>2, Zenon DEF Close
    <3> QED BY <3>1, <3>2, <3>3
  <2> QED BY <2>1, <2>2
<1> DEFINE w == [modal[m] EXCEPT !.open = o, !.timer = NoTimer]
<1>1. saves' = [saves EXCEPT ![m] = saves[m]] /\ skip' = skip
  BY WindowRead DEF DropTimer, Close, MInv
<1>2. w.open = o /\ w.timer = NoTimer /\ w.shows = modal[m].shows
  BY WindowRead DEF MInv, Window
<1>3. modal' = [modal EXCEPT ![m] = w]
  OBVIOUS
<1> HIDE DEF w
<1>4. modal'[m] = w /\ saves'[m] = saves[m] /\ doubtful'[m] = d
  BY <1>1, <1>3, Becomes DEF MInv
<1>5. Marks(m)'
  BY <1>2, <1>4 DEF MInv, Marks, TimerSaves, LiveRun, Kept
<1> QED BY <1>1, <1>3, <1>5, OthersKept

LEMMA RereadKeeps ==
  ASSUME MInv, NEW m \in Modals, NEW s \in saves[m], SaveRereads(m, s)
  PROVE  \A n \in Modals : Marks(n)'
<1> PICK v : modal' = [modal EXCEPT ![m] = [modal[m] EXCEPT !.sha = v]]
  <2>1. modal = [modal EXCEPT ![m] = [modal[m] EXCEPT !.sha = modal[m].sha]]
    BY WindowRead DEF MInv, Window
  <2>2. modal' = modal \/ modal' = [modal EXCEPT ![m].sha = skip[s.run]]
    BY DEF SaveRereads
  <2> QED BY <2>1, <2>2, WindowRead DEF MInv
<1> DEFINE w == [modal[m] EXCEPT !.sha = v]
           W == saves[m] \ {s}
<1>1. /\ modal' = [modal EXCEPT ![m] = w] /\ saves' = [saves EXCEPT ![m] = W]
      /\ doubtful' = [doubtful EXCEPT ![m] = doubtful[m]] /\ skip' = skip
  BY WindowRead DEF SaveRereads, MInv
<1>2. w.open = modal[m].open /\ w.timer = modal[m].timer /\ w.shows = modal[m].shows /\ w.marked = modal[m].marked
  BY WindowRead DEF MInv, Window
<1> HIDE DEF w
<1>3. modal'[m] = w /\ saves'[m] = W /\ doubtful'[m] = doubtful[m]
  BY <1>1, Becomes DEF MInv
<1>4. Marks(m)
  BY DEF MInv
<1>5. Sends(m)' = Sends(m)
  BY <1>3 DEF Sends, SaveRereads
<1>6. Carried(m) => Carried(m)'
  BY <1>2, <1>3, <1>5 DEF Carried, Alone
<1>7. Stored(m) => Stored(m)'
  BY <1>1, <1>2, <1>3, <1>5 DEF Stored, Patterns
<1>8. Marks(m)'
  BY <1>2, <1>3, <1>4, <1>6, <1>7 DEF Marks, TimerSaves, LiveRun, Kept
<1> QED BY <1>1, <1>8, OthersKept

\* A write that lands, is refused or is lost.
LEMMA SaveLandsKeeps ==
  ASSUME MInv, NEW m \in Modals, NEW s \in saves[m], SaveLands(m, s)
  PROVE  \A n \in Modals : Marks(n)'
<1> PICK done \in BOOLEAN, answered \in BOOLEAN :
      /\ s.step = "send"
      /\ skip' = IF done THEN [skip EXCEPT ![s.run] = IF s.want = {} THEN NoFile ELSE s.want] ELSE skip
      /\ saves' = [saves EXCEPT ![m] = (saves[m] \ {s}) \cup
           IF done /\ answered /\ s.want # {} THEN {[s EXCEPT !.step = "reread"]} ELSE {}]
      /\ modal' = IF answered /\ s.live /\ s.want = {} THEN [modal EXCEPT ![m].sha = NoFile] ELSE modal
      /\ doubtful' = [n \in Modals |->
           IF n # m THEN doubtful[n] \/ (done /\ modal[n].shows = s.run)
           ELSE IF done THEN doubtful[m] /\ ~(IsLast(m, s) /\ Alone(m, s))
           ELSE doubtful[m] \/ IsLast(m, s)]
  BY Zenon DEF SaveLands
<1> DEFINE S == IF s.want = {} THEN NoFile ELSE s.want
           again == IF done /\ answered /\ s.want # {} THEN {[s EXCEPT !.step = "reread"]} ELSE {}
           W == (saves[m] \ {s}) \cup again
<1>1. /\ \A n \in Modals : modal[n] \in Window /\ saves[n] \in SUBSET Saving /\ Marks(n)
      /\ s \in Saving /\ s.run \in Runs /\ skip \in [Runs -> File]
  BY WindowRead DEF MInv, Saving
<1>2. PICK v : modal' = [modal EXCEPT ![m] = [modal[m] EXCEPT !.sha = v]]
  <2>1. modal = [modal EXCEPT ![m] = [modal[m] EXCEPT !.sha = modal[m].sha]]
    BY WindowRead DEF MInv, Window
  <2> QED BY <2>1, WindowRead DEF MInv
<1> DEFINE w == [modal[m] EXCEPT !.sha = v]
<1>3. w.open = modal[m].open /\ w.timer = modal[m].timer /\ w.shows = modal[m].shows /\ w.marked = modal[m].marked
  BY <1>1 DEF Window
<1>4. \A n \in Modals \ {m} : modal'[n] = modal[n] /\ saves'[n] = saves[n]
  BY <1>2 DEF MInv, TInv, TypeOK
<1>5. modal'[m] = w /\ saves'[m] = W
  BY <1>2 DEF MInv, TInv, TypeOK
<1>6. \A t \in again : t.step = "reread" /\ t.run = s.run /\ t.live = s.live
  BY <1>1 DEF Saving
<1>7. Patterns(S) = s.want
  BY <1>1, NoFileAssumption DEF Patterns, Saving, Set
<1>8. ASSUME NEW n \in Modals, n # m PROVE Marks(n)'
  <2>1. doubtful'[n] = (doubtful[n] \/ (done /\ modal[n].shows = s.run)) /\ doubtful[n] \in BOOLEAN
    BY <1>8 DEF MInv, TInv, TypeOK
  <2>2. ~(done /\ modal[n].shows = s.run) => skip'[modal[n].shows] = skip[modal[n].shows]
    BY <1>1
  <2>3. modal'[n] = modal[n] /\ saves'[n] = saves[n] /\ Marks(n)
    BY <1>1, <1>4, <1>8
  <2> QED BY <2>1, <2>2, <2>3, Undisturbed
<1> HIDE DEF w, S, again
<1>9. TimerSaves(m)' /\ LiveRun(m)'
  BY <1>1, <1>3, <1>5, <1>6 DEF Marks, TimerSaves, LiveRun
<1>10. Sends(m)' = Sends(m) \ {s}
  BY <1>5, <1>6 DEF Sends
<1>11. Kept(m)'
  <2> SUFFICES ASSUME modal[m].open, ~doubtful'[m], modal[m].marked # {}, modal[m].timer = NoTimer
               PROVE  Carried(m)' \/ Stored(m)'
    BY <1>3, <1>5 DEF Kept
  <2>1. s \in Sends(m)
    BY DEF Sends
  <2>2. CASE done /\ IsLast(m, s) /\ Alone(m, s)
    <3>1. Sends(m)' = {}
      BY <1>10, <2>2 DEF Alone, Sends
    <3>2. s.want = modal[m].marked /\ s.run = modal[m].shows
      BY <1>1, <2>2 DEF IsLast, Marks, LiveRun
    <3>3. skip'[s.run] = S
      BY <1>1, <2>2 DEF S
    <3> QED BY <1>3, <1>5, <1>7, <3>1, <3>2, <3>3 DEF Stored
  <2>3. CASE ~(done /\ IsLast(m, s) /\ Alone(m, s))
    <3>1. ~doubtful[m] /\ (done \/ ~IsLast(m, s))
      BY <2>3
    <3>2. PICK t \in Sends(m) : t.live /\ t.want = modal[m].marked /\ Alone(m, t)
      BY <1>1, <2>1, <3>1 DEF Marks, Kept, Carried, Stored
    <3>3. t = s
      BY <2>1, <3>2 DEF Alone, Sends
    <3> QED BY <2>3, <3>1, <3>2, <3>3 DEF IsLast
  <2> QED BY <2>2, <2>3
<1> QED BY <1>8, <1>9, <1>11 DEF Marks

LEMMA MarksInit == Init => MInv
<1> SUFFICES ASSUME Init PROVE MInv
  OBVIOUS
<1>1. \A m \in Modals : ~modal[m].open /\ modal[m].timer = NoTimer /\ saves[m] = {}
  BY DEF Init, Closed
<1> QED BY <1>1, TypeInit DEF MInv, Marks, TimerSaves, LiveRun, Kept

LEMMA MarksStep == MInv /\ [Next]_vars => MInv'
<1> SUFFICES ASSUME MInv, [Next]_vars PROVE MInv'
  OBVIOUS
<1>1. TInv'
  BY TypeStep DEF MInv
<1>2. CASE UNCHANGED skipping
  <2>1. ASSUME NEW n \in Modals PROVE Marks(n)'
    BY <1>2, Undisturbed DEF MInv, skipping
  <2> QED BY <1>1, <2>1 DEF MInv
<1>3. CASE RunStep
  <2>1. UNCHANGED skipping
    BY <1>3, Zenon DEF RunStep, Start, ClearStalePlans, PublishPlan, TryStep, Approve, RunStops, CleanUp,
                       Apply, BaselineChanges, EditIgnore, RemoveScope
  <2> QED BY <1>2, <2>1
<1>4. CASE SkipStep
  <2> PICK m \in Modals :
         \/ Open(m) \/ SaveSkipFile(m) \/ DropTimer(m) \/ Close(m)
         \/ \E i \in Items : Toggle(m, i)
         \/ \E s \in saves[m] : SaveLands(m, s) \/ SaveRereads(m, s)
    BY <1>4 DEF SkipStep
  <2>1. \A n \in Modals : Marks(n)'
    BY OpenKeeps, SaveSkipFileKeeps, DropKeeps, ToggleKeeps, SaveLandsKeeps, RereadKeeps
  <2> QED BY <1>1, <2>1 DEF MInv
<1>5. CASE UNCHANGED vars
  BY <1>2, <1>5 DEF vars
<1> QED BY <1>3, <1>4, <1>5 DEF Next

\* Only an apply job takes a run from "apply" to "cleanup".
LEMMA OnlyApply ==
  ASSUME TInv, [Next]_vars, stage = "apply", stage' = "cleanup"
  PROVE  \E done \in Set : Apply(done)
<1>1. ~Start /\ ~ClearStalePlans /\ ~PublishPlan /\ ~Approve /\ ~RunStops /\ ~CleanUp
  BY DEF Start, ClearStalePlans, PublishPlan, Approve, RunStops, CleanUp, TryStep
<1>2. ~(\E i \in Items : BaselineChanges(i) \/ EditIgnore(i)) /\ ~(\E r \in Runs : RemoveScope(r))
  BY DEF BaselineChanges, EditIgnore, RemoveScope
<1>3. ~SkipStep /\ ~UNCHANGED vars
  BY DEF SkipStep, Open, SaveSkipFile, DropTimer, Close, Toggle, SaveLands, SaveRereads, vars, pipeline
<1> QED BY <1>1, <1>2, <1>3 DEF Next, RunStep

\* The marks that an open window has written are left out of the run, but for files that
\* their patterns do not match, for any baseline, any windows and number of writes.
THEOREM WrittenMarksAreKept == Spec => WrittenMarksHold
<1> DEFINE Written(m) ==
      /\ stage = "apply" /\ stage' = "cleanup"
      /\ modal[m].open /\ modal[m].shows = run
      /\ modal[m].timer = NoTimer /\ saves[m] = {} /\ ~doubtful[m]
    A == \A m \in Modals : Written(m) => applied' \cap modal[m].marked \subseteq Unmatched
<1>1. MInv /\ [Next]_vars => A
  <2> SUFFICES ASSUME MInv, [Next]_vars, NEW m \in Modals, Written(m)
               PROVE  applied' \cap modal[m].marked \subseteq Unmatched
    OBVIOUS
  <2>1. modal[m].marked \subseteq Patterns(skip[run])
    BY DEF MInv, Marks, Kept, Carried, Stored, Sends
  <2>2. PICK done \in Set : Apply(done)
    BY OnlyApply DEF MInv
  <2>3. applied' = done /\ done \cap Skipped = {}
    BY <2>2 DEF Apply, Selected
  <2> QED BY <2>1, <2>3 DEF Skipped
<1>2. WrittenMarksHold <=> [][A]_vars
  BY DEF WrittenMarksHold
<1> HIDE DEF A
<1> QED BY MarksInit, MarksStep, <1>1, <1>2, PTL DEF Spec
=============================================================================
