------------------------ MODULE WorkflowEngineProofs ------------------------
(***************************************************************************)
(* What every step of the main phase of a workflow run preserves, proved   *)
(* for every graph, cap and number of answers: the part of WorkflowRun's   *)
(* inductive invariant that is about the engine.                           *)
(*                                                                         *)
(* It follows the life of a step: Shape says where the batch, the slots    *)
(* and the failures are empty, Apart that a step is in one of those places *)
(* only, SlotsOwned what the containers and their exits are, Counted and   *)
(* DepsHeld what the statuses say of it.  WorkflowRunProofs adds the       *)
(* phases around the main one and states the theorems.                     *)
(***************************************************************************)
EXTENDS WorkflowRun, WorkflowDagProofs

Codes == {"ok", "fail", "auth", "error"}
Containers == [step : Steps, id : Nat]

\* Where the engine has the steps it is busy with.
Launching == ToSet(toLaunch)
Queued == ToSet(queue)
FailedOnes == ToSet(failed)
Slotted == {c.step : c \in active}
Batch == group \cup Launching \cup Slotted

With(v) == {s \in Steps : status[s] = v}

\* Nothing is launched, queued or runs.
NoBatch ==
  /\ active = {} /\ live = {} /\ exits = {}
  /\ group = {} /\ queue = <<>> /\ toLaunch = <<>>

\* What each place of the engine finds.
Shape ==
  /\ ~ Running => /\ NoBatch /\ failed = <<>> /\ retried = {} /\ authUsed = {}
                  /\ launches = [s \in Steps |-> 0]
  /\ pc \in {"loop", "between", "failures", "retry"} => NoBatch
  /\ InStep => /\ group = {} /\ queue = <<>> /\ toLaunch = <<>>
               /\ active = {Container(current)}
  /\ InStep \/ pc = "between" => current \in Steps
  /\ InStep \/ pc \in {"loop", "between"} => failed = <<>>
  /\ pc = "launch" => toLaunch # <<>>
  /\ pc = "launch" /\ group = {} =>
       Len(toLaunch) = 1 /\ queue = <<>> /\ active = {} /\ failed = <<>>
  /\ pc = "group" => toLaunch = <<>> /\ group # {}
  /\ pc \in {"failures", "retry"} => failed # <<>>
  /\ group # {} => Slotted \cup Launching \cup Queued \cup FailedOnes \subseteq group

\* A step waits, is launched, runs, or has failed: one of them, and once.
Apart ==
  /\ Distinct(toLaunch) /\ Distinct(queue) /\ Distinct(failed)
  /\ Launching \cap Slotted = {} /\ Launching \cap Queued = {}
  /\ Launching \cap FailedOnes = {} /\ Slotted \cap Queued = {}
  /\ Slotted \cap FailedOnes = {} /\ Queued \cap FailedOnes = {}

\* A slot is for the newest container of its step, which runs or has exited.
SlotsOwned ==
  /\ \A c \in active : c.id = launches[c.step]
  /\ live \subseteq active
  /\ \A x \in exits : Slot(x) \notin live /\ x.id <= launches[x.step]
  /\ IsFiniteSet(active) /\ Cardinality(active) + Len(toLaunch) <= run.cap

\* A step runs in a slot, and one that failed waits for a decision or runs
\* again.
StatusPlaced ==
  Running => /\ With("running") \ Launching = Slotted
             /\ With("failed") \subseteq FailedOnes \cup Launching

\* The batch runs over finished steps outside it.
DepsHeld == \A s \in Batch : DepsOf(run.dag, s) \subseteq Completed(status) \ Batch

\* With nobody at a board: what waits is pending, and each launch but the
\* first used up one of the two reasons to launch again.
Tallied(s) ==
  /\ launches[s] <= 3 /\ (status[s] = "pending" => launches[s] <= 2)
  /\ s \notin authUsed \/ s \notin retried =>
       launches[s] <= 2 /\ (status[s] = "pending" => launches[s] <= 1)
  /\ s \notin authUsed /\ s \notin retried =>
       launches[s] <= 1 /\ (status[s] = "pending" => launches[s] = 0)

Counted ==
  ~ Attended =>
    /\ Running => /\ With("cancelled") = {}
                  /\ FailedOnes \subseteq With("failed")
                  /\ Launching \cup Queued \subseteq With("pending")
    /\ \A s \in Steps : Tallied(s)
    /\ pc = "retry" => Head(failed) \notin retried

\* The phase before the main one.
Beginning == pc \in {"setup", "setupRun", "gate", "gateFailed"}

\* An outcome is what the steps say, from the step that decides it.
Honest ==
  /\ outcome \in {"completed", "teardown_failed"} =>
       \A s \in Steps : status[s] \in IF Attended THEN Done \cup {"cancelled"} ELSE Done
  /\ outcome = "failed" =>
       /\ \E s \in Steps : status[s] = "failed"
       /\ \A s \in Steps : status[s] \in Done \cup {"failed", "cancelled"}
  /\ outcome \in {"cancelled", "aborted"} =>
       \A s \in Steps : status[s] \in Done \cup {"cancelled"}
  /\ Running \/ Beginning \/ pc = "down" => outcome = "none"

\* The types of the engine's variables.
EngineType ==
  /\ run \in Runs /\ status \in [Steps -> Status] /\ launches \in [Steps -> Nat]
  /\ active \subseteq Containers /\ live \subseteq Containers
  /\ \A x \in exits : Slot(x) \in Containers /\ x.code \in Codes
  /\ group \subseteq Steps
  /\ queue \in Seq(Steps) /\ toLaunch \in Seq(Steps) /\ failed \in Seq(Steps)
  /\ current \in Steps \cup {""} /\ authUsed \subseteq Steps /\ retried \subseteq Steps

EngineSafe ==
  /\ Shape /\ Apart /\ SlotsOwned /\ StatusPlaced /\ DepsHeld /\ Counted
  /\ DependenciesFirst

----------------------------------------------------------------------------
(* The engine at rest *)

LEMMA RunFacts ==
  ASSUME run \in Runs
  PROVE  /\ run.cap \in Nat \ {0} /\ run.board \in Nat /\ run.times \in Nat \ {0}
         /\ WellFormed(run.dag)
  BY EngineAssumption

\* The places of the engine in the next state.
LEMMA Primed ==
  /\ Launching' = ToSet(toLaunch') /\ Queued' = ToSet(queue')
  /\ FailedOnes' = ToSet(failed') /\ Slotted' = {c.step : c \in active'}
  /\ Distinct(toLaunch)' <=> Distinct(toLaunch')
  /\ Distinct(queue)' <=> Distinct(queue')
  /\ Distinct(failed)' <=> Distinct(failed')
<1>1. Launching' = ToSet(toLaunch') /\ Queued' = ToSet(queue') /\ FailedOnes' = ToSet(failed')
  BY DEF Launching, Queued, FailedOnes, ToSet
<1>2. /\ Distinct(toLaunch)' <=> Distinct(toLaunch')
      /\ Distinct(queue)' <=> Distinct(queue')
      /\ Distinct(failed)' <=> Distinct(failed')
  BY DEF Distinct
<1>3. Slotted' = {c.step : c \in active'}
  BY DEF Slotted
<1> QED
  BY <1>1, <1>2, <1>3

\* With nothing in the batch the invariants about it say nothing.
LEMMA Empties ==
  ASSUME run \in Runs, run' = run, NoBatch', Distinct(failed')
  PROVE  /\ Apart' /\ SlotsOwned' /\ DepsHeld'
         /\ Launching' = {} /\ Queued' = {} /\ Slotted' = {}
<1>1. Launching' = {} /\ Queued' = {} /\ Slotted' = {} /\ Batch' = {}
  <2>1. toLaunch' = <<>> /\ queue' = <<>> /\ active' = {} /\ group' = {}
    BY DEF NoBatch
  <2>2. Launching' = {}
    BY <2>1, EmptyFacts, Primed
  <2>3. Queued' = {}
    BY <2>1, EmptyFacts, Primed
  <2>4. Slotted' = {}
    BY <2>1 DEF Slotted
  <2> QED
    BY <2>1, <2>2, <2>3, <2>4 DEF Batch
<1>2. Distinct(toLaunch)' /\ Distinct(queue)' /\ Distinct(failed)'
  BY EmptyFacts, Primed DEF NoBatch
<1>3. Apart'
  BY <1>1, <1>2 DEF Apart
<1>4. IsFiniteSet({}) /\ Cardinality({}) = 0
  BY FS_EmptySet
<1>5. active' = {} /\ live' = {} /\ exits' = {} /\ Len(toLaunch') = 0
  BY EmptyFacts DEF NoBatch
<1>6. SlotsOwned'
  BY <1>4, <1>5, RunFacts DEF SlotsOwned
<1>7. DepsHeld'
  BY <1>1 DEF DepsHeld
<1> QED
  BY <1>1, <1>3, <1>6, <1>7

LEMMA NoLaunches ==
  ASSUME NEW s, launches'[s] = 0
  PROVE  Tallied(s)'
  BY DEF Tallied

\* Outside the main phase: nothing of it is left.
LEMMA Ends ==
  ASSUME EngineType, run' = run, ~ Running', NoBatch',
         failed' = <<>>, retried' = {}, authUsed' = {},
         launches' = [s \in Steps |-> 0], current' \in Steps \cup {""},
         status' \in [Steps -> Status], DependenciesFirst'
  PROVE  EngineType' /\ EngineSafe'
<1>1. Steps' = Steps /\ Attended' = Attended /\ run \in Runs /\ Containers' = Containers
  BY DEF Steps, Attended, EngineType, Containers
<1>2. Distinct(failed')
  BY EmptyFacts
<1>3. Apart' /\ SlotsOwned' /\ DepsHeld'
  BY <1>1, <1>2, Empties
<1>4. EngineType'
  <2>1. /\ active' \subseteq Containers' /\ live' \subseteq Containers' /\ group' \subseteq Steps'
        /\ \A x \in exits' : Slot(x) \in Containers' /\ x.code \in Codes
    BY DEF NoBatch
  <2>2. <<>> \in Seq(Steps)
    BY EmptyIn
  <2>3. queue' \in Seq(Steps') /\ toLaunch' \in Seq(Steps') /\ failed' \in Seq(Steps')
    BY <1>1, <2>2 DEF NoBatch
  <2>4. launches' \in [Steps' -> Nat]
    BY <1>1
  <2> QED
    BY <1>1, <2>1, <2>3, <2>4 DEF EngineType
<1>5. Shape'
  BY <1>1, EmptyFacts DEF Shape, Running, InStep, NoBatch
<1>6. StatusPlaced'
  BY DEF StatusPlaced
<1>7. Counted'
  <2>1. \A s \in Steps : launches'[s] = 0
    OBVIOUS
  <2>2. ASSUME NEW s \in Steps' PROVE Tallied(s)'
    <3>1. launches'[s] = 0
      BY <1>1, <2>1
    <3> QED
      BY <3>1, NoLaunches
  <2>3. pc' # "retry"
    BY DEF Running
  <2> QED
    BY <2>2, <2>3 DEF Counted, Running
<1> QED
  BY <1>3, <1>4, <1>5, <1>6, <1>7 DEF EngineSafe

\* In the main phase, between two batches.
LEMMA Rests ==
  ASSUME EngineType, run' = run, NoBatch',
         pc' \in {"loop", "between", "failures", "retry"},
         failed' \in Seq(Steps), Distinct(failed'),
         pc' \in {"loop", "between"} => failed' = <<>>,
         pc' \in {"failures", "retry"} => failed' # <<>>,
         launches' = launches, authUsed' \subseteq Steps, retried' \subseteq Steps,
         current' \in Steps \cup {""}, pc' = "between" => current' \in Steps,
         status' \in [Steps -> Status],
         \A s \in Steps : status'[s] # "running",
         \A s \in Steps : status'[s] = "failed" => s \in ToSet(failed'),
         Counted'
  PROVE  EngineType' /\ EngineSafe'
<1>1. Steps' = Steps /\ Attended' = Attended /\ run \in Runs /\ Containers' = Containers
  BY DEF Steps, Attended, EngineType, Containers
<1>2. /\ Apart' /\ SlotsOwned' /\ DepsHeld'
      /\ Launching' = {} /\ Queued' = {} /\ Slotted' = {}
  BY <1>1, Empties
<1>3. EngineType'
  <2>1. /\ active' \subseteq Containers' /\ live' \subseteq Containers' /\ group' \subseteq Steps'
        /\ \A x \in exits' : Slot(x) \in Containers' /\ x.code \in Codes
    BY DEF NoBatch
  <2>2. <<>> \in Seq(Steps)
    BY EmptyIn
  <2>3. queue' \in Seq(Steps') /\ toLaunch' \in Seq(Steps')
    BY <1>1, <2>2 DEF NoBatch
  <2> QED
    BY <1>1, <2>1, <2>3 DEF EngineType
<1>4. Running' /\ pc' # "launch" /\ pc' # "group" /\ ~ InStep'
  BY DEF Running, InStep
<1>5. Shape'
  BY <1>1, <1>4 DEF Shape, NoBatch
<1>6. StatusPlaced'
  BY <1>1, <1>2 DEF StatusPlaced, With, FailedOnes
<1>7. DependenciesFirst'
  BY <1>1 DEF DependenciesFirst
<1> QED
  BY <1>2, <1>3, <1>5, <1>6, <1>7 DEF EngineSafe

----------------------------------------------------------------------------
(* The ways the main phase ends *)

LEMMA SetAllFacts ==
  ASSUME NEW st \in [Steps -> Status], NEW X, NEW v \in Status
  PROVE  /\ SetAll(st, X, v) \in [Steps -> Status]
         /\ \A s \in Steps : SetAll(st, X, v)[s] = IF s \in X THEN v ELSE st[s]
  BY DEF SetAll

LEMMA StatusNames ==
  /\ Status = {"pending", "running", "succeeded", "failed", "cancelled", "skipped"}
  /\ Done = {"succeeded", "skipped"}
  /\ Terminal = {"succeeded", "skipped", "failed", "cancelled"}
  BY DEF Status, Done, Terminal

\* What a cancel leaves of the steps.
LEMMA Cancelled ==
  ASSUME EngineType, CancelUnfinished
  PROVE  /\ status' \in [Steps -> Status]
         /\ \A s \in Steps : status'[s] \in Done \cup {"cancelled"}
<1>1. status \in [Steps -> Status] /\ "cancelled" \in Status
  BY StatusNames DEF EngineType
<1>2. /\ status' \in [Steps -> Status]
      /\ \A s \in Steps : status'[s] = IF s \in Unfinished THEN "cancelled" ELSE status[s]
  BY <1>1, SetAllFacts DEF CancelUnfinished
<1> QED
  BY <1>1, <1>2 DEF Unfinished

\* A step that runs in the main phase is one of the batch, over finished steps
\* outside it.
LEMMA RunningSteps ==
  ASSUME EngineType, EngineSafe, Running, NEW s \in Steps, status[s] = "running"
  PROVE  /\ s \in Batch /\ s \in Slotted \cup Launching
         /\ DepsOf(run.dag, s) \subseteq Completed(status) \ Batch
<1>1. s \in Slotted \cup Launching
  BY DEF EngineSafe, StatusPlaced, With
<1> QED
  BY <1>1 DEF EngineSafe, DepsHeld, Batch

\* Steps over finished ones stay so when what is finished stays so.
LEMMA DepsFirst ==
  ASSUME run' = run,
         \A s \in Steps : status'[s] = "running" =>
           DepsOf(run.dag, s) \subseteq Completed(status')
  PROVE  DependenciesFirst'
<1>1. Completed(status)' = Completed(status')
  BY DEF Completed
<1>2. \A s : DepsOf(run.dag, s)' = DepsOf(run.dag, s)
  BY DEF DepsOf, ToSet
<1>3. Steps' = Steps
  BY DEF Steps
<1> QED
  BY <1>1, <1>2, <1>3 DEF DependenciesFirst

LEMMA EndsIn ==
  ASSUME EngineType, run' = run, NEW o, End(o),
         status' \in [Steps -> Status], DependenciesFirst',
         o \in {"completed", "teardown_failed"} =>
           \A s \in Steps : status'[s] \in IF Attended THEN Done \cup {"cancelled"} ELSE Done,
         o = "failed" =>
           /\ \E s \in Steps : status'[s] = "failed"
           /\ \A s \in Steps : status'[s] \in Done \cup {"failed", "cancelled"},
         o \in {"cancelled", "aborted"} =>
           \A s \in Steps : status'[s] \in Done \cup {"cancelled"}
  PROVE  EngineType' /\ EngineSafe' /\ Honest'
<1>1. /\ pc' = "ended" /\ outcome' = o /\ NoBatch' /\ failed' = <<>>
      /\ retried' = {} /\ authUsed' = {} /\ launches' = [s \in Steps |-> 0]
      /\ current' = ""
  BY DEF End, Clear, NoBatch
<1>2. ~ Running'
  BY <1>1 DEF Running
<1>3. EngineType' /\ EngineSafe'
  BY <1>1, <1>2, Ends
<1>4. Steps' = Steps /\ Attended' = Attended
  BY DEF Steps, Attended
<1>5. Honest'
  BY <1>1, <1>2, <1>4 DEF Honest, Beginning
<1> QED
  BY <1>3, <1>5

LEMMA NoneRuns ==
  ASSUME run' = run, \A s \in Steps : status'[s] # "running"
  PROVE  DependenciesFirst'
  BY DepsFirst

LEMMA CancelRunSafe ==
  ASSUME EngineType, run' = run, CancelRun
  PROVE  EngineType' /\ EngineSafe' /\ Honest'
<1>1. /\ status' \in [Steps -> Status]
      /\ \A s \in Steps : status'[s] \in Done \cup {"cancelled"}
  BY Cancelled DEF CancelRun
<1>2. DependenciesFirst'
  BY <1>1, NoneRuns, StatusNames
<1> QED
  BY <1>1, <1>2, EndsIn DEF CancelRun

LEMMA AbortSafe ==
  ASSUME EngineType, run' = run, NEW flag, Abort(flag)
  PROVE  EngineType' /\ EngineSafe' /\ Honest'
<1>1. /\ status' \in [Steps -> Status]
      /\ \A s \in Steps : status'[s] \in Done \cup {"cancelled"}
  BY Cancelled DEF Abort
<1>2. DependenciesFirst'
  BY <1>1, NoneRuns, StatusNames
<1> QED
  BY <1>1, <1>2, EndsIn DEF Abort

LEMMA FailSafe ==
  ASSUME EngineType, EngineSafe, run' = run, Fail
  PROVE  EngineType' /\ EngineSafe' /\ Honest'
<1>1. status' = status /\ status \in [Steps -> Status] /\ End("error")
  BY DEF Fail, EngineType
<1>2. DependenciesFirst'
  BY <1>1, DepsFirst DEF EngineSafe, DependenciesFirst
<1> QED
  BY <1>1, <1>2, EndsIn

LEMMA FinishWorkflowSafe ==
  ASSUME EngineType, run' = run, FinishWorkflow
  PROVE  EngineType' /\ EngineSafe' /\ Honest'
<1>1. status \in [Steps -> Status] /\ "skipped" \in Status
  BY StatusNames DEF EngineType
<1>2. /\ status' \in [Steps -> Status]
      /\ \A s \in Steps : status'[s] = IF s \in Unfinished THEN "skipped" ELSE status[s]
  BY <1>1, SetAllFacts DEF FinishWorkflow
<1>3. \A s \in Steps : status'[s] \in Done
  BY <1>2, StatusNames DEF Unfinished
<1>4. DependenciesFirst'
  BY <1>3, NoneRuns, StatusNames
<1> QED
  BY <1>2, <1>3, <1>4, EndsIn DEF FinishWorkflow

\* A pause of everything that runs.
LEMMA PauseSafe ==
  ASSUME EngineType, run' = run, NEW X, Pause(X),
         \A s \in Steps : status[s] = "running" => s \in X
  PROVE  EngineType' /\ EngineSafe' /\ Honest'
<1>1. status \in [Steps -> Status] /\ "pending" \in Status
  BY StatusNames DEF EngineType
<1>2. /\ status' \in [Steps -> Status]
      /\ \A s \in Steps : status'[s] = IF s \in X THEN "pending" ELSE status[s]
  BY <1>1, SetAllFacts DEF Pause
<1>3. DependenciesFirst'
  BY <1>2, NoneRuns
<1> QED
  BY <1>2, <1>3, EndsIn DEF Pause

LEMMA LaunchFailsSafe ==
  ASSUME EngineType, EngineSafe, run' = run, LaunchFails
  PROVE  EngineType' /\ EngineSafe' /\ Honest'
<1> DEFINE h == Head(toLaunch)
           st == SetAll(status, {c.step : c \in active}, "pending")
<1>1. /\ status \in [Steps -> Status] /\ "pending" \in Status /\ "failed" \in Status
      /\ pc = "launch" /\ Running /\ toLaunch \in Seq(Steps) /\ toLaunch # <<>>
      /\ status' = [st EXCEPT ![h] = "failed"]
  BY StatusNames DEF EngineType, LaunchFails, Running, EngineSafe, Shape
<1>2. h \in Steps /\ h \in Launching
  BY <1>1, TailSet DEF Launching
<1>3. /\ st \in [Steps -> Status]
      /\ \A s \in Steps : st[s] = IF s \in Slotted THEN "pending" ELSE status[s]
  BY <1>1, SetAllFacts DEF Slotted
<1> HIDE DEF st
<1>4. status' \in [Steps -> Status]
  BY <1>1, <1>2, <1>3
<1>5. \A s \in Steps : status'[s] = IF s = h THEN "failed"
                                    ELSE IF s \in Slotted THEN "pending" ELSE status[s]
  BY <1>1, <1>2, <1>3
<1>6. ASSUME NEW s \in Steps, status'[s] = "running"
      PROVE  DepsOf(run.dag, s) \subseteq Completed(status')
  <2>1. status[s] = "running"
    BY <1>5, <1>6
  <2>2. DepsOf(run.dag, s) \subseteq Completed(status) \ Batch
    BY <1>1, <2>1, RunningSteps
  <2>3. h \in Batch /\ Slotted \subseteq Batch
    BY <1>2 DEF Batch
  <2>4. ASSUME NEW d \in Completed(status) \ Batch PROVE d \in Completed(status')
    <3>1. d \in Steps /\ d # h /\ d \notin Slotted /\ status[d] \in Done
      BY <1>1, <2>3, <2>4 DEF Completed
    <3>2. status'[d] = status[d]
      BY <1>5, <3>1
    <3> QED
      BY <1>4, <3>1, <3>2 DEF Completed
  <2> QED
    BY <2>2, <2>4
<1>7. DependenciesFirst'
  BY <1>6, DepsFirst
<1> QED
  BY <1>4, <1>7, EndsIn DEF LaunchFails

\* A failure that was retried already fails the run.
LEMMA SecondFailure ==
  ASSUME EngineType, EngineSafe, run' = run, pc = "failures", End("failed"),
         status' = [SetAll(status, Unfinished, "cancelled") EXCEPT ![Head(failed)] = "failed"]
  PROVE  EngineType' /\ EngineSafe' /\ Honest'
<1> DEFINE st == SetAll(status, Unfinished, "cancelled")
           h == Head(failed)
<1>1. /\ status \in [Steps -> Status] /\ "cancelled" \in Status /\ "failed" \in Status
      /\ failed \in Seq(Steps) /\ failed # <<>> /\ status' = [st EXCEPT ![h] = "failed"]
  BY StatusNames DEF EngineType, EngineSafe, Shape
<1>2. h \in Steps
  BY <1>1, TailSet
<1>3. /\ st \in [Steps -> Status]
      /\ \A s \in Steps : st[s] = IF s \in Unfinished THEN "cancelled" ELSE status[s]
  BY <1>1, SetAllFacts
<1> HIDE DEF st
<1>4. /\ status' \in [Steps -> Status] /\ status'[h] = "failed"
      /\ \A s \in Steps : s # h => status'[s] = st[s]
  BY <1>1, <1>2, <1>3
<1>5. \A s \in Steps : status'[s] \in Done \cup {"failed", "cancelled"}
  BY <1>3, <1>4 DEF Unfinished
<1>6. DependenciesFirst'
  BY <1>5, NoneRuns, StatusNames
<1> QED
  BY <1>2, <1>4, <1>5, <1>6, EndsIn

----------------------------------------------------------------------------
(* The ways a batch is over *)

\* While the main phase goes on there is no outcome to be honest about.
LEMMA NoOutcome ==
  ASSUME outcome' = "none"
  PROVE  Honest'
  BY DEF Honest

LEMMA TalliedSame ==
  ASSUME NEW s, Tallied(s), launches'[s] = launches[s],
         s \in authUsed' <=> s \in authUsed, s \in retried' <=> s \in retried,
         status'[s] = "pending" => status[s] = "pending"
  PROVE  Tallied(s)'
  BY DEF Tallied

LEMMA CountedRests ==
  ASSUME run \in Runs, run' = run, NoBatch', Distinct(failed'),
         ~ Attended =>
           /\ \A s \in Steps : /\ status'[s] # "cancelled" /\ Tallied(s)'
                               /\ s \in ToSet(failed') => status'[s] = "failed"
           /\ failed' \in Seq(Steps)
           /\ pc' = "retry" => Head(failed') \notin retried'
  PROVE  Counted'
<1>1. Launching' = {} /\ Queued' = {}
  BY Empties
<1>2. Steps' = Steps /\ Attended' = Attended
  BY DEF Steps, Attended
<1>3. ASSUME ~ Attended PROVE FailedOnes' \subseteq Steps
  <2>1. failed' \in Seq(Steps)
    BY <1>3
  <2>2. ToSet(failed') \subseteq Steps
    BY <2>1 DEF ToSet
  <2> QED
    BY <2>2, Primed
<1>4. ASSUME ~ Attended
      PROVE  /\ With("cancelled")' = {} /\ FailedOnes' \subseteq With("failed")'
             /\ \A s \in Steps' : Tallied(s)'
  <2>1. FailedOnes' = ToSet(failed')
    BY Primed
  <2> QED
    BY <1>2, <1>3, <1>4, <2>1 DEF With
<1> QED
  BY <1>1, <1>2, <1>4 DEF Counted

\* A single step runs: it is the whole batch.
LEMMA InStepFacts ==
  ASSUME EngineType, EngineSafe, InStep
  PROVE  /\ group = {} /\ queue = <<>> /\ toLaunch = <<>> /\ failed = <<>>
         /\ current \in Steps /\ active = {Container(current)}
         /\ Slotted = {current} /\ Launching = {} /\ Batch = {current}
         /\ \A s \in Steps : /\ status[s] = "running" <=> s = current
                             /\ status[s] # "failed"
                             /\ ~ Attended => status[s] # "cancelled" /\ Tallied(s)
<1>1. /\ group = {} /\ queue = <<>> /\ toLaunch = <<>> /\ failed = <<>>
      /\ current \in Steps /\ active = {Container(current)} /\ Running
  BY DEF EngineSafe, Shape, InStep, Running
<1>2. Slotted = {current}
  BY <1>1 DEF Slotted, Container
<1>3. Launching = {} /\ FailedOnes = {}
  BY <1>1, EmptyFacts DEF Launching, FailedOnes
<1>4. Batch = {current}
  BY <1>1, <1>2, <1>3 DEF Batch
<1>5. With("running") = {current} /\ With("failed") = {}
  BY <1>1, <1>2, <1>3 DEF EngineSafe, StatusPlaced
<1>6. ~ Attended => With("cancelled") = {} /\ \A s \in Steps : Tallied(s)
  BY <1>1 DEF EngineSafe, Counted
<1> QED
  BY <1>1, <1>2, <1>3, <1>4, <1>5, <1>6 DEF With

\* Between two batches no step runs.
LEMMA RestFacts ==
  ASSUME EngineType, EngineSafe, pc \in {"loop", "between", "failures", "retry"}
  PROVE  /\ NoBatch /\ Running /\ failed \in Seq(Steps) /\ Distinct(failed)
         /\ pc \in {"loop", "between"} => failed = <<>>
         /\ pc \in {"failures", "retry"} => failed # <<>>
         /\ \A s \in Steps :
              /\ status[s] # "running"
              /\ status[s] = "failed" => s \in ToSet(failed)
              /\ ~ Attended => /\ status[s] # "cancelled" /\ Tallied(s)
                               /\ s \in ToSet(failed) => status[s] = "failed"
<1>1. /\ NoBatch /\ Running /\ failed \in Seq(Steps) /\ Distinct(failed)
      /\ pc \in {"loop", "between"} => failed = <<>>
      /\ pc \in {"failures", "retry"} => failed # <<>>
  BY DEF EngineSafe, Shape, Running, EngineType, Apart
<1>2. Slotted = {} /\ Launching = {}
  <2>1. active = {} /\ toLaunch = <<>>
    BY <1>1 DEF NoBatch
  <2> QED
    BY <2>1, EmptyFacts DEF Slotted, Launching
<1>3. With("running") = {} /\ With("failed") \subseteq FailedOnes
  BY <1>1, <1>2 DEF EngineSafe, StatusPlaced
<1>4. ~ Attended => /\ With("cancelled") = {} /\ FailedOnes \subseteq With("failed")
                    /\ \A s \in Steps : Tallied(s)
  BY <1>1 DEF EngineSafe, Counted
<1> QED
  BY <1>1, <1>3, <1>4 DEF With, FailedOnes

\* The step that ran is over with status v.
LEMMA StepOver ==
  ASSUME EngineType, EngineSafe, InStep, run' = run, outcome' = "none",
         NEW v \in {"pending", "succeeded", "failed"}, Set(current, v), LeaveStep,
         UNCHANGED <<launches, batch, retried, current>>,
         v = "pending" => authUsed' = authUsed \cup {current} /\ current \notin authUsed,
         v # "pending" => authUsed' = authUsed,
         IF v = "failed" THEN failed' = <<current>> /\ pc' = "failures"
         ELSE failed' = failed /\ pc' \in {"loop", "between"}
  PROVE  EngineType' /\ EngineSafe' /\ Honest'
<1>1. /\ status \in [Steps -> Status] /\ v \in Status /\ current \in Steps
      /\ authUsed \subseteq Steps /\ retried \subseteq Steps
      /\ failed = <<>> /\ group = {} /\ queue = <<>> /\ toLaunch = <<>>
      /\ status' = [status EXCEPT ![current] = v] /\ run \in Runs
  BY InStepFacts, StatusNames DEF EngineType, Set
<1>2. /\ status' \in [Steps -> Status] /\ status'[current] = v
      /\ \A s \in Steps : s # current => status'[s] = status[s]
  BY <1>1
<1>3. NoBatch'
  BY <1>1 DEF NoBatch, LeaveStep, batch
<1>4. /\ launches' = launches /\ retried' = retried /\ current' = current
      /\ current' \in Steps /\ authUsed' \subseteq Steps
  BY <1>1 DEF EngineType
<1>5. /\ failed' \in Seq(Steps) /\ Distinct(failed')
      /\ pc' \in {"loop", "between"} => failed' = <<>>
      /\ pc' \in {"failures", "retry"} => failed' # <<>>
      /\ pc' \in {"loop", "between", "failures"}
      /\ \A s \in Steps : s \in ToSet(failed') <=> s = current /\ v = "failed"
  <2>1. CASE v = "failed"
    <3>1. failed' = <<current>> /\ pc' = "failures"
      BY <2>1
    <3>2. <<current>> \in Seq(Steps)
      BY <1>1
    <3> QED
      BY <2>1, <3>1, <3>2, OneSet
  <2>2. CASE v # "failed"
    <3>1. failed' = <<>> /\ pc' \in {"loop", "between"}
      BY <1>1, <2>2
    <3> QED
      BY <2>2, <3>1, EmptyFacts, EmptyIn
  <2> QED
    BY <2>1, <2>2
<1>6. \A s \in Steps : /\ status'[s] # "running"
                       /\ status'[s] = "failed" => s \in ToSet(failed')
  BY <1>2, <1>5, InStepFacts
<1>7. ASSUME ~ Attended, NEW s \in Steps
      PROVE  /\ status'[s] # "cancelled" /\ Tallied(s)'
             /\ s \in ToSet(failed') => status'[s] = "failed"
  <2>1. status[s] # "cancelled" /\ Tallied(s) /\ status[current] = "running"
    BY <1>1, <1>7, InStepFacts
  <2>2. status'[s] # "cancelled" /\ (s \in ToSet(failed') => status'[s] = "failed")
    BY <1>2, <1>5, <2>1
  <2>3. CASE s = current /\ v = "pending"
    <3>1. launches'[s] = launches[s] /\ status[s] = "running" /\ s \in authUsed'
          /\ s \notin authUsed /\ (s \in retried' <=> s \in retried)
          /\ launches[s] \in Nat
      BY <1>4, <2>1, <2>3 DEF EngineType
    <3>2. Tallied(s)'
      BY <2>1, <3>1 DEF Tallied
    <3> QED
      BY <2>2, <3>2
  <2>4. CASE ~ (s = current /\ v = "pending")
    <3>1. /\ launches'[s] = launches[s] /\ (s \in retried' <=> s \in retried)
          /\ status'[s] = "pending" => status[s] = "pending"
      BY <1>2, <1>4, <2>4
    <3>2. s \in authUsed' <=> s \in authUsed
      BY <2>4
    <3>3. Tallied(s)'
      BY <2>1, <3>1, <3>2, TalliedSame
    <3> QED
      BY <2>2, <3>3
  <2> QED
    BY <2>3, <2>4
<1>8. Counted'
  BY <1>1, <1>3, <1>5, <1>7, CountedRests
<1>9. EngineType' /\ EngineSafe'
  BY <1>1, <1>2, <1>3, <1>4, <1>5, <1>6, <1>8, Rests DEF EngineType
<1> QED
  BY <1>9, NoOutcome

\* Proceed, where nothing runs any more and no failure is left.
LEMMA ProceedSafe ==
  ASSUME EngineType, EngineSafe, run' = run, outcome = "none",
         NEW st \in [Steps -> Status], Proceed(st),
         \A s \in Steps : st[s] \notin {"running", "failed"},
         ~ Attended => st = status /\ pc = "between"
  PROVE  EngineType' /\ EngineSafe' /\ Honest'
<1>1. /\ NoBatch' /\ failed' = <<>> /\ pc' = "loop" /\ status' = st
      /\ launches' = launches /\ current' = current /\ authUsed' = authUsed
      /\ retried' = retried /\ outcome' = outcome /\ run \in Runs
      /\ authUsed \subseteq Steps /\ retried \subseteq Steps
      /\ current \in Steps \cup {""}
  BY DEF Proceed, LeaveStep, NoBatch, Goto, ending, EngineType
<1>2. failed' \in Seq(Steps) /\ Distinct(failed') /\ ToSet(failed') = {}
  BY <1>1, EmptyFacts, EmptyIn
<1>3. ASSUME ~ Attended, NEW s \in Steps
      PROVE  /\ status'[s] # "cancelled" /\ Tallied(s)'
             /\ s \in ToSet(failed') => status'[s] = "failed"
  <2>1. status' = status /\ status[s] # "cancelled" /\ Tallied(s)
    BY <1>1, <1>3, RestFacts
  <2>2. Tallied(s)'
    BY <1>1, <2>1, TalliedSame
  <2> QED
    BY <1>2, <2>1, <2>2
<1>4. Counted'
  BY <1>1, <1>2, <1>3, CountedRests
<1>5. EngineType' /\ EngineSafe'
  BY <1>1, <1>2, <1>4, Rests
<1> QED
  BY <1>1, <1>5, NoOutcome

----------------------------------------------------------------------------
(* A single step *)

\* What does not depend on the place the engine is at.
LEMMA EngineSame ==
  ASSUME EngineType, run' = run,
         UNCHANGED <<status, launches, slots, batch, recovery, current>>
  PROVE  /\ EngineType' /\ Steps' = Steps /\ Attended' = Attended
         /\ Apart => Apart'
         /\ SlotsOwned => SlotsOwned'
         /\ DepsHeld => DepsHeld'
         /\ DependenciesFirst => DependenciesFirst'
         /\ \A s : Tallied(s) => Tallied(s)'
         /\ \A v : With(v)' = With(v)
         /\ Launching' = Launching /\ Queued' = Queued /\ Slotted' = Slotted
         /\ FailedOnes' = FailedOnes
<1>1. Steps' = Steps /\ Attended' = Attended /\ Containers' = Containers
  BY DEF Steps, Attended, Containers
<1>2. /\ status' = status /\ launches' = launches /\ active' = active /\ live' = live
      /\ exits' = exits /\ group' = group /\ queue' = queue /\ toLaunch' = toLaunch
      /\ authUsed' = authUsed /\ retried' = retried /\ failed' = failed
      /\ current' = current
  BY DEF slots, batch, recovery
<1>3. EngineType'
  BY <1>1, <1>2 DEF EngineType
<1>4. /\ Launching' = Launching /\ Queued' = Queued /\ Slotted' = Slotted
      /\ FailedOnes' = FailedOnes /\ Batch' = Batch
  BY <1>2, Primed DEF Launching, Queued, Slotted, FailedOnes, Batch
<1>5. Apart => Apart'
  BY <1>2, <1>4, Primed DEF Apart
<1>6. SlotsOwned => SlotsOwned'
  BY <1>2 DEF SlotsOwned
<1>7. DepsHeld => DepsHeld'
  <2>1. Completed(status)' = Completed(status)
    BY <1>2 DEF Completed
  <2>2. \A s : DepsOf(run.dag, s)' = DepsOf(run.dag, s)
    BY DEF DepsOf, ToSet
  <2> QED
    BY <1>4, <2>1, <2>2 DEF DepsHeld
<1>8. DependenciesFirst => DependenciesFirst'
  <2> SUFFICES ASSUME DependenciesFirst PROVE DependenciesFirst'
    OBVIOUS
  <2>1. status' = status
    BY <1>2
  <2> QED
    BY <2>1, DepsFirst DEF DependenciesFirst
<1>9. \A s : Tallied(s) => Tallied(s)'
  BY <1>2 DEF Tallied
<1>10. \A v : With(v)' = With(v)
  BY <1>1, <1>2 DEF With
<1> QED
  BY <1>1, <1>3, <1>4, <1>5, <1>6, <1>7, <1>8, <1>9, <1>10

\* From the step to its countdown, and back.
LEMMA CountdownSafe ==
  ASSUME EngineType, EngineSafe, run' = run, outcome = "none", InStep,
         pc' \in {"single", "countdown"},
         UNCHANGED <<status, launches, slots, batch, recovery, ending, current>>
  PROVE  EngineType' /\ EngineSafe' /\ Honest'
<1>1. /\ EngineType' /\ Apart' /\ SlotsOwned' /\ DepsHeld' /\ DependenciesFirst'
  BY EngineSame DEF EngineSafe
<1>2. /\ group = {} /\ queue = <<>> /\ toLaunch = <<>> /\ failed = <<>>
      /\ current \in Steps /\ active = {Container(current)}
  BY InStepFacts
<1>3. /\ group' = {} /\ queue' = <<>> /\ toLaunch' = <<>> /\ failed' = <<>>
      /\ current' \in Steps' /\ active' = {Container(current)}'
  BY <1>2 DEF batch, slots, recovery, Container, Steps
<1>4. InStep' /\ Running' /\ InStep /\ Running
  BY DEF InStep, Running
<1>5. Shape'
  BY <1>3, <1>4 DEF Shape, InStep, Running
<1>6. StatusPlaced'
  BY <1>4, EngineSame DEF StatusPlaced, EngineSafe
<1>7. Counted'
  <2>1. Steps' = Steps /\ Attended' = Attended
    BY EngineSame
  <2>2. ~ Attended => \A s \in Steps : Tallied(s)
    BY DEF EngineSafe, Counted
  <2>3. ~ Attended => \A s \in Steps' : Tallied(s)'
    BY <2>1, <2>2, EngineSame
  <2>4. ~ Attended => /\ With("cancelled")' = {} /\ FailedOnes' \subseteq With("failed")'
                      /\ Launching' \cup Queued' \subseteq With("pending")'
    BY <1>4, EngineSame DEF EngineSafe, Counted
  <2> QED
    BY <2>1, <2>3, <2>4 DEF Counted
<1>8. outcome' = "none"
  BY DEF ending
<1> QED
  BY <1>1, <1>5, <1>6, <1>7, <1>8, NoOutcome DEF EngineSafe

LEMMA SingleStep ==
  ASSUME EngineType, EngineSafe, run' = run, outcome = "none",
         \/ StepSucceeds \/ StepFails \/ StepWaitFails \/ StepCancelled
         \/ CountdownStops \/ CountdownExpires \/ StepStuck \/ StuckUnattended
  PROVE  EngineType' /\ EngineSafe' /\ Honest'
<1>1. CASE StepSucceeds
  <2>1. /\ InStep /\ Set(current, "succeeded") /\ LeaveStep
        /\ pc' \in {"loop", "between"} /\ outcome' = outcome
        /\ UNCHANGED <<launches, batch, retried, current>>
        /\ authUsed' = authUsed /\ failed' = failed
    BY <1>1 DEF StepSucceeds, Goto, recovery, ending
  <2> QED
    BY <2>1, StepOver
<1>2. CASE StepFails
  <2>1. PICK x \in exits :
          /\ x.code \in {"fail", "auth"}
          /\ CASE cancel -> CancelRun
               [] ~cancel /\ x.code = "auth" /\ current \notin authUsed ->
                    /\ Set(current, "pending") /\ authUsed' = authUsed \cup {current}
                    /\ LeaveStep /\ Goto("loop")
                    /\ UNCHANGED <<launches, batch, retried, failed, ending, current>>
               [] ~cancel /\ current \in run.aborts /\ (x.code = "fail" \/ current \in authUsed) ->
                    Abort(TRUE)
               [] OTHER ->
                    /\ Set(current, "failed") /\ failed' = <<current>>
                    /\ LeaveStep /\ Goto("failures")
                    /\ UNCHANGED <<launches, batch, authUsed, retried, ending, current>>
    BY <1>2 DEF StepFails
  <2>2. InStep
    BY <1>2 DEF StepFails
  <2>3. \/ CancelRun \/ Abort(TRUE)
        \/ /\ current \notin authUsed
           /\ Set(current, "pending") /\ authUsed' = authUsed \cup {current}
           /\ LeaveStep /\ Goto("loop")
           /\ UNCHANGED <<launches, batch, retried, failed, ending, current>>
        \/ /\ Set(current, "failed") /\ failed' = <<current>>
           /\ LeaveStep /\ Goto("failures")
           /\ UNCHANGED <<launches, batch, authUsed, retried, ending, current>>
    BY <2>1
  <2>4. CASE CancelRun
    BY <2>4, CancelRunSafe
  <2>5. CASE Abort(TRUE)
    BY <2>5, AbortSafe
  <2>6. CASE /\ current \notin authUsed
             /\ Set(current, "pending") /\ authUsed' = authUsed \cup {current}
             /\ LeaveStep /\ Goto("loop")
             /\ UNCHANGED <<launches, batch, retried, failed, ending, current>>
    <3>1. outcome' = "none" /\ pc' = "loop" /\ failed' = failed
      BY <2>6 DEF ending, Goto
    <3> QED
      BY <2>2, <2>6, <3>1, StepOver
  <2>7. CASE /\ Set(current, "failed") /\ failed' = <<current>>
             /\ LeaveStep /\ Goto("failures")
             /\ UNCHANGED <<launches, batch, authUsed, retried, ending, current>>
    <3>1. outcome' = "none" /\ pc' = "failures" /\ authUsed' = authUsed
      BY <2>7 DEF ending, Goto
    <3> QED
      BY <2>2, <2>7, <3>1, StepOver
  <2> QED
    BY <2>3, <2>4, <2>5, <2>6, <2>7
<1>3. CASE StepWaitFails
  BY <1>3, FailSafe DEF StepWaitFails
<1>4. CASE StepCancelled
  BY <1>4, CancelRunSafe DEF StepCancelled
<1>5. CASE CountdownStops
  BY <1>5, CountdownSafe DEF CountdownStops, Goto, InStep
<1>6. CASE StepStuck
  BY <1>6, CountdownSafe DEF StepStuck, Silent, Goto, InStep
<1>7. CASE CountdownExpires \/ StuckUnattended
  <2>1. /\ InStep /\ Set(current, "succeeded") /\ LeaveStep
        /\ pc' \in {"loop", "between"} /\ outcome' = outcome
        /\ UNCHANGED <<launches, batch, retried, current>>
        /\ authUsed' = authUsed /\ failed' = failed
    BY <1>7 DEF CountdownExpires, StuckUnattended, Silent, StepPassed, InStep,
       Goto, recovery, ending
  <2> QED
    BY <2>1, StepOver
<1> QED
  BY <1>1, <1>2, <1>3, <1>4, <1>5, <1>6, <1>7

\* The answers to the boards over a single step, and between two.
LEMMA BackFromFacts ==
  ASSUME EngineType, NEW s \in Steps, NEW st \in BackFrom(s)
  PROVE  /\ st \in [Steps -> Status]
         /\ \A t \in Steps : /\ st[t] \in {status[t], "cancelled", "pending"}
                             /\ t = s => st[t] \in {"cancelled", "pending"}
<1>1. PICK p : st = [status EXCEPT ![s] = "cancelled", ![p] = "pending"]
  BY DEF BackFrom
<1>2. status \in [Steps -> Status] /\ "cancelled" \in Status /\ "pending" \in Status
  BY StatusNames DEF EngineType
<1>3. st \in [Steps -> Status]
  BY <1>1, <1>2
<1>4. \A t \in Steps : st[t] = IF t = p THEN "pending"
                               ELSE IF t = s THEN "cancelled" ELSE status[t]
  BY <1>1, <1>2
<1> QED
  BY <1>3, <1>4

LEMMA MidStep ==
  ASSUME EngineType, EngineSafe, outcome = "none", NEW a, MidStepBoard(a)
  PROVE  EngineType' /\ EngineSafe' /\ Honest'
<1>1. run' = run /\ Attended /\ InStep
  BY DEF MidStepBoard, Answer
<1>2. /\ status \in [Steps -> Status] /\ "pending" \in Status /\ "succeeded" \in Status
      /\ current \in Steps
      /\ \A s \in Steps : (status[s] = "running" <=> s = current) /\ status[s] # "failed"
  BY <1>1, InStepFacts, StatusNames DEF EngineType
<1>3. \/ Proceed([status EXCEPT ![current] = "pending"])
      \/ Proceed([status EXCEPT ![current] = "succeeded"])
      \/ \E st \in BackFrom(current) : Proceed(st)
      \/ FinishWorkflow \/ Pause({current}) \/ Abort(FALSE)
  BY DEF MidStepBoard
<1>4. ASSUME NEW v \in {"pending", "succeeded"},
             Proceed([status EXCEPT ![current] = v])
      PROVE  EngineType' /\ EngineSafe' /\ Honest'
  <2> DEFINE st == [status EXCEPT ![current] = v]
  <2>1. st \in [Steps -> Status] /\ \A s \in Steps : st[s] \notin {"running", "failed"}
    BY <1>2
  <2>2. Proceed(st)
    BY <1>4
  <2> HIDE DEF st
  <2> QED
    BY <1>1, <2>1, <2>2, ProceedSafe
<1>5. CASE \E st \in BackFrom(current) : Proceed(st)
  <2>1. PICK st \in BackFrom(current) : Proceed(st)
    BY <1>5
  <2>2. st \in [Steps -> Status] /\ \A s \in Steps : st[s] \notin {"running", "failed"}
    BY <1>2, <2>1, BackFromFacts
  <2> QED
    BY <1>1, <2>1, <2>2, ProceedSafe
<1>6. CASE FinishWorkflow
  BY <1>1, <1>6, FinishWorkflowSafe
<1>7. CASE Pause({current})
  BY <1>1, <1>2, <1>7, PauseSafe
<1>8. CASE Abort(FALSE)
  BY <1>1, <1>8, AbortSafe
<1> QED
  BY <1>3, <1>4, <1>5, <1>6, <1>7, <1>8

LEMMA Between ==
  ASSUME EngineType, EngineSafe, outcome = "none", run' = run,
         (\E a : BetweenBoard(a)) \/ BetweenAdvance
  PROVE  EngineType' /\ EngineSafe' /\ Honest'
<1>1. pc = "between"
  BY DEF BetweenBoard, BetweenAdvance
<1>2. /\ status \in [Steps -> Status] /\ "pending" \in Status /\ current \in Steps
      /\ \A s \in Steps : status[s] \notin {"running", "failed"}
  BY <1>1, RestFacts, EmptyFacts, StatusNames DEF EngineType, EngineSafe, Shape
<1>3. CASE BetweenAdvance
  <2>1. CASE FinishWorkflow
    BY <2>1, FinishWorkflowSafe
  <2>2. CASE Proceed(status)
    BY <1>1, <1>2, <2>2, ProceedSafe
  <2> QED
    BY <1>3, <2>1, <2>2 DEF BetweenAdvance
<1>4. CASE \E a : BetweenBoard(a)
  <2>1. PICK a : BetweenBoard(a)
    BY <1>4
  <2>2. Attended
    BY <2>1 DEF BetweenBoard, Answer
  <2>3. \/ Proceed([status EXCEPT ![current] = "pending"])
        \/ \E st \in BackFrom(current) : Proceed(st)
        \/ FinishWorkflow \/ Pause({}) \/ Abort(FALSE) \/ Fail
    BY <2>1 DEF BetweenBoard
  <2>4. CASE Proceed([status EXCEPT ![current] = "pending"])
    <3> DEFINE st == [status EXCEPT ![current] = "pending"]
    <3>1. st \in [Steps -> Status] /\ \A s \in Steps : st[s] \notin {"running", "failed"}
      BY <1>2
    <3>2. Proceed(st)
      BY <2>4
    <3> HIDE DEF st
    <3> QED
      BY <2>2, <3>1, <3>2, ProceedSafe
  <2>5. CASE \E st \in BackFrom(current) : Proceed(st)
    <3>1. PICK st \in BackFrom(current) : Proceed(st)
      BY <2>5
    <3>2. st \in [Steps -> Status] /\ \A s \in Steps : st[s] \notin {"running", "failed"}
      BY <1>2, <3>1, BackFromFacts
    <3> QED
      BY <2>2, <3>1, <3>2, ProceedSafe
  <2>6. CASE FinishWorkflow
    BY <2>6, FinishWorkflowSafe
  <2>7. CASE Pause({})
    BY <1>2, <2>7, PauseSafe
  <2>8. CASE Abort(FALSE)
    BY <2>8, AbortSafe
  <2>9. CASE Fail
    BY <2>9, FailSafe
  <2> QED
    BY <2>3, <2>4, <2>5, <2>6, <2>7, <2>8, <2>9
<1> QED
  BY <1>3, <1>4

----------------------------------------------------------------------------
(* Decisions on failures *)

LEMMA FailureDecided ==
  ASSUME EngineType, EngineSafe, run' = run, outcome = "none",
         pc \in {"failures", "retry"}, NextFailure,
         status' \in [Steps -> Status],
         \A s \in Steps : status'[s] \in {status[s], "pending", "skipped"},
         status'[Head(failed)] \in {"pending", "skipped"}, retried' \subseteq Steps,
         ~ Attended => /\ Set(Head(failed), "pending") /\ Head(failed) \notin retried
                       /\ retried' = retried \cup {Head(failed)}
  PROVE  EngineType' /\ EngineSafe' /\ Honest'
<1> DEFINE h == Head(failed)
<1>1. /\ failed \in Seq(Steps) /\ failed # <<>> /\ Distinct(failed) /\ NoBatch
      /\ run \in Runs /\ status \in [Steps -> Status] /\ launches \in [Steps -> Nat]
      /\ authUsed \subseteq Steps
  BY RestFacts DEF EngineType
<1>2. /\ failed' = Tail(failed) /\ failed' \in Seq(Steps) /\ Distinct(failed')
      /\ h \in Steps /\ h \notin ToSet(failed') /\ ToSet(failed) = ToSet(failed') \cup {h}
      /\ Len(failed) = 1 <=> failed' = <<>>
  BY <1>1, TailSet DEF NextFailure
<1>3. /\ NoBatch' /\ launches' = launches /\ current' = h /\ authUsed' = authUsed
      /\ outcome' = "none"
      /\ pc' = IF Len(failed) = 1 THEN "loop" ELSE "failures"
  BY <1>1 DEF NextFailure, Goto, slots, batch, ending, NoBatch
<1>4. /\ pc' \in {"loop", "failures"}
      /\ pc' \in {"loop", "between"} => failed' = <<>>
      /\ pc' \in {"failures", "retry"} => failed' # <<>>
  BY <1>2, <1>3
<1>5. ASSUME NEW s \in Steps
      PROVE  status'[s] # "running" /\ (status'[s] = "failed" => s \in ToSet(failed'))
  <2>1. status[s] # "running" /\ (status[s] = "failed" => s \in ToSet(failed))
    BY RestFacts
  <2>2. s = h \/ s \in ToSet(failed') \/ s \notin ToSet(failed)
    BY <1>2
  <2> QED
    BY <2>1, <2>2
<1>6. ASSUME ~ Attended, NEW s \in Steps
      PROVE  /\ status'[s] # "cancelled" /\ Tallied(s)'
             /\ s \in ToSet(failed') => status'[s] = "failed"
  <2>1. /\ status[s] # "cancelled" /\ Tallied(s) /\ status[h] = "failed"
        /\ s \in ToSet(failed) => status[s] = "failed"
    BY <1>2, <1>6, RestFacts
  <2>2. /\ status' = [status EXCEPT ![h] = "pending"] /\ h \notin retried
        /\ retried' = retried \cup {h}
    BY <1>6 DEF Set
  <2>3. status'[s] = IF s = h THEN "pending" ELSE status[s]
    BY <1>1, <2>2
  <2>4. Tallied(s)'
    <3>1. CASE s = h
      <4>1. /\ launches'[s] = launches[s] /\ status[s] = "failed" /\ s \in retried'
            /\ s \notin retried /\ (s \in authUsed' <=> s \in authUsed)
            /\ launches[s] \in Nat
        BY <1>1, <1>3, <2>1, <2>2, <3>1
      <4> QED
        BY <2>1, <4>1 DEF Tallied
    <3>2. CASE s # h
      BY <1>3, <2>1, <2>2, <2>3, <3>2, TalliedSame
    <3> QED
      BY <3>1, <3>2
  <2> QED
    BY <1>2, <2>1, <2>3, <2>4
<1>7. Counted'
  BY <1>1, <1>2, <1>3, <1>4, <1>6, CountedRests
<1>8. EngineType' /\ EngineSafe'
  BY <1>1, <1>2, <1>3, <1>4, <1>5, <1>7, Rests
<1> QED
  BY <1>3, <1>8, NoOutcome

LEMMA Failures ==
  ASSUME EngineType, EngineSafe, run' = run, outcome = "none",
         FailureCancelled \/ (\E a : FailureBoard(a)) \/ FailureUnattended \/ RetryFailed
  PROVE  EngineType' /\ EngineSafe' /\ Honest'
<1> DEFINE h == Head(failed)
<1>1. CASE FailureCancelled
  BY <1>1, CancelRunSafe DEF FailureCancelled
<1>2. pc \in {"failures", "retry"}
  BY DEF FailureCancelled, FailureBoard, FailureUnattended, RetryFailed
<1>3. /\ failed \in Seq(Steps) /\ failed # <<>> /\ Distinct(failed) /\ NoBatch
      /\ run \in Runs /\ status \in [Steps -> Status] /\ launches \in [Steps -> Nat]
      /\ authUsed \subseteq Steps /\ retried \subseteq Steps
      /\ current \in Steps \cup {""}
  BY <1>2, RestFacts DEF EngineType
<1>4. h \in Steps /\ h \in ToSet(failed)
  BY <1>3, TailSet
<1>5. ASSUME NEW v \in {"pending", "skipped"}, Set(h, v)
      PROVE  /\ status' \in [Steps -> Status]
             /\ \A s \in Steps : status'[s] \in {status[s], "pending", "skipped"}
             /\ status'[h] \in {"pending", "skipped"}
  BY <1>3, <1>4, <1>5, StatusNames DEF Set
<1>6. CASE \E a : FailureBoard(a)
  <2>1. PICK a : FailureBoard(a)
    BY <1>6
  <2>2. Attended
    BY <2>1 DEF FailureBoard, Answer
  <2>3. \/ Set(h, "pending") /\ NextFailure /\ UNCHANGED retried
        \/ \E p : /\ status' = SetAll(status, {h, p}, "pending")
                  /\ NextFailure /\ UNCHANGED retried
        \/ Set(h, "skipped") /\ NextFailure /\ UNCHANGED retried
        \/ Pause({}) \/ Abort(FALSE)
    BY <2>1 DEF FailureBoard
  <2>4. CASE Set(h, "pending") /\ NextFailure /\ UNCHANGED retried
    BY <1>2, <1>3, <1>5, <2>2, <2>4, FailureDecided
  <2>5. CASE \E p : /\ status' = SetAll(status, {h, p}, "pending")
                    /\ NextFailure /\ UNCHANGED retried
    <3>1. PICK p : /\ status' = SetAll(status, {h, p}, "pending")
                   /\ NextFailure /\ UNCHANGED retried
      BY <2>5
    <3>2. /\ status' \in [Steps -> Status]
          /\ \A s \in Steps : status'[s] = IF s \in {h, p} THEN "pending" ELSE status[s]
      <4> DEFINE X == {h, p}
      <4>1. status' = SetAll(status, X, "pending") /\ "pending" \in Status
        BY <3>1, StatusNames
      <4> HIDE DEF X
      <4>2. /\ status' \in [Steps -> Status]
            /\ \A s \in Steps : status'[s] = IF s \in X THEN "pending" ELSE status[s]
        <5>1. status \in [Steps -> Status] /\ "pending" \in Status
          BY <1>3, <4>1
        <5>2. /\ SetAll(status, X, "pending") \in [Steps -> Status]
              /\ \A s \in Steps : SetAll(status, X, "pending")[s]
                                    = IF s \in X THEN "pending" ELSE status[s]
          BY <5>1, SetAllFacts
        <5> QED
          BY <4>1, <5>2
      <4> QED
        BY <4>2 DEF X
    <3>3. /\ \A s \in Steps : status'[s] \in {status[s], "pending", "skipped"}
          /\ status'[h] \in {"pending", "skipped"}
      BY <1>4, <3>2
    <3> QED
      BY <1>2, <1>3, <2>2, <3>1, <3>2, <3>3, FailureDecided
  <2>6. CASE Set(h, "skipped") /\ NextFailure /\ UNCHANGED retried
    BY <1>2, <1>3, <1>5, <2>2, <2>6, FailureDecided
  <2>7. CASE Pause({})
    BY <1>2, <2>7, PauseSafe, RestFacts
  <2>8. CASE Abort(FALSE)
    BY <2>8, AbortSafe
  <2> QED
    BY <2>3, <2>4, <2>5, <2>6, <2>7, <2>8
<1>7. CASE FailureUnattended
  <2>1. CASE h \in retried
    BY <1>7, <2>1, SecondFailure DEF FailureUnattended
  <2>2. CASE h \notin retried
    <3>1. /\ pc' = "retry" /\ ~ Attended
          /\ UNCHANGED <<status, launches, slots, batch, recovery, ending, current>>
      BY <1>7, <2>2 DEF FailureUnattended, Goto
    <3>2. /\ status' = status /\ launches' = launches /\ failed' = failed
          /\ retried' = retried /\ authUsed' = authUsed /\ current' = current
          /\ NoBatch' /\ outcome' = "none"
      BY <1>3, <3>1 DEF slots, batch, recovery, ending, NoBatch
    <3>3. ASSUME NEW s \in Steps PROVE Tallied(s)'
      BY <1>2, <3>1, <3>2, RestFacts, TalliedSame
    <3>4. \A s \in Steps : /\ status'[s] # "cancelled"
                           /\ s \in ToSet(failed') => status'[s] = "failed"
      BY <1>2, <3>1, <3>2, RestFacts
    <3>5. Counted'
      BY <1>3, <2>2, <3>2, <3>3, <3>4, CountedRests
    <3>6. \A s \in Steps : /\ status'[s] # "running"
                           /\ status'[s] = "failed" => s \in ToSet(failed')
      BY <1>2, <3>2, RestFacts
    <3>7. EngineType' /\ EngineSafe'
      BY <1>3, <3>1, <3>2, <3>5, <3>6, Rests
    <3> QED
      BY <3>2, <3>7, NoOutcome
  <2> QED
    BY <2>1, <2>2
<1>8. CASE RetryFailed
  <2>1. /\ pc = "retry" /\ Set(h, "pending") /\ NextFailure
        /\ retried' = retried \cup {h}
    BY <1>8 DEF RetryFailed
  <2>2. ~ Attended => h \notin retried
    BY <2>1 DEF EngineSafe, Counted
  <2>3. retried' \subseteq Steps
    BY <1>3, <1>4, <2>1
  <2> QED
    BY <1>2, <1>5, <2>1, <2>2, <2>3, FailureDecided
<1> QED
  BY <1>1, <1>6, <1>7, <1>8

----------------------------------------------------------------------------
(* Launching *)

\* A new batch: the queue l of launches and the steps q that wait, of group g.
LEMMA NewBatch ==
  ASSUME EngineType, EngineSafe, run' = run, outcome = "none", pc = "loop",
         NEW l \in Seq(Steps), NEW q \in Seq(Steps), NEW g \in SUBSET Steps,
         l # <<>>, Distinct(l), Distinct(q), ToSet(l) \cap ToSet(q) = {},
         Len(l) <= run.cap,
         IF g = {} THEN Len(l) = 1 /\ q = <<>> ELSE ToSet(l) \cup ToSet(q) \subseteq g,
         \A s \in g \cup ToSet(l) \cup ToSet(q) :
           s \in Steps \ Completed(status) /\ DepsOf(run.dag, s) \subseteq Completed(status),
         toLaunch' = l, queue' = q, group' = g, active' = {}, exits' = {}, pc' = "launch",
         UNCHANGED <<status, launches, live, recovery, ending, current>>
  PROVE  EngineType' /\ EngineSafe' /\ Honest'
<1>1. /\ Steps' = Steps /\ Attended' = Attended /\ Containers' = Containers
      /\ run \in Runs /\ run.cap \in Nat
  BY RunFacts DEF Steps, Attended, Containers, EngineType
<1>2. /\ status' = status /\ launches' = launches /\ live' = {} /\ failed' = <<>>
      /\ failed = <<>> /\ retried' = retried /\ authUsed' = authUsed
      /\ current' = current /\ outcome' = "none"
  BY RestFacts DEF recovery, ending, NoBatch
<1>3. EngineType'
  BY <1>1, <1>2 DEF EngineType
<1>4. Running' /\ ~ InStep' /\ pc' = "launch"
  BY DEF Running, InStep
<1>5. /\ Launching' = ToSet(l) /\ Queued' = ToSet(q) /\ Slotted' = {}
      /\ FailedOnes' = {} /\ Distinct(failed')
  BY <1>2, Primed, EmptyFacts
<1>6. Batch' = g \cup ToSet(l)
  BY <1>5 DEF Batch
<1>7. Shape'
  BY <1>2, <1>4, <1>5 DEF Shape
<1>8. Apart'
  <2>1. Distinct(toLaunch)' /\ Distinct(queue)' /\ Distinct(failed)'
    BY <1>5, Primed
  <2> QED
    BY <1>5, <2>1 DEF Apart
<1>9. SlotsOwned'
  <2>1. IsFiniteSet({}) /\ Cardinality({}) = 0 /\ Len(l) \in Nat
    BY FS_EmptySet
  <2> QED
    BY <1>1, <1>2, <2>1 DEF SlotsOwned
<1>10. StatusPlaced'
  <2>1. With("running")' = {} /\ With("failed")' = {}
    BY <1>1, <1>2, RestFacts, EmptyFacts DEF With
  <2> QED
    BY <1>5, <2>1 DEF StatusPlaced
<1>11. DepsHeld'
  <2>1. Completed(status)' = Completed(status)
    BY <1>2 DEF Completed
  <2>2. \A s : DepsOf(run.dag, s)' = DepsOf(run.dag, s)
    BY DEF DepsOf, ToSet
  <2>3. Batch' \cap Completed(status) = {}
    BY <1>6
  <2> QED
    BY <1>6, <2>1, <2>2, <2>3 DEF DepsHeld
<1>12. Counted'
  <2> SUFFICES ASSUME ~ Attended PROVE Counted'
    BY <1>1 DEF Counted
  <2>1. ASSUME NEW s \in Steps
        PROVE  /\ status'[s] # "cancelled" /\ Tallied(s)'
               /\ s \in ToSet(l) \cup ToSet(q) => status'[s] = "pending"
    <3>1. /\ status[s] \notin {"cancelled", "running", "failed"} /\ Tallied(s)
          /\ status[s] \in Status
      BY <1>2, RestFacts, EmptyFacts DEF EngineType
    <3>2. Tallied(s)'
      BY <1>2, <3>1, TalliedSame
    <3>3. s \in ToSet(l) \cup ToSet(q) => status[s] \notin Done
      BY DEF Completed, EngineType
    <3> QED
      BY <1>2, <3>1, <3>2, <3>3, StatusNames
  <2>2. With("cancelled")' = {} /\ ToSet(l) \cup ToSet(q) \subseteq With("pending")'
    BY <1>1, <2>1 DEF With
  <2> QED
    BY <1>1, <1>4, <1>5, <2>1, <2>2 DEF Counted
<1>13. DependenciesFirst'
  BY <1>1, <1>2, NoneRuns, RestFacts
<1> QED
  BY <1>2, <1>3, <1>7, <1>8, <1>9, <1>10, <1>11, <1>12, <1>13, NoOutcome DEF EngineSafe

LEMMA LoopSafe ==
  ASSUME EngineType, EngineSafe, run' = run, outcome = "none", Loop
  PROVE  EngineType' /\ EngineSafe' /\ Honest'
<1> DEFINE ready == ReadySteps(run.dag, Completed(status))
           n == IF run.cap < Len(ready) THEN run.cap ELSE Len(ready)
<1>1. /\ pc = "loop" /\ run \in Runs /\ run.cap \in Nat \ {0} /\ WellFormed(run.dag)
      /\ status \in [Steps -> Status]
  BY RunFacts DEF EngineType, Loop
<1>2. /\ ready \in Seq(Steps) /\ Distinct(ready)
      /\ ToSet(ready) = {s \in Steps \ Completed(status) :
                           DepsOf(run.dag, s) \subseteq Completed(status)}
  BY <1>1, ReadyFacts DEF Steps
<1>3. \/ CancelRun
      \/ IsComplete(status) /\ End("completed") /\ UNCHANGED <<status, aborted>>
      \/ Fail
      \/ /\ ready # <<>>
         /\ IF Len(ready) > 1 /\ run.cap > 1
            THEN group' = ToSet(ready) /\ toLaunch' = SubSeq(ready, 1, n)
                 /\ queue' = SubSeq(ready, n + 1, Len(ready))
            ELSE group' = {} /\ toLaunch' = <<Head(ready)>> /\ queue' = <<>>
         /\ active' = {} /\ exits' = {} /\ pc' = "launch"
         /\ UNCHANGED <<status, launches, live, recovery, ending, current>>
  <2> HIDE DEF ready
  <2>1. \/ cancel /\ CancelRun
        \/ ~ cancel /\ IsComplete(status) /\ End("completed") /\ UNCHANGED <<status, aborted>>
        \/ ~ cancel /\ ~ IsComplete(status) /\ ready = <<>> /\ Fail
        \/ /\ ~ (~ cancel /\ ~ IsComplete(status) /\ ready = <<>>)
           /\ ~ cancel /\ ~ IsComplete(status)
           /\ IF Len(ready) > 1 /\ run.cap > 1
              THEN group' = ToSet(ready) /\ toLaunch' = SubSeq(ready, 1, n)
                   /\ queue' = SubSeq(ready, n + 1, Len(ready))
              ELSE group' = {} /\ toLaunch' = <<Head(ready)>> /\ queue' = <<>>
           /\ active' = {} /\ exits' = {} /\ pc' = "launch"
           /\ UNCHANGED <<status, launches, live, recovery, ending, current>>
    BY DEF Loop, Goto, ready
  <2> QED
    BY <2>1
<1>4. CASE CancelRun
  BY <1>4, CancelRunSafe
<1>5. CASE Fail
  BY <1>5, FailSafe
<1>6. CASE IsComplete(status) /\ End("completed") /\ UNCHANGED <<status, aborted>>
  <2>1. ASSUME NEW s \in Steps
        PROVE  status'[s] \in IF Attended THEN Done \cup {"cancelled"} ELSE Done
    <3>1. status[s] \in Terminal /\ status' = status
      BY <1>1, <1>6 DEF IsComplete
    <3>2. status[s] # "failed" /\ (~ Attended => status[s] # "cancelled")
      BY <1>1, RestFacts, EmptyFacts
    <3> QED
      BY <3>1, <3>2, StatusNames
  <2>2. DependenciesFirst'
    BY <1>1, <1>6, NoneRuns, RestFacts
  <2> QED
    BY <1>1, <1>6, <2>1, <2>2, EndsIn
<1>7. CASE /\ ready # <<>>
           /\ IF Len(ready) > 1 /\ run.cap > 1
              THEN group' = ToSet(ready) /\ toLaunch' = SubSeq(ready, 1, n)
                   /\ queue' = SubSeq(ready, n + 1, Len(ready))
              ELSE group' = {} /\ toLaunch' = <<Head(ready)>> /\ queue' = <<>>
           /\ active' = {} /\ exits' = {} /\ pc' = "launch"
           /\ UNCHANGED <<status, launches, live, recovery, ending, current>>
  <2> HIDE DEF ready
  <2>1. Len(ready) \in Nat /\ Head(ready) \in Steps /\ Head(ready) \in ToSet(ready)
    BY <1>2, <1>7, TailSet
  <2>2. CASE Len(ready) > 1 /\ run.cap > 1
    <3> DEFINE a == SubSeq(ready, 1, n) b == SubSeq(ready, n + 1, Len(ready))
    <3>1. n \in 1..Len(ready) /\ n <= run.cap /\ n \in 0..Len(ready)
      BY <1>1, <2>1, <2>2
    <3>2. /\ a \in Seq(Steps) /\ b \in Seq(Steps) /\ Len(a) = n
          /\ ToSet(a) \cup ToSet(b) = ToSet(ready)
          /\ Distinct(a) /\ Distinct(b) /\ ToSet(a) \cap ToSet(b) = {}
      BY <1>2, <3>1, SplitSet
    <3>3. toLaunch' = a /\ queue' = b /\ group' = ToSet(ready)
      BY <1>7, <2>2
    <3> HIDE DEF a, b, n
    <3>4. a # <<>>
      BY <3>1, <3>2, EmptyFacts
    <3>5. ToSet(ready) # {} /\ ToSet(ready) \in SUBSET Steps
      BY <1>2, <2>1
    <3>6. IF ToSet(ready) = {} THEN Len(a) = 1 /\ b = <<>>
          ELSE ToSet(a) \cup ToSet(b) \subseteq ToSet(ready)
      BY <3>2, <3>5
    <3>7. \A s \in ToSet(ready) \cup ToSet(a) \cup ToSet(b) :
            s \in Steps \ Completed(status) /\ DepsOf(run.dag, s) \subseteq Completed(status)
      BY <1>2, <3>2
    <3>8. Len(a) <= run.cap
      BY <3>1, <3>2
    <3> QED
      BY <1>1, <1>7, <3>2, <3>3, <3>4, <3>5, <3>6, <3>7, <3>8, NewBatch
  <2>3. CASE ~ (Len(ready) > 1 /\ run.cap > 1)
    <3> DEFINE a == <<Head(ready)>>
    <3>1. toLaunch' = a /\ queue' = <<>> /\ group' = {}
      BY <1>7, <2>3
    <3>2. a \in Seq(Steps)
      BY <2>1
    <3>3. ToSet(a) = {Head(ready)} /\ Distinct(a) /\ Len(a) = 1 /\ a # <<>>
      BY OneSet
    <3> HIDE DEF a
    <3>4. ToSet(<<>>) = {} /\ Distinct(<<>>) /\ <<>> \in Seq(Steps)
      BY EmptyFacts, EmptyIn
    <3>5. \A s \in {} \cup ToSet(a) \cup ToSet(<<>>) :
            s \in Steps \ Completed(status) /\ DepsOf(run.dag, s) \subseteq Completed(status)
      BY <1>2, <2>1, <3>3, <3>4
    <3>6. Len(a) <= run.cap
      BY <1>1, <3>3
    <3>7. ToSet(a) \cap ToSet(<<>>) = {}
      BY <3>4
    <3>8. {} \in SUBSET Steps
      OBVIOUS
    <3>9. EngineType /\ EngineSafe /\ run' = run /\ outcome = "none" /\ pc = "loop"
      BY <1>1
    <3> QED
      BY <1>7, <3>1, <3>2, <3>3, <3>4, <3>5, <3>6, <3>7, <3>8, <3>9, NewBatch
  <2> QED
    BY <2>2, <2>3
<1> QED
  BY <1>3, <1>4, <1>5, <1>6, <1>7

\* launch_step, launch_parallel_step: the step at the head gets a slot.
LEMMA LaunchSafe ==
  ASSUME EngineType, EngineSafe, run' = run, outcome = "none", LaunchStep
  PROVE  EngineType' /\ EngineSafe' /\ Honest'
<1> DEFINE h == Head(toLaunch)
           c == [step |-> h, id |-> launches[h] + 1]
<1>1. /\ pc = "launch" /\ Running /\ run \in Runs /\ run.cap \in Nat
      /\ toLaunch \in Seq(Steps) /\ toLaunch # <<>> /\ Distinct(toLaunch)
      /\ status \in [Steps -> Status] /\ launches \in [Steps -> Nat]
      /\ active \subseteq Containers /\ live \subseteq active
      /\ IsFiniteSet(active) /\ "running" \in Status
      /\ Cardinality(active) + Len(toLaunch) <= run.cap
  BY RunFacts, StatusNames
     DEF LaunchStep, Running, EngineType, EngineSafe, Shape, Apart, SlotsOwned
<1>2. /\ toLaunch' = Tail(toLaunch) /\ toLaunch' \in Seq(Steps) /\ Distinct(toLaunch')
      /\ h \in Steps /\ h \in ToSet(toLaunch) /\ h \notin ToSet(toLaunch')
      /\ ToSet(toLaunch) = ToSet(toLaunch') \cup {h}
      /\ Len(toLaunch') = Len(toLaunch) - 1 /\ Len(toLaunch) \in Nat \ {0}
      /\ Len(toLaunch) = 1 <=> toLaunch' = <<>>
  BY <1>1, TailSet DEF LaunchStep
<1>3. /\ launches' = [launches EXCEPT ![h] = @ + 1] /\ status' = [status EXCEPT ![h] = "running"]
      /\ active' = active \cup {c} /\ live' = live \cup {c} /\ exits' = exits
      /\ group' = group /\ queue' = queue /\ failed' = failed /\ retried' = retried
      /\ authUsed' = authUsed /\ outcome' = outcome
      /\ current' = IF group = {} THEN h ELSE current
      /\ pc' = IF Len(toLaunch) > 1 THEN "launch" ELSE IF group = {} THEN "single" ELSE "group"
  BY DEF LaunchStep, Set, Goto, recovery, ending
<1>4. /\ Steps' = Steps /\ Attended' = Attended /\ Containers' = Containers
  BY DEF Steps, Attended, Containers
<1>5. /\ launches' \in [Steps -> Nat] /\ launches'[h] = launches[h] + 1
      /\ \A s \in Steps : s # h => launches'[s] = launches[s]
      /\ status' \in [Steps -> Status] /\ status'[h] = "running"
      /\ \A s \in Steps : s # h => status'[s] = status[s]
  BY <1>1, <1>2, <1>3
<1>6. c \in Containers /\ c.step = h /\ c.id = launches[h] + 1 /\ launches[h] \in Nat
  BY <1>1, <1>2 DEF Containers
<1>7. EngineType'
  <2>1. current' \in Steps \cup {""}
    BY <1>2, <1>3 DEF EngineType
  <2>2. active' \subseteq Containers /\ live' \subseteq Containers
    BY <1>1, <1>3, <1>6
  <2> HIDE DEF c, h
  <2> QED
    BY <1>1, <1>2, <1>3, <1>4, <1>5, <2>1, <2>2 DEF EngineType
<1>8. /\ Launching = Launching' \cup {h} /\ h \notin Launching' /\ Queued' = Queued
      /\ FailedOnes' = FailedOnes /\ Slotted' = Slotted \cup {h} /\ Batch' = Batch
  <2>1. Launching = Launching' \cup {h} /\ h \notin Launching'
    BY <1>2, Primed DEF Launching
  <2>2. Queued' = Queued /\ FailedOnes' = FailedOnes
    BY <1>3, Primed DEF Queued, FailedOnes
  <2>3. Slotted' = Slotted \cup {h}
    BY <1>3, <1>6 DEF Slotted
  <2> QED
    BY <1>3, <2>1, <2>2, <2>3 DEF Batch
<1>9. h \notin Slotted /\ h \notin Queued /\ h \notin FailedOnes
  BY <1>8 DEF EngineSafe, Apart
<1>10. c \notin active
  BY <1>6, <1>9 DEF Slotted
<1> HIDE DEF h, c
<1>11. Running' /\ pc' \in {"launch", "single", "group"}
  BY <1>3 DEF Running
<1>12. Shape'
  <2>1. CASE Len(toLaunch) > 1
    <3>1. pc' = "launch" /\ toLaunch' # <<>> /\ group # {}
      <4>1. group = {} => Len(toLaunch) = 1
        BY <1>1 DEF EngineSafe, Shape
      <4>2. Len(toLaunch) # 1
        BY <1>2, <2>1
      <4> QED
        BY <1>2, <1>3, <2>1, <4>1, <4>2
    <3>2. (Slotted \cup Launching \cup Queued \cup FailedOnes \subseteq group)'
      BY <1>3, <1>8, <3>1 DEF EngineSafe, Shape
    <3> QED
      BY <1>3, <1>11, <3>1, <3>2 DEF Shape, InStep
  <2>2. CASE Len(toLaunch) = 1 /\ group = {}
    <3>1. /\ pc' = "single" /\ toLaunch' = <<>> /\ queue' = <<>> /\ group' = {}
          /\ active' = {c} /\ current' = h /\ failed' = <<>>
      BY <1>1, <1>2, <1>3, <2>2 DEF EngineSafe, Shape
    <3>2. c = [step |-> h, id |-> launches'[h]]
      BY <1>5 DEF c
    <3>3. active' = {Container(current)'}
      BY <3>1, <3>2 DEF Container
    <3> QED
      BY <1>2, <1>4, <1>11, <3>1, <3>3 DEF Shape, InStep
  <2>3. CASE Len(toLaunch) = 1 /\ group # {}
    <3>1. pc' = "group" /\ toLaunch' = <<>> /\ group' = group
      BY <1>2, <1>3, <2>3
    <3>2. (Slotted \cup Launching \cup Queued \cup FailedOnes \subseteq group)'
      BY <1>3, <1>8, <2>3 DEF EngineSafe, Shape
    <3> QED
      BY <1>11, <2>3, <3>1, <3>2 DEF Shape, InStep
  <2> QED
    BY <1>2, <2>1, <2>2, <2>3
<1>13. Apart'
  <2>1. Distinct(toLaunch)' /\ Distinct(queue)' /\ Distinct(failed)'
    BY <1>2, <1>3, Primed DEF EngineSafe, Apart
  <2> QED
    BY <1>8, <1>9, <2>1 DEF EngineSafe, Apart
<1>14. SlotsOwned'
  <2>1. \A d \in active' : d.id = launches'[d.step]
    <3>1. ASSUME NEW d \in active PROVE d.id = launches'[d.step]
      <4>1. d.step \in Steps /\ d.step # h /\ d.id = launches[d.step]
        BY <1>1, <1>9 DEF Slotted, Containers, EngineSafe, SlotsOwned
      <4> QED
        BY <1>5, <4>1
    <3>2. c.id = launches'[c.step]
      BY <1>5, <1>6
    <3> QED
      BY <1>3, <3>1, <3>2
  <2>2. live' \subseteq active'
    BY <1>1, <1>3
  <2>3. ASSUME NEW x \in exits PROVE Slot(x) \notin live' /\ x.id <= launches'[x.step]
    <3>1. /\ Slot(x) \notin live /\ x.id <= launches[x.step]
          /\ Slot(x) \in Containers
      BY DEF EngineSafe, SlotsOwned, EngineType
    <3>2. x.step \in Steps /\ x.id \in Nat /\ Slot(x).id = x.id /\ Slot(x).step = x.step
      BY <3>1 DEF Slot, Containers
    <3>3. Slot(x) # c
      BY <1>6, <3>1, <3>2
    <3>4. x.id <= launches'[x.step]
      BY <1>5, <1>6, <3>1, <3>2
    <3> QED
      BY <1>3, <3>1, <3>3, <3>4
  <2>4. IsFiniteSet(active') /\ Cardinality(active') = Cardinality(active) + 1
    BY <1>1, <1>3, <1>10, FS_AddElement
  <2>5. Cardinality(active) \in Nat
    BY <1>1, FS_CardinalityType
  <2>6. Cardinality(active') + Len(toLaunch') <= run.cap
    BY <1>1, <1>2, <2>4, <2>5
  <2>7. \A x \in exits' : Slot(x) \notin live' /\ x.id <= launches'[x.step]
    BY <1>3, <2>3
  <2> QED
    BY <2>1, <2>2, <2>4, <2>6, <2>7 DEF SlotsOwned, Slot
<1>15. StatusPlaced'
  <2>1. With("running")' = With("running") \cup {h} /\ With("failed")' \subseteq With("failed") \ {h}
    BY <1>2, <1>4, <1>5 DEF With
  <2>2. With("running") \ Launching = Slotted /\ With("failed") \subseteq FailedOnes \cup Launching
    BY <1>1 DEF EngineSafe, StatusPlaced
  <2> QED
    BY <1>8, <1>9, <2>1, <2>2 DEF StatusPlaced
<1>16. DepsHeld'
  <2>1. Completed(status) \ Batch \subseteq Completed(status')
    <3>1. h \in Batch
      BY <1>8 DEF Batch
    <3> QED
      BY <1>1, <1>5, <3>1 DEF Completed
  <2>2. Completed(status)' = Completed(status')
    BY DEF Completed
  <2>3. \A s : DepsOf(run.dag, s)' = DepsOf(run.dag, s)
    BY DEF DepsOf, ToSet
  <2>4. \A s \in Batch : DepsOf(run.dag, s) \subseteq Completed(status) \ Batch
    BY DEF EngineSafe, DepsHeld
  <2> QED
    BY <1>8, <2>1, <2>2, <2>3, <2>4 DEF DepsHeld
<1>17. Counted'
  <2> SUFFICES ASSUME ~ Attended PROVE Counted'
    BY <1>4 DEF Counted
  <2>1. /\ With("cancelled") = {} /\ FailedOnes \subseteq With("failed")
        /\ Launching \cup Queued \subseteq With("pending")
        /\ \A s \in Steps : Tallied(s)
    BY <1>1 DEF EngineSafe, Counted
  <2>2. /\ With("cancelled")' = {} /\ FailedOnes' \subseteq With("failed")'
        /\ Launching' \cup Queued' \subseteq With("pending")'
    <3>1. \A s \in Steps : /\ status'[s] # "cancelled"
                           /\ s \in FailedOnes => status'[s] = "failed"
                           /\ s \in Launching' \cup Queued => status'[s] = "pending"
      BY <1>5, <1>8, <1>9, <2>1 DEF With
    <3>2. FailedOnes \subseteq Steps /\ Launching' \cup Queued \subseteq Steps
      BY <1>8, <2>1 DEF With
    <3> QED
      BY <1>4, <1>8, <3>1, <3>2 DEF With
  <2>3. ASSUME NEW s \in Steps PROVE Tallied(s)'
    <3>1. CASE s = h
      <4>1. status[s] = "pending"
        BY <1>8, <2>1, <3>1 DEF With
      <4>2. /\ launches'[s] = launches[s] + 1 /\ status'[s] = "running"
            /\ launches[s] \in Nat /\ Tallied(s)
            /\ (s \in authUsed' <=> s \in authUsed) /\ (s \in retried' <=> s \in retried)
        BY <1>3, <1>5, <1>6, <2>1, <3>1
      <4> QED
        BY <4>1, <4>2 DEF Tallied
    <3>2. CASE s # h
      BY <1>3, <1>5, <2>1, <3>2, TalliedSame
    <3> QED
      BY <3>1, <3>2
  <2> QED
    BY <1>4, <1>11, <2>2, <2>3 DEF Counted
<1>18. DependenciesFirst'
  <2>1. ASSUME NEW s \in Steps, status'[s] = "running"
        PROVE  DepsOf(run.dag, s) \subseteq Completed(status')
    <3>1. s \in Batch
      <4>1. CASE s = h
        BY <1>8, <4>1 DEF Batch
      <4>2. CASE s # h
        BY <1>1, <1>5, <2>1, <4>2, RunningSteps
      <4> QED
        BY <4>1, <4>2
    <3>2. DepsOf(run.dag, s)' \subseteq Completed(status)' \ Batch'
      BY <1>8, <1>16, <3>1 DEF DepsHeld
    <3>3. DepsOf(run.dag, s)' = DepsOf(run.dag, s) /\ Completed(status)' = Completed(status')
      BY DEF DepsOf, ToSet, Completed
    <3> QED
      BY <3>2, <3>3
  <2> QED
    BY <2>1, DepsFirst
<1> QED
  BY <1>3, <1>7, <1>12, <1>13, <1>14, <1>15, <1>16, <1>17, <1>18, NoOutcome DEF EngineSafe

----------------------------------------------------------------------------
(* A parallel group *)

\* Steps that run are over finished ones, by where they are.
LEMMA DepsFirstAfter ==
  ASSUME Running', StatusPlaced', DepsHeld'
  PROVE  DependenciesFirst'
<1>1. ASSUME NEW s \in Steps', status'[s] = "running"
      PROVE  DepsOf(run.dag, s)' \subseteq Completed(status)'
  <2>1. s \in With("running")'
    BY <1>1 DEF With
  <2>2. s \in Batch'
    BY <2>1 DEF StatusPlaced, Batch
  <2> QED
    BY <2>2 DEF DepsHeld
<1> QED
  BY <1>1 DEF DependenciesFirst

LEMMA GroupFacts ==
  ASSUME EngineType, EngineSafe, pc = "group"
  PROVE  /\ Running /\ toLaunch = <<>> /\ group # {} /\ group \subseteq Steps
         /\ Launching = {} /\ Batch = group
         /\ Slotted \subseteq group /\ Queued \subseteq group /\ FailedOnes \subseteq group
         /\ Slotted \cap Queued = {} /\ Slotted \cap FailedOnes = {}
         /\ Queued \cap FailedOnes = {}
         /\ With("running") = Slotted /\ With("failed") \subseteq FailedOnes
         /\ \A s \in group : DepsOf(run.dag, s) \subseteq Completed(status) \ group
<1>1. /\ Running /\ toLaunch = <<>> /\ group # {} /\ group \subseteq Steps
      /\ Slotted \cup Launching \cup Queued \cup FailedOnes \subseteq group
  BY DEF Running, EngineSafe, Shape, EngineType
<1>2. Launching = {}
  BY <1>1, EmptyFacts DEF Launching
<1>3. Batch = group
  BY <1>1, <1>2 DEF Batch
<1> QED
  BY <1>1, <1>2, <1>3 DEF EngineSafe, Apart, StatusPlaced, DepsHeld

\* A step s of the group gives up its slot, or has none: it has failed, waits,
\* is launched again or is over, and nothing else of the group changes but
\* that a queued step may be launched.
LEMMA GroupStep ==
  ASSUME EngineType, EngineSafe, run' = run, outcome = "none", pc = "group",
         NEW s \in group, active' = {c \in active : c.step # s},
         UNCHANGED <<launches, group, retried, ending, current>>,
         live' \subseteq active', authUsed' \subseteq Steps,
         \A t \in Steps : t # s => (t \in authUsed' <=> t \in authUsed),
         \A x \in exits' : /\ Slot(x) \in Containers /\ x.code \in Codes
                           /\ Slot(x) \notin live' /\ x.id <= launches[x.step],
         toLaunch' \in Seq(Steps), queue' \in Seq(Steps), failed' \in Seq(Steps),
         Distinct(toLaunch'), Distinct(queue'), Distinct(failed'),
         ToSet(toLaunch') \cap ToSet(queue') = {},
         ToSet(toLaunch') \cup ToSet(queue') \subseteq Queued \cup {s},
         FailedOnes \ {s} \subseteq ToSet(failed'), ToSet(failed') \subseteq FailedOnes \cup {s},
         s \in ToSet(failed') => s \notin ToSet(toLaunch') \cup ToSet(queue'),
         pc' = IF toLaunch' = <<>> THEN "group" ELSE "launch",
         Cardinality(active') + Len(toLaunch') <= run.cap,
         status' \in [Steps -> Status], \A t \in Steps : t # s => status'[t] = status[t],
         status'[s] = "running" => s \in ToSet(toLaunch'),
         status'[s] = "failed" => s \in ToSet(failed') \cup ToSet(toLaunch'),
         ~ Attended => /\ Tallied(s)' /\ status'[s] # "cancelled"
                       /\ s \in ToSet(failed') => status'[s] = "failed"
                       /\ s \in ToSet(toLaunch') \cup ToSet(queue') => status'[s] = "pending"
  PROVE  EngineType' /\ EngineSafe' /\ Honest'
<1> DEFINE L == ToSet(toLaunch') Q == ToSet(queue') F == ToSet(failed')
<1>1. /\ Steps' = Steps /\ Attended' = Attended /\ Containers' = Containers
      /\ group \subseteq Steps /\ s \in Steps
      /\ active \subseteq Containers /\ active' \subseteq active
  BY GroupFacts DEF Steps, Attended, Containers, EngineType
<1>2. /\ launches' = launches /\ group' = group /\ retried' = retried
      /\ current' = current /\ outcome' = "none"
  BY DEF ending
<1>3. EngineType'
  <2>1. /\ \A x \in exits' : Slot(x) \in Containers /\ x.code \in Codes
        /\ active' \subseteq Containers /\ live' \subseteq Containers
    BY <1>1
  <2>2. /\ run \in Runs /\ launches \in [Steps -> Nat] /\ retried \subseteq Steps
        /\ current \in Steps \cup {""}
    BY DEF EngineType
  <2> QED
    BY <1>1, <1>2, <2>1, <2>2 DEF EngineType, Slot
<1>4. /\ Launching' = L /\ Queued' = Q /\ FailedOnes' = F /\ Slotted' = Slotted \ {s}
  <2>1. Launching' = L /\ Queued' = Q /\ FailedOnes' = F
    BY Primed
  <2>2. Slotted' = Slotted \ {s}
    BY DEF Slotted
  <2> QED
    BY <2>1, <2>2
<1> HIDE DEF L, Q, F
<1>5. /\ L \cap Q = {} /\ L \cup Q \subseteq Queued \cup {s}
      /\ FailedOnes \ {s} \subseteq F /\ F \subseteq FailedOnes \cup {s}
      /\ s \in F => s \notin L \cup Q
      /\ status'[s] = "running" => s \in L
      /\ status'[s] = "failed" => s \in F \cup L
      /\ ~ Attended => /\ Tallied(s)' /\ status'[s] # "cancelled"
                       /\ s \in F => status'[s] = "failed"
                       /\ s \in L \cup Q => status'[s] = "pending"
  BY DEF L, Q, F
<1>6. Running' /\ ~ InStep' /\ pc' \in {"group", "launch"}
  BY DEF Running, InStep
<1>7. Batch' = group
  BY <1>2, <1>4, <1>5, GroupFacts DEF Batch
<1>8. Shape'
  <2>1. group' # {} /\ (Slotted \cup Launching \cup Queued \cup FailedOnes \subseteq group)'
    BY <1>2, <1>4, <1>5, GroupFacts
  <2> QED
    BY <1>6, <2>1 DEF Shape
<1>9. Apart'
  <2>1. Distinct(toLaunch)' /\ Distinct(queue)' /\ Distinct(failed)'
    BY Primed
  <2>2. /\ L \cap (Slotted \ {s}) = {} /\ L \cap F = {}
        /\ (Slotted \ {s}) \cap Q = {} /\ (Slotted \ {s}) \cap F = {} /\ Q \cap F = {}
    BY <1>5, GroupFacts
  <2> QED
    BY <1>4, <1>5, <2>1, <2>2 DEF Apart
<1>10. SlotsOwned'
  <2>1. /\ \A c \in active : c.id = launches[c.step]
        /\ IsFiniteSet(active)
    BY DEF EngineSafe, SlotsOwned
  <2>2. IsFiniteSet(active')
    BY <1>1, <2>1, FS_Subset
  <2>3. \A c \in active' : c.id = launches'[c.step]
    BY <1>1, <1>2, <2>1
  <2>4. \A x \in exits' : Slot(x) \notin live' /\ x.id <= launches'[x.step]
    BY <1>2
  <2> QED
    BY <2>2, <2>3, <2>4 DEF SlotsOwned, Slot
<1>11. StatusPlaced'
  <2>1. \A t \in Steps : t # s => (/\ status'[t] = "running" <=> t \in Slotted
                                   /\ status'[t] = "failed" => t \in FailedOnes)
    BY GroupFacts DEF With
  <2>2. Slotted \subseteq Steps
    BY <1>1, GroupFacts
  <2>3. With("running")' \ L = Slotted \ {s}
    <3>1. ASSUME NEW t \in With("running")' \ L PROVE t \in Slotted \ {s}
      BY <1>1, <1>5, <2>1, <3>1 DEF With
    <3>2. ASSUME NEW t \in Slotted \ {s} PROVE t \in With("running")' \ L
      BY <1>1, <1>5, <2>1, <2>2, <3>2, GroupFacts DEF With
    <3> QED
      BY <3>1, <3>2
  <2>4. With("failed")' \subseteq F \cup L
    BY <1>1, <1>5, <2>1 DEF With
  <2> QED
    BY <1>4, <2>3, <2>4 DEF StatusPlaced
<1>12. DepsHeld'
  <2>1. Completed(status) \ group \subseteq Completed(status')
    BY <1>1 DEF Completed, EngineType
  <2>2. Completed(status)' = Completed(status')
    BY DEF Completed
  <2>3. \A t : DepsOf(run.dag, t)' = DepsOf(run.dag, t)
    BY DEF DepsOf, ToSet
  <2>4. \A t \in group : DepsOf(run.dag, t) \subseteq Completed(status) \ group
    BY GroupFacts
  <2> QED
    BY <1>7, <2>1, <2>2, <2>3, <2>4 DEF DepsHeld
<1>13. Counted'
  <2> SUFFICES ASSUME ~ Attended PROVE Counted'
    BY <1>1 DEF Counted
  <2>1. /\ With("cancelled") = {} /\ FailedOnes \subseteq With("failed")
        /\ Queued \subseteq With("pending")
        /\ \A t \in Steps : Tallied(t)
    BY GroupFacts DEF EngineSafe, Counted
  <2>2. ASSUME NEW t \in Steps
        PROVE  /\ status'[t] # "cancelled" /\ Tallied(t)'
               /\ t \in F => status'[t] = "failed"
               /\ t \in L \cup Q => status'[t] = "pending"
    <3>1. CASE t = s
      BY <1>5, <3>1
    <3>2. CASE t # s
      <4>1. status'[t] = status[t] /\ (t \in authUsed' <=> t \in authUsed) /\ Tallied(t)
        BY <2>1, <3>2
      <4>2. Tallied(t)'
        BY <1>2, <4>1, TalliedSame
      <4>3. /\ status[t] # "cancelled" /\ (t \in FailedOnes => status[t] = "failed")
            /\ t \in Queued => status[t] = "pending"
        BY <2>1 DEF With
      <4> QED
        BY <1>5, <3>2, <4>1, <4>2, <4>3
    <3> QED
      BY <3>1, <3>2
  <2>3. F \subseteq Steps /\ L \cup Q \subseteq Steps
    BY <1>1, <1>5, GroupFacts
  <2>4. /\ With("cancelled")' = {} /\ F \subseteq With("failed")'
        /\ L \cup Q \subseteq With("pending")'
    BY <1>1, <2>2, <2>3 DEF With
  <2> QED
    BY <1>1, <1>4, <1>6, <2>2, <2>4 DEF Counted
<1>14. DependenciesFirst'
  BY <1>6, <1>11, <1>12, DepsFirstAfter
<1> QED
  BY <1>2, <1>3, <1>8, <1>9, <1>10, <1>11, <1>12, <1>13, <1>14, NoOutcome DEF EngineSafe

\* A slot of the group is its step's only one.
LEMMA SlotFacts ==
  ASSUME EngineType, EngineSafe, pc = "group", NEW c \in active
  PROVE  /\ c \in Containers /\ c.step \in group /\ c.step \in Steps
         /\ c.id = launches[c.step] /\ status[c.step] = "running"
         /\ c.step \notin Queued /\ c.step \notin FailedOnes
         /\ active \ {c} = {d \in active : d.step # c.step}
         /\ IsFiniteSet(active) /\ Cardinality(active) \in Nat
         /\ Cardinality(active \ {c}) = Cardinality(active) - 1
         /\ Cardinality(active) <= run.cap
<1>1. /\ active \subseteq Containers /\ IsFiniteSet(active)
      /\ \A d \in active : d.id = launches[d.step]
      /\ Cardinality(active) + Len(toLaunch) <= run.cap
  BY DEF EngineType, EngineSafe, SlotsOwned
<1>2. c \in Containers /\ c.step \in Steps /\ c.step \in Slotted
  BY <1>1 DEF Containers, Slotted
<1>3. /\ c.step \in group /\ status[c.step] = "running"
      /\ c.step \notin Queued /\ c.step \notin FailedOnes
  BY <1>2, GroupFacts DEF With
<1>4. ASSUME NEW d \in active, d.step = c.step PROVE d = c
  <2>1. d \in Containers /\ d.id = c.id
    BY <1>1, <1>4
  <2> QED
    BY <1>2, <1>4, <2>1 DEF Containers
<1>5. active \ {c} = {d \in active : d.step # c.step}
  BY <1>4
<1>6. Cardinality(active) \in Nat /\ Cardinality(active \ {c}) = Cardinality(active) - 1
  BY <1>1, FS_CardinalityType, FS_RemoveElement
<1>7. Len(toLaunch) = 0
  BY GroupFacts, EmptyFacts
<1>8. Cardinality(active) <= run.cap
  BY <1>1, <1>6, <1>7
<1> QED
  BY <1>1, <1>2, <1>3, <1>5, <1>6, <1>8

\* The results that are left, and that of a killed container, are of no slot
\* that is kept.
LEMMA KilledExits ==
  ASSUME EngineType, EngineSafe, exits = {}, NEW cs \in SUBSET active, Kill(cs)
  PROVE  /\ live' \subseteq active \ cs
         /\ \A x \in exits' : /\ Slot(x) \in Containers /\ x.code \in Codes
                              /\ Slot(x) \notin live' /\ x.id <= launches[x.step]
<1>1. /\ live \subseteq active /\ active \subseteq Containers
      /\ launches \in [Steps -> Nat] /\ \A c \in active : c.id = launches[c.step]
  BY DEF EngineType, EngineSafe, SlotsOwned
<1>2. live' = live \ cs /\ exits' = {Exit(c, "fail") : c \in cs \cap live}
  BY DEF Kill
<1>3. ASSUME NEW x \in exits'
      PROVE  /\ Slot(x) \in Containers /\ x.code \in Codes
             /\ Slot(x) \notin live' /\ x.id <= launches[x.step]
  <2>1. PICK c \in cs \cap live : x = Exit(c, "fail")
    BY <1>2
  <2>2. /\ c \in Containers /\ c \in active /\ c.id = launches[c.step]
        /\ launches[c.step] \in Nat
    BY <1>1, <2>1 DEF Containers
  <2>3. Slot(x) = c /\ x.code = "fail" /\ x.id = c.id /\ x.step = c.step
    BY <2>1, <2>2 DEF Exit, Slot, Containers
  <2> QED
    BY <1>2, <2>1, <2>2, <2>3 DEF Codes
<1> QED
  BY <1>1, <1>2, <1>3

\* A slot is given up for good, and a queued step may get it.
LEMMA FreeSlotSafe ==
  ASSUME EngineType, EngineSafe, run' = run, outcome = "none", pc = "group",
         NEW c \in active, NEW v \in {"succeeded", "failed"}, NEW held \in BOOLEAN,
         FreeSlot(c, v, held), authUsed' = authUsed,
         IF v = "failed" THEN held /\ failed' = Append(failed, c.step) ELSE failed' = failed,
         live' \subseteq active',
         \A x \in exits' : /\ Slot(x) \in Containers /\ x.code \in Codes
                           /\ Slot(x) \notin live' /\ x.id <= launches[x.step]
  PROVE  EngineType' /\ EngineSafe' /\ Honest'
<1> DEFINE s == c.step
<1>1. /\ s \in group /\ s \in Steps /\ status[s] = "running"
      /\ s \notin Queued /\ s \notin FailedOnes
      /\ active \ {c} = {d \in active : d.step # s}
      /\ Cardinality(active) \in Nat /\ Cardinality(active) <= run.cap
      /\ Cardinality(active \ {c}) = Cardinality(active) - 1
  BY SlotFacts
<1> HIDE DEF s
<1>2. /\ status \in [Steps -> Status] /\ v \in Status /\ toLaunch = <<>>
      /\ queue \in Seq(Steps) /\ failed \in Seq(Steps) /\ Distinct(queue) /\ Distinct(failed)
      /\ authUsed \subseteq Steps /\ run \in Runs /\ run.cap \in Nat
      /\ Queued \cap FailedOnes = {}
  BY GroupFacts, RunFacts, StatusNames DEF EngineType, EngineSafe, Apart
<1>3. /\ active' = active \ {c} /\ status' = [status EXCEPT ![s] = v]
      /\ UNCHANGED <<launches, group, retried, ending, current>>
      /\ IF queue # <<>> /\ ~held
         THEN toLaunch' = <<Head(queue)>> /\ queue' = Tail(queue) /\ pc' = "launch"
         ELSE UNCHANGED <<toLaunch, queue, pc>>
  BY DEF FreeSlot, Set, Goto, s
<1>4. /\ status' \in [Steps -> Status] /\ status'[s] = v
      /\ \A t \in Steps : t # s => status'[t] = status[t]
  BY <1>1, <1>2, <1>3
<1>5. /\ active' = {d \in active : d.step # s}
      /\ Cardinality(active') \in Nat /\ Cardinality(active') + 1 <= run.cap
  <2>1. active' = {d \in active : d.step # s} /\ Cardinality(active') = Cardinality(active \ {c})
    BY <1>1, <1>3
  <2>2. IsFiniteSet(active') /\ Cardinality(active') \in Nat
    BY <1>3, SlotFacts, FS_Subset, FS_CardinalityType
  <2>3. \A a, b, k \in Nat : b = a - 1 /\ a <= k => b + 1 <= k
    OBVIOUS
  <2>4. Cardinality(active') = Cardinality(active) - 1
    BY <1>1, <2>1
  <2> QED
    BY <1>1, <1>2, <2>1, <2>2, <2>3, <2>4
<1>6. /\ failed' \in Seq(Steps) /\ Distinct(failed')
      /\ ToSet(failed') = IF v = "failed" THEN FailedOnes \cup {s} ELSE FailedOnes
  <2>1. CASE v = "failed"
    <3>1. failed' = Append(failed, s)
      BY <2>1 DEF s
    <3> QED
      BY <1>1, <1>2, <2>1, <3>1, AppendSet DEF FailedOnes
  <2>2. CASE v # "failed"
    BY <1>2, <2>2 DEF FailedOnes
  <2> QED
    BY <2>1, <2>2
<1>7. /\ toLaunch' \in Seq(Steps) /\ queue' \in Seq(Steps)
      /\ Distinct(toLaunch') /\ Distinct(queue')
      /\ ToSet(toLaunch') \cap ToSet(queue') = {}
      /\ ToSet(toLaunch') \cup ToSet(queue') \subseteq Queued
      /\ pc' = IF toLaunch' = <<>> THEN "group" ELSE "launch"
      /\ Len(toLaunch') \in {0, 1}
  <2>1. CASE queue # <<>> /\ ~held
    <3> DEFINE h == Head(queue)
    <3>1. /\ Tail(queue) \in Seq(Steps) /\ h \in Steps /\ Distinct(Tail(queue))
          /\ Queued = ToSet(Tail(queue)) \cup {h} /\ h \notin ToSet(Tail(queue))
      BY <1>2, <2>1, TailSet DEF Queued
    <3>2. ToSet(<<h>>) = {h} /\ Distinct(<<h>>) /\ Len(<<h>>) = 1 /\ <<h>> # <<>>
      BY OneSet
    <3>3. <<h>> \in Seq(Steps)
      BY <3>1
    <3>4. toLaunch' = <<h>> /\ queue' = Tail(queue) /\ pc' = "launch"
      BY <1>3, <2>1
    <3> HIDE DEF h
    <3> QED
      BY <3>1, <3>2, <3>3, <3>4
  <2>2. CASE ~ (queue # <<>> /\ ~held)
    <3>1. toLaunch' = <<>> /\ queue' = queue /\ pc' = "group"
      BY <1>2, <1>3, <2>2
    <3> QED
      BY <1>2, <3>1, EmptyFacts, EmptyIn DEF Queued
  <2> QED
    BY <2>1, <2>2
<1>8. Cardinality(active') + Len(toLaunch') <= run.cap
  <2>1. \A a, k \in Nat, l \in {0, 1} : a + 1 <= k => a + l <= k
    OBVIOUS
  <2> QED
    BY <1>2, <1>5, <1>7, <2>1
<1>9. ASSUME ~ Attended
      PROVE  Tallied(s)'
  <2>1. Tallied(s)
    BY <1>1, <1>9 DEF EngineSafe, Counted
  <2> QED
    BY <1>3, <1>4, <2>1, TalliedSame
<1>10. s \notin ToSet(toLaunch') \cup ToSet(queue')
  BY <1>1, <1>7
<1>11. /\ FailedOnes \ {s} \subseteq ToSet(failed') /\ ToSet(failed') \subseteq FailedOnes \cup {s}
       /\ s \in ToSet(failed') => status'[s] = "failed"
       /\ status'[s] = "failed" => s \in ToSet(failed')
       /\ status'[s] \notin {"running", "cancelled"}
  BY <1>1, <1>4, <1>6
<1>12. authUsed' \subseteq Steps /\ \A t \in Steps : t # s => (t \in authUsed' <=> t \in authUsed)
  BY <1>2
<1> QED
  BY <1>1, <1>3, <1>4, <1>5, <1>6, <1>7, <1>8, <1>9, <1>10, <1>11, <1>12, GroupStep

LEMMA GroupExitsSafe ==
  ASSUME EngineType, EngineSafe, run' = run, outcome = "none", NEW x, GroupExits(x)
  PROVE  EngineType' /\ EngineSafe' /\ Honest'
<1> DEFINE c == Slot(x)
<1>1. pc = "group" /\ x \in exits /\ c \in active /\ c.step = x.step
  BY DEF GroupExits, Owned, Slot
<1>2. \/ CancelRun \/ Fail \/ Abort(TRUE)
      \/ /\ FreeSlot(c, "succeeded", Frozen)
         /\ exits' = exits \ {x} /\ UNCHANGED <<live, failed, authUsed>>
      \/ /\ x.step \notin authUsed /\ authUsed' = authUsed \cup {x.step}
         /\ Set(x.step, "pending") /\ active' = active \ {c}
         /\ toLaunch' = <<x.step>> /\ Goto("launch") /\ exits' = exits \ {x}
         /\ UNCHANGED <<launches, live, group, queue, retried, failed, ending, current>>
      \/ /\ FreeSlot(c, "failed", TRUE)
         /\ failed' = Append(failed, x.step)
         /\ exits' = exits \ {x} /\ UNCHANGED <<live, authUsed>>
  BY DEF GroupExits
<1>3. /\ live \subseteq active \ {c}
      /\ \A y \in exits : /\ Slot(y) \in Containers /\ y.code \in Codes
                          /\ Slot(y) \notin live /\ y.id <= launches[y.step]
  BY <1>1 DEF EngineType, EngineSafe, SlotsOwned
<1> HIDE DEF c
<1>4. CASE CancelRun
  BY <1>4, CancelRunSafe
<1>5. CASE Fail
  BY <1>5, FailSafe
<1>6. CASE Abort(TRUE)
  BY <1>6, AbortSafe
<1>7. CASE /\ FreeSlot(c, "succeeded", Frozen)
           /\ exits' = exits \ {x} /\ UNCHANGED <<live, failed, authUsed>>
  <2>1. active' = active \ {c} /\ Frozen \in BOOLEAN
    BY <1>7 DEF FreeSlot, Frozen
  <2>2. /\ live' \subseteq active'
        /\ \A y \in exits' : /\ Slot(y) \in Containers /\ y.code \in Codes
                             /\ Slot(y) \notin live' /\ y.id <= launches[y.step]
    BY <1>3, <1>7, <2>1
  <2> QED
    BY <1>1, <1>7, <2>1, <2>2, FreeSlotSafe
<1>8. CASE /\ FreeSlot(c, "failed", TRUE)
           /\ failed' = Append(failed, x.step)
           /\ exits' = exits \ {x} /\ UNCHANGED <<live, authUsed>>
  <2>1. active' = active \ {c}
    BY <1>8 DEF FreeSlot
  <2>2. /\ live' \subseteq active'
        /\ \A y \in exits' : /\ Slot(y) \in Containers /\ y.code \in Codes
                             /\ Slot(y) \notin live' /\ y.id <= launches[y.step]
    BY <1>3, <1>8, <2>1
  <2>3. failed' = Append(failed, c.step)
    BY <1>1, <1>8
  <2> QED
    BY <1>1, <1>8, <2>1, <2>2, <2>3, FreeSlotSafe
<1>9. CASE /\ x.step \notin authUsed /\ authUsed' = authUsed \cup {x.step}
           /\ Set(x.step, "pending") /\ active' = active \ {c}
           /\ toLaunch' = <<x.step>> /\ Goto("launch") /\ exits' = exits \ {x}
           /\ UNCHANGED <<launches, live, group, queue, retried, failed, ending, current>>
  <2> DEFINE s == x.step
  <2>1. /\ s \in group /\ s \in Steps /\ status[s] = "running"
        /\ s \notin Queued /\ s \notin FailedOnes
        /\ active \ {c} = {d \in active : d.step # s}
        /\ Cardinality(active) \in Nat /\ Cardinality(active) <= run.cap
        /\ Cardinality(active \ {c}) = Cardinality(active) - 1
    BY <1>1, SlotFacts
  <2>2. /\ status \in [Steps -> Status] /\ "pending" \in Status
        /\ queue \in Seq(Steps) /\ failed \in Seq(Steps) /\ Distinct(queue) /\ Distinct(failed)
        /\ authUsed \subseteq Steps /\ run \in Runs /\ run.cap \in Nat
    BY RunFacts, StatusNames DEF EngineType, EngineSafe, Apart
  <2>3. /\ status' = [status EXCEPT ![s] = "pending"] /\ pc' = "launch" /\ toLaunch' = <<s>>
        /\ queue' = queue /\ failed' = failed /\ authUsed' = authUsed \cup {s}
        /\ s \notin authUsed /\ active' = active \ {c}
        /\ exits' = exits \ {x} /\ live' = live
        /\ UNCHANGED <<launches, group, retried, ending, current>>
    BY <1>9 DEF Set, Goto
  <2> HIDE DEF s
  <2>4. ToSet(<<s>>) = {s} /\ Distinct(<<s>>) /\ Len(<<s>>) = 1 /\ <<s>> # <<>>
    BY OneSet
  <2>5. <<s>> \in Seq(Steps)
    BY <2>1
  <2>6. /\ status' \in [Steps -> Status] /\ status'[s] = "pending"
        /\ \A t \in Steps : t # s => status'[t] = status[t]
    BY <2>1, <2>2, <2>3
  <2>7. ASSUME ~ Attended PROVE Tallied(s)'
    <3>1. Tallied(s) /\ launches[s] \in Nat
      BY <2>1, <2>7 DEF EngineSafe, Counted, EngineType
    <3>2. /\ launches' = launches /\ s \in authUsed' /\ s \notin authUsed
          /\ (s \in retried' <=> s \in retried) /\ status[s] = "running"
      BY <2>1, <2>3
    <3> QED
      BY <3>1, <3>2 DEF Tallied
  <2>8. /\ live' \subseteq active'
        /\ \A y \in exits' : /\ Slot(y) \in Containers /\ y.code \in Codes
                             /\ Slot(y) \notin live' /\ y.id <= launches[y.step]
    BY <1>3, <2>3
  <2>9. /\ active' = {d \in active : d.step # s}
        /\ Cardinality(active') + Len(toLaunch') <= run.cap
    BY <2>1, <2>2, <2>3, <2>4
  <2>10. /\ authUsed' \subseteq Steps
         /\ \A t \in Steps : t # s => (t \in authUsed' <=> t \in authUsed)
    BY <2>1, <2>2, <2>3
  <2>11. /\ toLaunch' \in Seq(Steps) /\ queue' \in Seq(Steps) /\ failed' \in Seq(Steps)
         /\ Distinct(toLaunch') /\ Distinct(queue') /\ Distinct(failed')
         /\ ToSet(toLaunch') = {s} /\ ToSet(queue') = Queued /\ ToSet(failed') = FailedOnes
         /\ toLaunch' # <<>>
    BY <2>2, <2>3, <2>4, <2>5 DEF Queued, FailedOnes
  <2>12. /\ ToSet(toLaunch') \cap ToSet(queue') = {}
         /\ ToSet(toLaunch') \cup ToSet(queue') \subseteq Queued \cup {s}
         /\ FailedOnes \ {s} \subseteq ToSet(failed') /\ ToSet(failed') \subseteq FailedOnes \cup {s}
         /\ s \notin ToSet(failed')
         /\ pc' = IF toLaunch' = <<>> THEN "group" ELSE "launch"
    BY <2>1, <2>3, <2>11
  <2> QED
    BY <1>1, <2>1, <2>3, <2>6, <2>7, <2>8, <2>9, <2>10, <2>11, <2>12, GroupStep
<1> QED
  BY <1>2, <1>4, <1>5, <1>6, <1>7, <1>8, <1>9

LEMMA GroupAlone ==
  ASSUME EngineType, EngineSafe, run' = run, outcome = "none",
         (\E c \in active : GroupYoloAdvance(c)) \/ GroupCancelled \/ GroupDrained
  PROVE  EngineType' /\ EngineSafe' /\ Honest'
<1>1. CASE GroupCancelled
  BY <1>1, CancelRunSafe DEF GroupCancelled
<1>2. CASE \E c \in active : GroupYoloAdvance(c)
  <2>1. PICK c \in active : GroupYoloAdvance(c)
    BY <1>2
  <2>2. /\ pc = "group" /\ exits = {} /\ FreeSlot(c, "succeeded", Frozen) /\ Kill({c})
        /\ failed' = failed /\ authUsed' = authUsed /\ active' = active \ {c}
        /\ Frozen \in BOOLEAN
    BY <2>1 DEF GroupYoloAdvance, FreeSlot, Frozen
  <2>3. /\ live' \subseteq active'
        /\ \A y \in exits' : /\ Slot(y) \in Containers /\ y.code \in Codes
                             /\ Slot(y) \notin live' /\ y.id <= launches[y.step]
    BY <2>2, KilledExits
  <2> QED
    BY <2>2, <2>3, FreeSlotSafe
<1>3. CASE GroupDrained
  <2>1. /\ pc = "group" /\ active = {} /\ exits' = {} /\ group' = {} /\ queue' = <<>>
        /\ pc' = IF failed # <<>> THEN "failures" ELSE "loop"
        /\ status' = status /\ launches' = launches /\ active' = {} /\ live' = live
        /\ toLaunch' = toLaunch /\ authUsed' = authUsed /\ retried' = retried
        /\ failed' = failed /\ outcome' = "none" /\ current' = current
    BY <1>3 DEF GroupDrained, Goto, Frozen, recovery, ending
  <2>2. /\ status \in [Steps -> Status] /\ authUsed \subseteq Steps /\ retried \subseteq Steps
        /\ failed \in Seq(Steps) /\ Distinct(failed) /\ run \in Runs
        /\ current \in Steps \cup {""} /\ live = {} /\ toLaunch = <<>>
    BY <2>1, GroupFacts DEF EngineType, EngineSafe, Apart, SlotsOwned
  <2>3. NoBatch'
    BY <2>1, <2>2 DEF NoBatch
  <2>4. Slotted = {}
    BY <2>1 DEF Slotted
  <2>5. \A s \in Steps : /\ status'[s] # "running"
                         /\ status'[s] = "failed" => s \in ToSet(failed')
    BY <2>1, <2>4, GroupFacts DEF With, FailedOnes
  <2>6. ASSUME ~ Attended, NEW s \in Steps
        PROVE  /\ status'[s] # "cancelled" /\ Tallied(s)'
               /\ s \in ToSet(failed') => status'[s] = "failed"
    <3>1. /\ Tallied(s) /\ With("cancelled") = {} /\ FailedOnes \subseteq With("failed")
      BY <2>1, <2>6, GroupFacts DEF EngineSafe, Counted
    <3>2. Tallied(s)'
      BY <2>1, <3>1, TalliedSame
    <3> QED
      BY <2>1, <3>1, <3>2 DEF With, FailedOnes
  <2>7. Counted'
    BY <2>1, <2>2, <2>3, <2>6, CountedRests
  <2>8. EngineType' /\ EngineSafe'
    BY <2>1, <2>2, <2>3, <2>5, <2>7, Rests
  <2> QED
    BY <2>1, <2>8, NoOutcome
<1> QED
  BY <1>1, <1>2, <1>3

\* restart_parallel_step: a user takes one step of the group from wherever it is.
LEMMA RestartOneSafe ==
  ASSUME EngineType, EngineSafe, run' = run, outcome = "none", Attended,
         pc = "group", exits = {}, NEW s \in group, RestartOne(s)
  PROVE  EngineType' /\ EngineSafe' /\ Honest'
<1> DEFINE mine == {c \in active : c.step = s}
           others == Steps \ {s}
           rest == Kept(queue, others)
           left == Kept(failed, others)
<1>1. /\ Kill(mine) /\ active' = active \ mine /\ failed' = left
      /\ UNCHANGED <<launches, group, authUsed, retried, ending, current>>
      /\ \/ /\ Cardinality(active \ mine) < run.cap /\ toLaunch' = <<s>> /\ queue' = rest
            /\ pc' = "launch" /\ status' = status
         \/ /\ queue' = <<s>> \o rest /\ status' = [status EXCEPT ![s] = "pending"]
            /\ toLaunch' = toLaunch /\ pc' = pc
  BY DEF RestartOne, Goto, Set
<1>2. /\ s \in Steps /\ toLaunch = <<>> /\ queue \in Seq(Steps) /\ failed \in Seq(Steps)
      /\ Distinct(queue) /\ Distinct(failed) /\ Queued \subseteq Steps
      /\ Queued \cap FailedOnes = {} /\ status \in [Steps -> Status] /\ "pending" \in Status
      /\ authUsed \subseteq Steps /\ run.cap \in Nat
      /\ Queued \subseteq Steps /\ FailedOnes \subseteq Steps
  BY GroupFacts, RunFacts, StatusNames DEF EngineType, EngineSafe, Apart
<1>3. /\ active \ mine = {c \in active : c.step # s} /\ mine \in SUBSET active
      /\ \A c \in active \ mine : c \in active
  OBVIOUS
<1>4. /\ rest \in Seq(Steps) /\ Distinct(rest) /\ ToSet(rest) = Queued \ {s}
      /\ left \in Seq(Steps) /\ Distinct(left) /\ ToSet(left) = FailedOnes \ {s}
  <2>1. /\ rest \in Seq(Steps) /\ Distinct(rest) /\ ToSet(rest) = ToSet(queue) \cap others
    BY <1>2, KeptFacts
  <2>2. /\ left \in Seq(Steps) /\ Distinct(left) /\ ToSet(left) = ToSet(failed) \cap others
    BY <1>2, KeptFacts
  <2>3. Queued \cap others = Queued \ {s} /\ FailedOnes \cap others = FailedOnes \ {s}
    BY <1>2
  <2> QED
    BY <2>1, <2>2, <2>3 DEF Queued, FailedOnes
<1>5. /\ live' \subseteq active \ mine
      /\ \A y \in exits' : /\ Slot(y) \in Containers /\ y.code \in Codes
                           /\ Slot(y) \notin live' /\ y.id <= launches[y.step]
  BY <1>1, <1>3, KilledExits
<1>6. /\ Cardinality(active \ mine) \in Nat /\ Cardinality(active \ mine) <= run.cap
  <2>1. IsFiniteSet(active) /\ Cardinality(active) + Len(toLaunch) <= run.cap
    BY DEF EngineSafe, SlotsOwned
  <2>2. Cardinality(active) \in Nat /\ Len(toLaunch) = 0
    BY <1>2, <2>1, EmptyFacts, FS_CardinalityType
  <2>3. /\ IsFiniteSet(active \ mine) /\ Cardinality(active \ mine) <= Cardinality(active)
    BY <1>3, <2>1, FS_Subset
  <2>4. Cardinality(active \ mine) \in Nat
    BY <2>3, FS_CardinalityType
  <2>5. \A a, b, k \in Nat : b <= a /\ a + 0 <= k => b <= k
    OBVIOUS
  <2> QED
    BY <1>2, <2>1, <2>2, <2>3, <2>4, <2>5
<1> HIDE DEF mine, rest, left
<1>7. /\ active' = {c \in active : c.step # s} /\ live' \subseteq active'
      /\ failed' \in Seq(Steps) /\ Distinct(failed') /\ ToSet(failed') = FailedOnes \ {s}
  BY <1>1, <1>3, <1>4, <1>5
<1>8. ToSet(<<s>>) = {s} /\ Distinct(<<s>>) /\ Len(<<s>>) = 1 /\ <<s>> # <<>>
  BY OneSet
<1>9. ToSet(<<>>) = {} /\ Distinct(<<>>) /\ Len(<<>>) = 0 /\ <<>> \in Seq(Steps)
  BY EmptyFacts, EmptyIn
<1>10. <<s>> \in Seq(Steps)
  BY <1>2
<1>11. \A t \in Steps : t # s => (t \in authUsed' <=> t \in authUsed)
  BY <1>1
<1>12. CASE /\ Cardinality(active \ mine) < run.cap /\ toLaunch' = <<s>> /\ queue' = rest
            /\ pc' = "launch" /\ status' = status
  <2>1. Cardinality(active') + Len(toLaunch') <= run.cap
    <3>1. Cardinality(active') = Cardinality(active \ mine) /\ Len(toLaunch') = 1
      BY <1>1, <1>8, <1>12
    <3>2. \A a, k \in Nat : a < k => a + 1 <= k
      OBVIOUS
    <3> QED
      BY <1>2, <1>6, <1>12, <3>1, <3>2
  <2>2. /\ toLaunch' \in Seq(Steps) /\ queue' \in Seq(Steps)
        /\ Distinct(toLaunch') /\ Distinct(queue')
        /\ ToSet(toLaunch') = {s} /\ ToSet(queue') = Queued \ {s}
        /\ pc' = IF toLaunch' = <<>> THEN "group" ELSE "launch"
    BY <1>4, <1>8, <1>10, <1>12
  <2>3. /\ ToSet(toLaunch') \cap ToSet(queue') = {}
        /\ ToSet(toLaunch') \cup ToSet(queue') \subseteq Queued \cup {s}
        /\ FailedOnes \ {s} \subseteq ToSet(failed') /\ ToSet(failed') \subseteq FailedOnes \cup {s}
        /\ s \notin ToSet(failed') /\ s \in ToSet(toLaunch')
    BY <1>7, <2>2
  <2>4. /\ status' \in [Steps -> Status] /\ \A t \in Steps : t # s => status'[t] = status[t]
    BY <1>2, <1>12
  <2> QED
    BY <1>1, <1>2, <1>5, <1>7, <1>11, <2>1, <2>2, <2>3, <2>4, GroupStep
<1>13. CASE /\ queue' = <<s>> \o rest /\ status' = [status EXCEPT ![s] = "pending"]
            /\ toLaunch' = toLaunch /\ pc' = pc
  <2>1. Cardinality(active') + Len(toLaunch') <= run.cap
    <3>1. Cardinality(active') = Cardinality(active \ mine) /\ Len(toLaunch') = 0
      BY <1>1, <1>2, <1>9, <1>13
    <3>2. \A a, k \in Nat : a <= k => a + 0 <= k
      OBVIOUS
    <3> QED
      BY <1>2, <1>6, <3>1, <3>2
  <2>2. /\ queue' \in Seq(Steps) /\ ToSet(queue') = Queued \cup {s} /\ Distinct(queue')
    <3>1. /\ <<s>> \o rest \in Seq(Steps)
          /\ ToSet(<<s>> \o rest) = (Queued \ {s}) \cup {s}
          /\ Distinct(<<s>> \o rest)
      BY <1>2, <1>4, ConsSet
    <3> QED
      BY <1>13, <3>1
  <2>3. /\ toLaunch' \in Seq(Steps) /\ Distinct(toLaunch') /\ ToSet(toLaunch') = {}
        /\ pc' = IF toLaunch' = <<>> THEN "group" ELSE "launch"
    BY <1>2, <1>9, <1>13
  <2>4. /\ ToSet(toLaunch') \cap ToSet(queue') = {}
        /\ ToSet(toLaunch') \cup ToSet(queue') \subseteq Queued \cup {s}
        /\ FailedOnes \ {s} \subseteq ToSet(failed') /\ ToSet(failed') \subseteq FailedOnes \cup {s}
        /\ s \notin ToSet(failed')
    BY <1>7, <2>2, <2>3
  <2>5. /\ status' \in [Steps -> Status] /\ \A t \in Steps : t # s => status'[t] = status[t]
        /\ status'[s] = "pending"
    BY <1>2, <1>13
  <2> QED
    BY <1>1, <1>2, <1>5, <1>7, <1>11, <2>1, <2>2, <2>3, <2>4, <2>5, GroupStep
<1> QED
  BY <1>1, <1>12, <1>13

LEMMA GroupBoardSafe ==
  ASSUME EngineType, EngineSafe, outcome = "none", NEW a, GroupBoard(a)
  PROVE  EngineType' /\ EngineSafe' /\ Honest'
<1> DEFINE back == DependenciesOf(run.dag, group)
<1>1. run' = run /\ Attended /\ pc = "group" /\ exits = {}
  BY DEF GroupBoard, Answer
<1>2. /\ status \in [Steps -> Status] /\ {"pending", "skipped"} \subseteq Status
      /\ \A s \in Steps : /\ status[s] = "running" => s \in Slotted /\ s \in group
                          /\ status[s] = "failed" => s \in group
  BY <1>1, GroupFacts, StatusNames DEF EngineType, With
<1>3. \/ \E X : group \subseteq X /\ Proceed(SetAll(status, X, "pending"))
      \/ Proceed(SetAll(status, group \ {s \in group : status[s] = "succeeded"}, "skipped"))
      \/ \E s \in group : RestartOne(s)
      \/ Pause(Slotted) \/ Abort(TRUE)
  <2>1. \/ Proceed(SetAll(status, group, "pending"))
        \/ Proceed(SetAll(status, back \cup DependentsOf(run.dag, back) \cup group, "pending"))
        \/ Proceed(SetAll(status, group \ {s \in group : status[s] = "succeeded"}, "skipped"))
        \/ \E s \in group : RestartOne(s)
        \/ Pause(Slotted) \/ Abort(TRUE)
    BY DEF GroupBoard, Slotted
  <2> DEFINE D == DependentsOf(run.dag, back)
  <2>2. group \subseteq back \cup D \cup group
    OBVIOUS
  <2> HIDE DEF D, back
  <2> QED
    BY <2>1, <2>2 DEF D
<1>4. CASE \E X : group \subseteq X /\ Proceed(SetAll(status, X, "pending"))
  <2>1. PICK X : group \subseteq X /\ Proceed(SetAll(status, X, "pending"))
    BY <1>4
  <2> DEFINE st == SetAll(status, X, "pending")
  <2>2. /\ st \in [Steps -> Status]
        /\ \A s \in Steps : st[s] = IF s \in X THEN "pending" ELSE status[s]
    BY <1>2, SetAllFacts
  <2>3. Proceed(st)
    BY <2>1
  <2> HIDE DEF st
  <2>4. \A s \in Steps : st[s] \notin {"running", "failed"}
    BY <1>2, <2>1, <2>2
  <2> QED
    BY <1>1, <2>2, <2>3, <2>4, ProceedSafe
<1>5. CASE Proceed(SetAll(status, group \ {s \in group : status[s] = "succeeded"}, "skipped"))
  <2> DEFINE X == group \ {s \in group : status[s] = "succeeded"}
             st == SetAll(status, X, "skipped")
  <2>1. /\ st \in [Steps -> Status]
        /\ \A s \in Steps : st[s] = IF s \in X THEN "skipped" ELSE status[s]
    BY <1>2, SetAllFacts
  <2>2. Proceed(st)
    BY <1>5
  <2>3. \A s \in Steps : status[s] \in {"running", "failed"} => s \in X
    BY <1>2
  <2> HIDE DEF st, X
  <2>4. \A s \in Steps : st[s] \notin {"running", "failed"}
    BY <2>1, <2>3
  <2> QED
    BY <1>1, <2>1, <2>2, <2>4, ProceedSafe
<1>6. CASE \E s \in group : RestartOne(s)
  BY <1>1, <1>6, RestartOneSafe
<1>7. CASE Pause(Slotted)
  BY <1>1, <1>2, <1>7, PauseSafe
<1>8. CASE Abort(TRUE)
  BY <1>1, <1>8, AbortSafe
<1> QED
  BY <1>3, <1>4, <1>5, <1>6, <1>7, <1>8

\* A container ends, or a result that nobody waits for is dropped.
LEMMA ExitsOnly ==
  ASSUME EngineType, EngineSafe, run' = run, outcome = "none",
         active # {} \/ pc = "group",
         UNCHANGED <<status, launches, active, batch, recovery, ending, current, pc>>,
         live' \subseteq live,
         \A x \in exits' : /\ Slot(x) \in Containers /\ x.code \in Codes
                           /\ Slot(x) \notin live' /\ x.id <= launches[x.step]
  PROVE  EngineType' /\ EngineSafe' /\ Honest'
<1>1. Steps' = Steps /\ Attended' = Attended /\ Containers' = Containers
  BY DEF Steps, Attended, Containers
<1>2. /\ status' = status /\ launches' = launches /\ active' = active
      /\ group' = group /\ queue' = queue /\ toLaunch' = toLaunch
      /\ authUsed' = authUsed /\ retried' = retried /\ failed' = failed
      /\ current' = current /\ outcome' = "none" /\ pc' = pc
  BY DEF batch, recovery, ending
<1>3. /\ live' \subseteq active /\ live' \subseteq Containers
  BY DEF EngineType, EngineSafe, SlotsOwned
<1>4. EngineType'
  <2>1. \A x \in exits' : Slot(x) \in Containers' /\ x.code \in Codes
    BY <1>1
  <2> QED
    BY <1>1, <1>2, <1>3, <2>1 DEF EngineType, Slot
<1>5. /\ Launching' = Launching /\ Queued' = Queued /\ Slotted' = Slotted
      /\ FailedOnes' = FailedOnes /\ Batch' = Batch
  BY <1>2, Primed DEF Launching, Queued, Slotted, FailedOnes, Batch
<1>6. /\ Running /\ Running' /\ (InStep' <=> InStep)
      /\ pc \notin {"loop", "between", "failures", "retry"}
  <2>1. pc # "group" => active # {}
    OBVIOUS
  <2>2. ~ Running \/ pc \in {"loop", "between", "failures", "retry"} => pc # "group" /\ active = {}
    BY DEF EngineSafe, Shape, NoBatch, Running
  <2> QED
    BY <1>2, <2>1, <2>2 DEF Running, InStep
<1>7. Shape'
  BY <1>1, <1>2, <1>5, <1>6 DEF EngineSafe, Shape, Container, InStep
<1>8. Apart'
  BY <1>2, <1>5, Primed DEF EngineSafe, Apart
<1>9. SlotsOwned'
  <2>1. \A x \in exits' : Slot(x) \notin live' /\ x.id <= launches'[x.step]
    BY <1>2
  <2> QED
    BY <1>2, <1>3, <2>1 DEF EngineSafe, SlotsOwned, Slot
<1>10. StatusPlaced'
  BY <1>1, <1>2, <1>5, <1>6 DEF EngineSafe, StatusPlaced, With
<1>11. DepsHeld'
  <2>1. Completed(status)' = Completed(status)
    BY <1>2 DEF Completed
  <2>2. \A s : DepsOf(run.dag, s)' = DepsOf(run.dag, s)
    BY DEF DepsOf, ToSet
  <2> QED
    BY <1>5, <2>1, <2>2 DEF EngineSafe, DepsHeld
<1>12. Counted'
  <2>1. \A v : With(v)' = With(v)
    BY <1>1, <1>2 DEF With
  <2>2. ASSUME ~ Attended, NEW s \in Steps PROVE Tallied(s)'
    BY <1>2, <2>2, TalliedSame DEF EngineSafe, Counted
  <2>3. ~ Attended => /\ With("cancelled") = {} /\ FailedOnes \subseteq With("failed")
                      /\ Launching \cup Queued \subseteq With("pending")
    BY <1>6 DEF EngineSafe, Counted
  <2> QED
    BY <1>1, <1>2, <1>5, <1>6, <2>1, <2>2, <2>3 DEF Counted
<1>13. DependenciesFirst'
  BY <1>2, DepsFirst DEF EngineSafe, DependenciesFirst
<1> QED
  BY <1>2, <1>4, <1>7, <1>8, <1>9, <1>10, <1>11, <1>12, <1>13, NoOutcome DEF EngineSafe

LEMMA ContainersEnd ==
  ASSUME EngineType, EngineSafe, run' = run, outcome = "none",
         (\E c \in live : ContainerExits(c)) \/ (\E x \in exits : DropStale(x))
  PROVE  EngineType' /\ EngineSafe' /\ Honest'
<1>1. /\ live \subseteq active /\ active \subseteq Containers
      /\ launches \in [Steps -> Nat] /\ \A c \in active : c.id = launches[c.step]
      /\ \A y \in exits : /\ Slot(y) \in Containers /\ y.code \in Codes
                          /\ Slot(y) \notin live /\ y.id <= launches[y.step]
  BY DEF EngineType, EngineSafe, SlotsOwned
<1>2. CASE \E c \in live : ContainerExits(c)
  <2>1. PICK c \in live, code \in Codes :
          /\ live' = live \ {c} /\ exits' = exits \cup {Exit(c, code)}
          /\ UNCHANGED <<status, launches, active, batch, recovery, ending, current, pc>>
    BY <1>2 DEF ContainerExits, Codes
  <2>2. /\ c \in Containers /\ c.id = launches[c.step] /\ launches[c.step] \in Nat
        /\ active # {}
    BY <1>1 DEF Containers
  <2>3. /\ Slot(Exit(c, code)) = c /\ Exit(c, code).code = code
        /\ Exit(c, code).id = c.id /\ Exit(c, code).step = c.step
    BY <2>2 DEF Exit, Slot, Containers
  <2>4. \A x \in exits' : /\ Slot(x) \in Containers /\ x.code \in Codes
                          /\ Slot(x) \notin live' /\ x.id <= launches[x.step]
    <3>1. ASSUME NEW x \in exits'
          PROVE  /\ Slot(x) \in Containers /\ x.code \in Codes
                 /\ Slot(x) \notin live' /\ x.id <= launches[x.step]
      <4>1. CASE x \in exits
        BY <1>1, <2>1, <4>1
      <4>2. CASE x = Exit(c, code)
        <5>1. Slot(x) = c /\ x.code = code /\ x.id = c.id /\ x.step = c.step
          BY <2>3, <4>2
        <5> QED
          BY <2>1, <2>2, <5>1
      <4> QED
        BY <2>1, <4>1, <4>2
    <3> QED
      BY <3>1
  <2> QED
    BY <2>1, <2>2, <2>4, ExitsOnly
<1>3. CASE \E x \in exits : DropStale(x)
  <2>1. PICK x \in exits : DropStale(x)
    BY <1>3
  <2>2. /\ pc = "group" /\ exits' = exits \ {x} /\ live' = live
        /\ UNCHANGED <<status, launches, active, batch, recovery, ending, current, pc>>
    BY <2>1 DEF DropStale
  <2> QED
    BY <1>1, <2>2, ExitsOnly
<1> QED
  BY <1>2, <1>3

----------------------------------------------------------------------------
(* The main phase *)

MainPlaces == {"loop", "launch", "single", "countdown", "between", "group", "failures",
               "retry", "ended"}

\* What the main phase does to what is around it.
Outline ==
  /\ pc' \in MainPlaces /\ aborted' \in BOOLEAN
  /\ outcome' \in {outcome, "completed", "cancelled", "aborted", "paused", "failed", "error"}

LEMMA EndOutline ==
  ASSUME aborted \in BOOLEAN,
         NEW o \in {"completed", "cancelled", "aborted", "paused", "failed", "error"},
         End(o), aborted' \in BOOLEAN
  PROVE  Outline
  BY DEF End, Outline, MainPlaces

LEMMA Endings ==
  ASSUME aborted \in BOOLEAN,
         \/ CancelRun \/ Abort(TRUE) \/ Abort(FALSE) \/ Fail \/ FinishWorkflow
         \/ \E X : Pause(X)
  PROVE  Outline
<1>1. CASE CancelRun
  BY <1>1, EndOutline DEF CancelRun
<1>2. CASE Abort(TRUE) \/ Abort(FALSE)
  <2>1. End("aborted") /\ aborted' \in BOOLEAN
    BY <1>2 DEF Abort
  <2> QED
    BY <2>1, EndOutline
<1>3. CASE Fail
  BY <1>3, EndOutline DEF Fail
<1>4. CASE FinishWorkflow
  BY <1>4, EndOutline DEF FinishWorkflow
<1>5. CASE \E X : Pause(X)
  BY <1>5, EndOutline DEF Pause
<1> QED
  BY <1>1, <1>2, <1>3, <1>4, <1>5

LEMMA GoesOn ==
  ASSUME aborted \in BOOLEAN, UNCHANGED ending, pc' \in MainPlaces
  PROVE  Outline
  BY DEF ending, Outline

LEMMA ProceedOutline ==
  ASSUME aborted \in BOOLEAN, NEW st, Proceed(st)
  PROVE  Outline
  BY GoesOn DEF Proceed, Goto, MainPlaces

LEMMA EngineOutline ==
  ASSUME aborted \in BOOLEAN, Running, EngineStep \/ EngineEvent \/ AgentEnds
  PROVE  Outline
<1>1. CASE Loop
  <2>1. \/ CancelRun \/ Fail
        \/ End("completed") /\ UNCHANGED <<status, aborted>>
        \/ Goto("launch") /\ UNCHANGED ending
    BY <1>1 DEF Loop
  <2> QED
    BY <2>1, Endings, EndOutline, GoesOn DEF Goto, MainPlaces
<1>2. CASE LaunchStep
  BY <1>2, GoesOn DEF LaunchStep, Goto, MainPlaces
<1>3. CASE LaunchFails
  BY <1>3, EndOutline DEF LaunchFails
<1>4. CASE StepSucceeds
  BY <1>4, GoesOn DEF StepSucceeds, Goto, MainPlaces
<1>5. CASE StepFails
  <2>1. \/ CancelRun \/ Abort(TRUE)
        \/ Goto("loop") /\ UNCHANGED ending
        \/ Goto("failures") /\ UNCHANGED ending
    BY <1>5 DEF StepFails
  <2> QED
    BY <2>1, Endings, GoesOn DEF Goto, MainPlaces
<1>6. CASE StepWaitFails \/ StepCancelled
  BY <1>6, Endings DEF StepWaitFails, StepCancelled
<1>7. CASE CountdownStops \/ StepStuck
  BY <1>7, GoesOn DEF CountdownStops, StepStuck, Goto, MainPlaces
<1>8. CASE CountdownExpires \/ StuckUnattended
  BY <1>8, GoesOn DEF CountdownExpires, StuckUnattended, StepPassed, Goto, MainPlaces
<1>9. CASE BetweenAdvance
  BY <1>9, Endings, ProceedOutline DEF BetweenAdvance
<1>10. CASE (\E x \in exits : DropStale(x)) \/ (\E c \in live : ContainerExits(c))
  <2>1. UNCHANGED ending /\ pc' = pc
    BY <1>10 DEF DropStale, ContainerExits
  <2> QED
    BY <2>1, GoesOn DEF Running, MainPlaces
<1>11. CASE \E x \in exits : GroupExits(x)
  <2>1. PICK x : GroupExits(x)
    BY <1>11
  <2>2. \/ CancelRun \/ Fail \/ Abort(TRUE)
        \/ FreeSlot(Slot(x), "succeeded", Frozen)
        \/ FreeSlot(Slot(x), "failed", TRUE)
        \/ Goto("launch") /\ UNCHANGED ending
    BY <2>1 DEF GroupExits
  <2> QED
    BY <2>2, Endings, GoesOn DEF FreeSlot, Goto, Running, MainPlaces
<1>12. CASE GroupCancelled \/ FailureCancelled
  BY <1>12, Endings DEF GroupCancelled, FailureCancelled
<1>13. CASE GroupDrained
  BY <1>13, GoesOn DEF GroupDrained, Goto, MainPlaces
<1>14. CASE FailureUnattended
  <2>1. \/ End("failed") /\ UNCHANGED aborted
        \/ Goto("retry") /\ UNCHANGED ending
    BY <1>14 DEF FailureUnattended
  <2> QED
    BY <2>1, EndOutline, GoesOn DEF Goto, MainPlaces
<1>15. CASE RetryFailed
  BY <1>15, GoesOn DEF RetryFailed, NextFailure, Goto, MainPlaces
<1>16. CASE \E c \in active : GroupYoloAdvance(c)
  BY <1>16, GoesOn DEF GroupYoloAdvance, FreeSlot, Goto, Running, MainPlaces
<1> QED
  BY <1>1, <1>2, <1>3, <1>4, <1>5, <1>6, <1>7, <1>8, <1>9, <1>10, <1>11, <1>12, <1>13,
     <1>14, <1>15, <1>16 DEF EngineStep, EngineEvent, AgentEnds

LEMMA UserOutline ==
  ASSUME aborted \in BOOLEAN, Running, UserAnswers
  PROVE  Outline
<1> PICK a \in Answers : MidStepBoard(a) \/ BetweenBoard(a) \/ GroupBoard(a) \/ FailureBoard(a)
  BY DEF UserAnswers
<1>1. CASE MidStepBoard(a)
  <2>1. \/ \E st : Proceed(st)
        \/ FinishWorkflow \/ (\E X : Pause(X)) \/ Abort(FALSE)
    BY <1>1 DEF MidStepBoard
  <2> QED
    BY <2>1, Endings, ProceedOutline
<1>2. CASE BetweenBoard(a)
  <2>1. \/ \E st : Proceed(st)
        \/ FinishWorkflow \/ (\E X : Pause(X)) \/ Abort(FALSE) \/ Fail
    BY <1>2 DEF BetweenBoard
  <2> QED
    BY <2>1, Endings, ProceedOutline
<1>3. CASE GroupBoard(a)
  <2>1. \/ \E st : Proceed(st)
        \/ \E s : RestartOne(s)
        \/ (\E X : Pause(X)) \/ Abort(TRUE)
    BY <1>3 DEF GroupBoard
  <2>2. CASE \E s : RestartOne(s)
    BY <2>2, GoesOn DEF RestartOne, Goto, Running, MainPlaces
  <2> QED
    BY <2>1, <2>2, Endings, ProceedOutline
<1>4. CASE FailureBoard(a)
  <2>1. NextFailure \/ (\E X : Pause(X)) \/ Abort(FALSE)
    BY <1>4 DEF FailureBoard
  <2> QED
    BY <2>1, Endings, GoesOn DEF NextFailure, Goto, MainPlaces
<1> QED
  BY <1>1, <1>2, <1>3, <1>4

\* The main phase's steps are taken while it runs, and an answer is counted.
LEMMA MainRuns ==
  ASSUME EngineType, EngineSafe, MainPhase
  PROVE  /\ Running /\ run' = run /\ cancel' = cancel
         /\ answers' = answers \/ (answers < run.board /\ answers' = answers + 1)
<1>1. CASE EngineStep \/ EngineEvent
  <2>1. UNCHANGED fixed
    BY <1>1 DEF EngineStep, EngineEvent
  <2>2. Running
    BY <1>1 DEF EngineStep, EngineEvent, Running, InStep, Silent, Loop, LaunchStep,
       LaunchFails, StepSucceeds, StepFails, StepWaitFails, StepCancelled, CountdownStops,
       CountdownExpires, BetweenAdvance, DropStale, GroupExits, GroupCancelled,
       GroupDrained, FailureCancelled, FailureUnattended, RetryFailed, StepStuck,
       StuckUnattended, GroupYoloAdvance
  <2> QED
    BY <2>1, <2>2 DEF fixed
<1>2. CASE AgentEnds
  <2>1. live # {} /\ live \subseteq active /\ UNCHANGED fixed
    BY <1>2 DEF AgentEnds, EngineSafe, SlotsOwned
  <2>2. Running
    BY <2>1 DEF EngineSafe, Shape, NoBatch
  <2> QED
    BY <2>1, <2>2 DEF fixed
<1>3. CASE UserAnswers
  <2>1. PICK a : MidStepBoard(a) \/ BetweenBoard(a) \/ GroupBoard(a) \/ FailureBoard(a)
    BY <1>3 DEF UserAnswers
  <2>2. Answer(a) /\ Running
    BY <2>1 DEF MidStepBoard, BetweenBoard, GroupBoard, FailureBoard, Running, InStep
  <2> QED
    BY <2>2 DEF Answer
<1> QED
  BY <1>1, <1>2, <1>3 DEF MainPhase

LEMMA MainSafe ==
  ASSUME EngineType, EngineSafe, Honest, MainPhase
  PROVE  EngineType' /\ EngineSafe' /\ Honest'
<1>1. run' = run /\ outcome = "none"
  BY MainRuns DEF Honest
<1>2. CASE EngineStep
  <2>1. CASE Loop
    BY <1>1, <2>1, LoopSafe
  <2>2. CASE LaunchStep
    BY <1>1, <2>2, LaunchSafe
  <2>3. CASE \/ StepSucceeds \/ StepFails \/ StepWaitFails \/ StepCancelled
             \/ CountdownStops \/ CountdownExpires
    BY <1>1, <2>3, SingleStep
  <2>4. CASE BetweenAdvance
    BY <1>1, <2>4, Between
  <2>5. CASE \E x \in exits : DropStale(x)
    BY <1>1, <2>5, ContainersEnd
  <2>6. CASE \E x \in exits : GroupExits(x)
    BY <1>1, <2>6, GroupExitsSafe
  <2>7. CASE GroupCancelled \/ GroupDrained
    BY <1>1, <2>7, GroupAlone
  <2>8. CASE FailureCancelled \/ FailureUnattended \/ RetryFailed
    BY <1>1, <2>8, Failures
  <2> QED
    BY <1>2, <2>1, <2>2, <2>3, <2>4, <2>5, <2>6, <2>7, <2>8 DEF EngineStep
<1>3. CASE EngineEvent
  <2>1. CASE LaunchFails
    BY <1>1, <2>1, LaunchFailsSafe
  <2>2. CASE StepStuck \/ StuckUnattended \/ CountdownStops
    BY <1>1, <2>2, SingleStep
  <2>3. CASE \E c \in active : GroupYoloAdvance(c)
    BY <1>1, <2>3, GroupAlone
  <2> QED
    BY <1>3, <2>1, <2>2, <2>3 DEF EngineEvent
<1>4. CASE AgentEnds
  BY <1>1, <1>4, ContainersEnd DEF AgentEnds
<1>5. CASE UserAnswers
  <2>1. PICK a : MidStepBoard(a) \/ BetweenBoard(a) \/ GroupBoard(a) \/ FailureBoard(a)
    BY <1>5 DEF UserAnswers
  <2>2. CASE MidStepBoard(a)
    BY <1>1, <2>2, MidStep
  <2>3. CASE BetweenBoard(a)
    BY <1>1, <2>3, Between
  <2>4. CASE GroupBoard(a)
    BY <1>1, <2>4, GroupBoardSafe
  <2>5. CASE FailureBoard(a)
    BY <1>1, <2>5, Failures
  <2> QED
    BY <2>1, <2>2, <2>3, <2>4, <2>5
<1> QED
  BY <1>2, <1>3, <1>4, <1>5 DEF MainPhase
=============================================================================
