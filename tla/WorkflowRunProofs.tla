-------------------------- MODULE WorkflowRunProofs --------------------------
(***************************************************************************)
(* The safety of a workflow run, proved for every graph, cap, plan of the  *)
(* phases, crash bound and number of runs: WorkflowRun's invariants on     *)
(* steps, slots, retries and outcomes, and what its steps never do to the  *)
(* queue and to the cleanup.                                               *)
(*                                                                         *)
(* The invariant is Safe: the engine's part (WorkflowEngineProofs), what   *)
(* the statuses are before the main phase (Waiting), where teardown is in  *)
(* its entries (Cleaning), what a cancel leaves to publish (Publishing),   *)
(* and what an outcome says of the steps (Honest).                         *)
(***************************************************************************)
EXTENDS WorkflowEngineProofs

\* Before the main phase each step is done or waits.
Waiting == Beginning => \A s \in Steps : status[s] \in Done \cup {"pending"}

Cleaned == pc \in {"teardown", "begin", "teardownRun", "agent", "republish"}

\* Teardown goes through its entries in order.
Cleaning ==
  /\ pc = "setup" => at \in 1..(SetupSteps + 1)
  /\ pc = "setupRun" => at \in 1..SetupSteps
  /\ pc = "teardown" => at \in 1..(Len(Teardown) + 1)
  /\ pc \in {"begin", "teardownRun", "agent", "republish"} => at \in DOMAIN Teardown
  /\ pc \in {"begin", "teardownRun"} => teardown[at] = "running"
  /\ pc \in {"agent", "republish"} => teardown[at] = "remediating"
  /\ Cleaned /\ cleanup # "recovery" =>
       \A i \in DOMAIN Teardown :
         i > at \/ (i = at /\ pc = "teardown") => teardown[i] = "pending"

HistoryType == inHand \subseteq DOMAIN Teardown /\ late \in Seq(DOMAIN Teardown)

\* After a cancel, a step that was past its check begins once, whatever is
\* still to begin has not begun, and the steps repeated for a poll precede it.
Publishing ==
  /\ HistoryType
  /\ ~ cancel => inHand = {} /\ late = <<>>
  /\ ToSet(late) \subseteq inHand /\ Distinct(late)
  /\ cancel => \A i \in PastCheck : Publishes(i) => i \in inHand \ ToSet(late)
  /\ pc = "republish" => \A j \in republish : j < at

\* TypeOK is EngineType and what is around the engine.
PhaseType ==
  /\ cancel \in BOOLEAN /\ aborted \in BOOLEAN /\ answers \in 0..run.board
  /\ outcome \in {"none", "completed", "cancelled", "aborted", "paused", "failed",
                  "error", "teardown_failed"}
  /\ pc \in {"setup", "setupRun", "gate", "gateFailed", "loop", "launch", "single",
             "countdown", "between", "group", "failures", "retry", "ended", "teardown",
             "begin", "teardownRun", "agent", "republish", "late", "done", "down"}
  /\ setupDone \in BOOLEAN /\ teardownDone \in BOOLEAN
  /\ teardown \in [DOMAIN Teardown -> PhaseTerminal \cup {"pending", "running", "remediating"}]
  /\ at \in 1..(Len(Teardown) + SetupSteps + 1)
  /\ cleanup \in {"normal", "cancelled", "recovery"}
  /\ attempt \in 0..MaxAttempts /\ republish \subseteq DOMAIN Teardown
  /\ crashes \in 0..MaxCrashes /\ runs \in 1..run.times

Safe == TypeOK /\ EngineSafe /\ Waiting /\ Cleaning /\ Honest /\ Publishing

LEMMA TypeSplit == TypeOK <=> EngineType /\ PhaseType /\ HistoryType
  BY DEF TypeOK, EngineType, PhaseType, HistoryType, Containers, Codes

\* The phases and their bounds stay as they are.
LEMMA MainKeeps ==
  ASSUME EngineType, PhaseType, EngineSafe, Honest, Main(MainPhase)
  PROVE  /\ EngineType' /\ PhaseType' /\ EngineSafe' /\ Waiting' /\ Cleaning' /\ Honest'
<1>1. /\ MainPhase /\ UNCHANGED <<stateFile, phase, bounds>>
  BY DEF Main
<1>2. /\ Running /\ run' = run /\ cancel' = cancel
      /\ answers' = answers \/ (answers < run.board /\ answers' = answers + 1)
  BY <1>1, MainRuns
<1>3. /\ setupDone' = setupDone /\ teardownDone' = teardownDone /\ teardown' = teardown
      /\ at' = at /\ cleanup' = cleanup /\ attempt' = attempt /\ republish' = republish
      /\ crashes' = crashes /\ runs' = runs
  BY <1>1 DEF stateFile, phase, bounds
<1>4. Outline
  BY <1>1, <1>2, EngineOutline, UserOutline DEF MainPhase, PhaseType
<1>5. PhaseType'
  <2>1. answers' \in 0..run.board
    <3>1. run.board \in Nat /\ answers \in 0..run.board /\ run'.board = run.board
      BY <1>2, RunFacts DEF PhaseType, EngineType
    <3>2. \A n \in Nat : \A a \in 0..n : a < n => a + 1 \in 0..n
      OBVIOUS
    <3> QED
      BY <1>2, <3>1, <3>2
  <2>2. /\ outcome' \in {"none", "completed", "cancelled", "aborted", "paused", "failed",
                         "error", "teardown_failed"}
        /\ pc' \in {"loop", "launch", "single", "countdown", "between", "group", "failures",
                    "retry", "ended"}
        /\ aborted' \in BOOLEAN
    BY <1>4 DEF Outline, MainPlaces, PhaseType
  <2> QED
    BY <1>2, <1>3, <2>1, <2>2 DEF PhaseType
<1>6. Waiting' /\ Cleaning'
  BY <1>4 DEF Outline, MainPlaces, Waiting, Beginning, Cleaning, Cleaned
<1>7. EngineType' /\ EngineSafe' /\ Honest'
  BY <1>1, MainSafe
<1> QED
  BY <1>5, <1>6, <1>7

----------------------------------------------------------------------------
(* The phases around the main phase *)

LEMMA PlanFacts ==
  /\ SetupSteps \in Nat /\ Len(Teardown) \in Nat /\ DOMAIN Teardown = 1..Len(Teardown)
  /\ MaxAttempts \in Nat /\ MaxCrashes \in Nat
  BY RunAssumption

\* Outside the main phase there is nothing of it, and a step of a phase leaves
\* it so.
LEMMA PhaseIdle ==
  ASSUME EngineType, EngineSafe, run' = run, ~ Running, ~ Running',
         UNCHANGED <<launches, slots, batch, recovery, current>>,
         status' \in [Steps -> Status], DependenciesFirst'
  PROVE  EngineType' /\ EngineSafe'
<1>1. /\ NoBatch /\ failed = <<>> /\ retried = {} /\ authUsed = {}
      /\ launches = [s \in Steps |-> 0] /\ current \in Steps \cup {""}
  BY DEF EngineType, EngineSafe, Shape
<1>2. /\ NoBatch' /\ failed' = <<>> /\ retried' = {} /\ authUsed' = {}
      /\ launches' = [s \in Steps |-> 0] /\ current' \in Steps \cup {""}
  BY <1>1 DEF slots, batch, recovery, NoBatch
<1> QED
  BY <1>2, Ends

LEMMA Cleared ==
  ASSUME EngineType, run' = run, ~ Running', Clear,
         status' \in [Steps -> Status], DependenciesFirst'
  PROVE  EngineType' /\ EngineSafe'
<1>1. /\ NoBatch' /\ failed' = <<>> /\ retried' = {} /\ authUsed' = {}
      /\ launches' = [s \in Steps |-> 0] /\ current' = ""
  BY DEF Clear, NoBatch
<1> QED
  BY <1>1, Ends

LEMMA SameDeps ==
  ASSUME DependenciesFirst, run' = run, status' = status
  PROVE  DependenciesFirst'
  BY DepsFirst DEF DependenciesFirst

\* A step of a phase that leaves the main phase's variables as they are.
LEMMA PhaseStepKeeps ==
  ASSUME EngineType, EngineSafe, Waiting, Honest, ~ Running, ~ Running',
         UNCHANGED mainKept, Beginning' => Beginning, pc' # "down"
  PROVE  /\ EngineType' /\ EngineSafe' /\ Waiting' /\ Honest'
         /\ run' = run /\ cancel' = cancel /\ answers' = answers /\ outcome' = outcome
         /\ crashes' = crashes /\ runs' = runs
<1>1. /\ status' = status /\ outcome' = outcome /\ run' = run /\ cancel' = cancel
      /\ answers' = answers /\ crashes' = crashes /\ runs' = runs
      /\ UNCHANGED <<launches, slots, batch, recovery, current>>
  BY DEF mainKept, fixed, bounds
<1>2. Steps' = Steps /\ Attended' = Attended /\ status \in [Steps -> Status]
  BY <1>1 DEF Steps, Attended, EngineType
<1>3. DependenciesFirst'
  BY <1>1, SameDeps DEF EngineSafe
<1>4. EngineType' /\ EngineSafe'
  BY <1>1, <1>2, <1>3, PhaseIdle
<1>5. Waiting'
  BY <1>1, <1>2 DEF Waiting
<1>6. Honest'
  BY <1>1, <1>2 DEF Honest
<1> QED
  BY <1>1, <1>4, <1>5, <1>6

LEMMA SetupKeeps ==
  ASSUME EngineType, PhaseType, EngineSafe, Waiting, Cleaning, Honest,
         SetupNext \/ SetupStepEnds \/ SetupError
  PROVE  EngineType' /\ PhaseType' /\ EngineSafe' /\ Waiting' /\ Cleaning' /\ Honest'
<1>1. /\ pc \in {"setup", "setupRun"} /\ UNCHANGED mainKept
      /\ pc' \in {"setup", "setupRun", "gate", "gateFailed"}
      /\ aborted' \in BOOLEAN /\ setupDone' \in BOOLEAN
      /\ teardownDone' = teardownDone /\ teardown' = teardown
      /\ cleanup' = cleanup /\ attempt' = attempt /\ republish' = republish
  BY DEF SetupNext, SetupStepEnds, SetupError, Goto, stateFile, phase, PhaseType
<1>2. /\ at' \in {at, at + 1} /\ (at' = at + 1 => pc = "setupRun")
      /\ pc' = "setup" => at' \in 1..(SetupSteps + 1)
      /\ pc' = "setupRun" => at' \in 1..SetupSteps
  <2>1. CASE SetupNext
    <3>1. /\ at' = at /\ pc = "setup" /\ at \in 1..(SetupSteps + 1)
          /\ IF at > SetupSteps THEN pc' = "gate" ELSE pc' \in {"gate", "setupRun"}
      BY <2>1 DEF SetupNext, phase, Goto, Cleaning
    <3> QED
      BY <3>1, PlanFacts
  <2>2. CASE SetupStepEnds
    <3>1. /\ pc = "setupRun" /\ at \in 1..SetupSteps
          /\ \/ at' = at + 1 /\ pc' = "setup"
             \/ at' = at /\ pc' \in {"gate", "gateFailed"}
      BY <2>2 DEF SetupStepEnds, Goto, Cleaning
    <3> QED
      BY <3>1, PlanFacts
  <2>3. CASE SetupError
    <3>1. at' = at /\ pc' = "gateFailed"
      BY <2>3 DEF SetupError, Goto, phase
    <3>2. at + 1 # at
      BY PlanFacts DEF PhaseType
    <3> QED
      BY <3>1, <3>2
  <2> QED
    BY <2>1, <2>2, <2>3
<1>3. ~ Running /\ ~ Running' /\ Beginning /\ pc' # "down"
  BY <1>1 DEF Running, Beginning
<1>4. /\ EngineType' /\ EngineSafe' /\ Waiting' /\ Honest'
      /\ run' = run /\ cancel' = cancel /\ answers' = answers /\ outcome' = outcome
      /\ crashes' = crashes /\ runs' = runs
  BY <1>1, <1>3, PhaseStepKeeps
<1>5. at' \in 1..(Len(Teardown) + SetupSteps + 1)
  <2>1. CASE at' = at
    BY <2>1 DEF PhaseType
  <2>2. CASE at' = at + 1
    <3>1. at \in 1..SetupSteps
      BY <1>1, <1>2, <2>2 DEF Cleaning
    <3> QED
      BY <2>2, <3>1, PlanFacts
  <2> QED
    BY <1>2, <2>1, <2>2
<1>6. PhaseType'
  BY <1>1, <1>4, <1>5 DEF PhaseType
<1>7. Cleaning'
  BY <1>1, <1>2 DEF Cleaning, Cleaned
<1> QED
  BY <1>4, <1>6, <1>7

LEMMA GateKeeps ==
  ASSUME EngineType, PhaseType, EngineSafe, Waiting, Cleaning, Honest, Gate
  PROVE  EngineType' /\ PhaseType' /\ EngineSafe' /\ Waiting' /\ Cleaning' /\ Honest'
<1>1. /\ run' = run /\ cancel' = cancel /\ answers' = answers
      /\ setupDone' = setupDone /\ teardownDone' = teardownDone /\ teardown' = teardown
      /\ at' = at /\ cleanup' = cleanup /\ attempt' = attempt /\ republish' = republish
      /\ crashes' = crashes /\ runs' = runs /\ Beginning /\ ~ Running
      /\ \/ CancelRun \/ Fail
         \/ /\ pc' = "loop"
            /\ UNCHANGED <<status, launches, slots, batch, recovery, ending, current>>
  BY DEF Gate, fixed, stateFile, phase, bounds, Beginning, Running, Goto
<1>2. Outline
  BY <1>1, Endings, GoesOn DEF PhaseType, MainPlaces
<1>3. PhaseType'
  <2>1. /\ outcome' \in {"none", "completed", "cancelled", "aborted", "paused", "failed",
                         "error", "teardown_failed"}
        /\ pc' \in {"loop", "launch", "single", "countdown", "between", "group", "failures",
                    "retry", "ended"}
        /\ aborted' \in BOOLEAN
    BY <1>2 DEF Outline, MainPlaces, PhaseType
  <2> QED
    BY <1>1, <2>1 DEF PhaseType
<1>4. Waiting' /\ Cleaning'
  BY <1>2 DEF Outline, MainPlaces, Waiting, Beginning, Cleaning, Cleaned
<1>5. EngineType' /\ EngineSafe' /\ Honest'
  <2>1. CASE CancelRun
    BY <1>1, <2>1, CancelRunSafe
  <2>2. CASE Fail
    BY <1>1, <2>2, FailSafe
  <2>3. CASE /\ pc' = "loop"
             /\ UNCHANGED <<status, launches, slots, batch, recovery, ending, current>>
    <3>1. /\ NoBatch /\ failed = <<>> /\ retried = {} /\ authUsed = {}
          /\ run \in Runs /\ current \in Steps \cup {""} /\ status \in [Steps -> Status]
          /\ outcome = "none"
      BY <1>1 DEF EngineType, EngineSafe, Shape, Honest
    <3>2. /\ NoBatch' /\ failed' = <<>> /\ retried' = {} /\ authUsed' = {}
          /\ status' = status /\ launches' = launches /\ current' = current
          /\ outcome' = "none"
      BY <2>3, <3>1 DEF slots, batch, recovery, ending, NoBatch
    <3>3. failed' \in Seq(Steps) /\ Distinct(failed') /\ ToSet(failed') = {}
      BY <3>2, EmptyFacts, EmptyIn
    <3>4. \A s \in Steps : status'[s] \in Done \cup {"pending"}
      BY <1>1, <3>2 DEF Waiting
    <3>5. \A s \in Steps : status'[s] \notin {"running", "failed", "cancelled"}
      BY <3>4, StatusNames
    <3>6. ~ Attended => \A s \in Steps : Tallied(s)'
      BY <3>1, <3>2, TalliedSame DEF EngineSafe, Counted
    <3>7. Counted'
      BY <1>1, <2>3, <3>1, <3>2, <3>3, <3>5, <3>6, CountedRests
    <3>8. EngineType' /\ EngineSafe'
      BY <1>1, <2>3, <3>1, <3>2, <3>3, <3>5, <3>7, Rests
    <3> QED
      BY <3>2, <3>8, NoOutcome
  <2> QED
    BY <1>1, <2>1, <2>2, <2>3
<1> QED
  BY <1>3, <1>4, <1>5

\* A cancel that is found after the main phase.
LEMMA CancelsEnded ==
  ASSUME EngineType, EngineSafe, run' = run,
         CancelEndedRun \/ UNCHANGED <<status, aborted, outcome>>
  PROVE  /\ status' \in [Steps -> Status] /\ DependenciesFirst'
         /\ CancelEndedRun => \A s \in Steps : status'[s] \in Done \cup {"cancelled"}
<1>1. CASE CancelEndedRun
  <2>1. /\ status' \in [Steps -> Status]
        /\ \A s \in Steps : status'[s] \in Done \cup {"cancelled"}
    BY <1>1, Cancelled DEF CancelEndedRun
  <2> QED
    BY <2>1, NoneRuns, StatusNames
<1>2. CASE UNCHANGED <<status, aborted, outcome>> /\ ~ CancelEndedRun
  BY <1>2, SameDeps DEF EngineType, EngineSafe
<1> QED
  BY <1>1, <1>2

LEMMA HonestEnd ==
  ASSUME Honest, run' = run, ~ Running', ~ Beginning', pc' # "down",
         \/ /\ outcome' = "cancelled"
            /\ \A s \in Steps : status'[s] \in Done \cup {"cancelled"}
         \/ /\ status' = status
            /\ outcome' = outcome \/ (outcome = "completed" /\ outcome' = "teardown_failed")
  PROVE  Honest'
<1>1. Steps' = Steps /\ Attended' = Attended
  BY DEF Steps, Attended
<1> QED
  BY <1>1 DEF Honest

LEMMA EndKeeps ==
  ASSUME EngineType, PhaseType, EngineSafe, Waiting, Cleaning, Honest,
         Reconcile \/ FinishRun
  PROVE  EngineType' /\ PhaseType' /\ EngineSafe' /\ Waiting' /\ Cleaning' /\ Honest'
<1>1. /\ run' = run /\ cancel' = cancel /\ answers' = answers
      /\ setupDone' = setupDone /\ teardownDone' = teardownDone /\ republish' = republish
      /\ crashes' = crashes /\ runs' = runs /\ pc \in {"ended", "late"}
      /\ pc' \in {"teardown", "late", "done"}
      /\ UNCHANGED <<launches, slots, batch, recovery, current>>
  BY DEF Reconcile, FinishRun, fixed, bounds, stateFile, phase, Goto
<1>2. ~ Running /\ ~ Running' /\ ~ Beginning' /\ pc' # "down"
  BY <1>1 DEF Running, Beginning
<1>3. \/ CancelEndedRun
      \/ UNCHANGED <<status, aborted, outcome>>
      \/ outcome = "completed" /\ outcome' = "teardown_failed" /\ UNCHANGED <<status, aborted>>
  BY DEF Reconcile, FinishRun
<1>4. /\ status' \in [Steps -> Status] /\ DependenciesFirst'
      /\ CancelEndedRun => \A s \in Steps : status'[s] \in Done \cup {"cancelled"}
  <2>1. CASE CancelEndedRun \/ UNCHANGED <<status, aborted, outcome>>
    BY <1>1, <2>1, CancelsEnded
  <2>2. CASE UNCHANGED status /\ ~ CancelEndedRun
    BY <1>1, <2>2, SameDeps DEF EngineType, EngineSafe
  <2> QED
    BY <1>3, <2>1, <2>2
<1>5. EngineType' /\ EngineSafe'
  BY <1>1, <1>2, <1>4, PhaseIdle
<1>6. Honest'
  BY <1>1, <1>2, <1>3, <1>4, HonestEnd DEF CancelEndedRun
<1>7. Waiting'
  BY <1>2 DEF Waiting
<1>8. aborted' \in BOOLEAN /\ outcome' \in {"none", "completed", "cancelled", "aborted",
        "paused", "failed", "error", "teardown_failed"}
  BY <1>3 DEF CancelEndedRun, PhaseType
<1>9. \/ /\ pc' \in {"late", "done"} /\ teardown' = teardown /\ at' = at
         /\ attempt' = attempt /\ cleanup' = cleanup
      \/ /\ pc' = "teardown" /\ teardown' = AllWaiting /\ at' = 1 /\ attempt' = 0
         /\ cleanup' \in {"cancelled", "normal"}
  BY DEF Reconcile, FinishRun, stateFile, phase, Goto
<1>10. /\ AllWaiting \in [DOMAIN Teardown -> PhaseTerminal \cup {"pending", "running", "remediating"}]
       /\ \A i \in DOMAIN Teardown : AllWaiting[i] = "pending"
       /\ 1 \in 1..(Len(Teardown) + 1) /\ 1 \in 1..(Len(Teardown) + SetupSteps + 1)
       /\ 0 \in 0..MaxAttempts
  BY PlanFacts DEF AllWaiting
<1>11. PhaseType'
  <2>1. /\ teardown' \in [DOMAIN Teardown -> PhaseTerminal \cup {"pending", "running", "remediating"}]
        /\ at' \in 1..(Len(Teardown) + SetupSteps + 1) /\ attempt' \in 0..MaxAttempts
        /\ cleanup' \in {"normal", "cancelled", "recovery"}
    BY <1>9, <1>10 DEF PhaseType
  <2> QED
    BY <1>1, <1>8, <2>1 DEF PhaseType
<1>12. Cleaning'
  <2>1. CASE pc' \in {"late", "done"}
    BY <2>1 DEF Cleaning, Cleaned
  <2>2. CASE pc' = "teardown"
    <3>1. at' = 1 /\ teardown' = AllWaiting
      BY <1>9, <2>2
    <3> QED
      BY <1>10, <2>2, <3>1 DEF Cleaning, Cleaned
  <2> QED
    BY <1>1, <2>1, <2>2
<1> QED
  BY <1>5, <1>6, <1>7, <1>11, <1>12

----------------------------------------------------------------------------
(* Teardown *)

\* What republish_ci_fix repeats are earlier places of the teardown.
LEMMA RepublishingFacts ==
  ASSUME NEW i \in DOMAIN Teardown
  PROVE  Republishing(i) \subseteq DOMAIN Teardown /\ \A j \in Republishing(i) : j < i
<1>1. i \in 1..Len(Teardown) /\ Len(Teardown) \in Nat /\ DOMAIN Teardown = 1..Len(Teardown)
  BY PlanFacts
<1>2. Republishing(i) \subseteq 1..(i-1)
  BY DEF Republishing
<1> QED
  BY <1>1, <1>2

TeardownStep == TeardownNext \/ TeardownStepBegins \/ TeardownOver \/ TeardownStepEnds
                \/ AgentDone \/ RepublishStep \/ RetryStep

\* The steps of the teardown, by where they leave the entry they are at.
Entered ==
  \/ /\ pc' = "late" /\ at' = at
     /\ teardown' = teardown \/ (at \in DOMAIN Teardown /\ pc # "teardown" /\ Mark("failed"))
  \/ /\ pc' = "teardown" /\ at \in DOMAIN Teardown /\ at' = at + 1
     /\ \/ AlreadyOver(at) /\ teardown' = teardown
        \/ Mark("skipped") /\ ~ AlreadyOver(at)
        \/ pc # "teardown" /\ (Mark("succeeded") \/ Mark("failed"))
  \/ /\ at \in DOMAIN Teardown /\ at' = at
     /\ \/ /\ pc = "teardown" /\ pc' = "begin" /\ Mark("running")
           /\ ~ SkippedAt(at) /\ ~ AlreadyOver(at)
        \/ pc = "begin" /\ pc' = "teardownRun" /\ teardown' = teardown
        \/ pc = "republish" /\ pc' = "teardownRun" /\ Mark("running")
        \/ pc = "teardownRun" /\ pc' = "agent" /\ Mark("remediating")
        \/ pc \in {"agent", "republish"} /\ pc' = "republish" /\ teardown' = teardown

LEMMA TeardownOutline ==
  ASSUME PhaseType, Cleaning, TeardownStep
  PROVE  /\ Cleaned /\ UNCHANGED teardownKept /\ Entered
         /\ teardownDone' \in BOOLEAN /\ attempt' \in 0..MaxAttempts
         /\ republish' \subseteq DOMAIN Teardown
<1>1. /\ teardownDone \in BOOLEAN /\ attempt \in 0..MaxAttempts /\ 0 \in 0..MaxAttempts
      /\ republish \subseteq DOMAIN Teardown
  BY PlanFacts DEF PhaseType
<1>2. pc \in {"begin", "teardownRun", "agent", "republish"} => at \in DOMAIN Teardown
  BY DEF Cleaning
<1>3. CASE TeardownNext
  <2>1. pc = "teardown" /\ at \in DOMAIN Teardown
    BY <1>3, PlanFacts DEF TeardownNext, PhaseType
  <2>2. /\ UNCHANGED <<teardownKept, teardownDone>>
        /\ \/ AlreadyOver(at) /\ NextStep /\ UNCHANGED teardown
           \/ ~AlreadyOver(at) /\ Mark("skipped") /\ NextStep
           \/ /\ ~AlreadyOver(at) /\ ~SkippedAt(at) /\ Mark("running") /\ Goto("begin")
              /\ UNCHANGED <<at, attempt, republish>>
    BY <1>3 DEF TeardownNext
  <2> QED
    BY <1>1, <2>1, <2>2 DEF Cleaned, Entered, NextStep, Goto
<1>4. CASE TeardownOver
  BY <1>1, <1>4 DEF TeardownOver, TeardownCompletes, Cleaned, Entered, Goto
<1>5. ASSUME TeardownFailed, UNCHANGED teardownKept, pc \in {"teardownRun", "agent"}
      PROVE  /\ Cleaned /\ Entered
             /\ teardownDone' \in BOOLEAN /\ attempt' \in 0..MaxAttempts
             /\ republish' \subseteq DOMAIN Teardown
  BY <1>1, <1>2, <1>5 DEF TeardownFailed, TeardownCompletes, NextStep, Cleaned, Entered, Goto
<1>6. CASE TeardownStepEnds
  <2>1. /\ UNCHANGED teardownKept /\ pc = "teardownRun"
        /\ \/ Mark("succeeded") /\ NextStep /\ UNCHANGED teardownDone
           \/ /\ attempt < MaxAttempts
              /\ Mark("remediating") /\ attempt' = attempt + 1 /\ Goto("agent")
              /\ UNCHANGED <<at, republish, teardownDone>>
           \/ TeardownFailed
    BY <1>6 DEF TeardownStepEnds, Remediates
  <2>2. CASE Mark("succeeded") /\ NextStep /\ UNCHANGED teardownDone
    BY <1>1, <1>2, <2>1, <2>2 DEF NextStep, Cleaned, Entered, Goto
  <2>3. CASE /\ attempt < MaxAttempts
             /\ Mark("remediating") /\ attempt' = attempt + 1 /\ Goto("agent")
             /\ UNCHANGED <<at, republish, teardownDone>>
    <3>1. attempt' \in 0..MaxAttempts
      BY <1>1, <2>3, PlanFacts
    <3> QED
      BY <1>1, <1>2, <2>1, <2>3, <3>1 DEF Cleaned, Entered, Goto
  <2>4. CASE TeardownFailed
    BY <1>5, <2>1, <2>4
  <2> QED
    BY <2>1, <2>2, <2>3, <2>4
<1>7. CASE AgentDone
  <2>1. /\ UNCHANGED teardownKept /\ pc = "agent"
        /\ \/ TeardownFailed
           \/ /\ republish' = Republishing(at) /\ pc' = "republish"
              /\ UNCHANGED <<teardown, teardownDone, at, attempt>>
    BY <1>7 DEF AgentDone, Goto
  <2>2. CASE TeardownFailed
    BY <1>5, <2>1, <2>2
  <2>3. CASE /\ republish' = Republishing(at) /\ pc' = "republish"
             /\ UNCHANGED <<teardown, teardownDone, at, attempt>>
    <3>1. republish' \subseteq DOMAIN Teardown
      BY <1>2, <2>1, <2>3, RepublishingFacts
    <3> QED
      BY <1>1, <1>2, <2>1, <2>3, <3>1 DEF Cleaned, Entered
  <2> QED
    BY <2>1, <2>2, <2>3
<1>8. CASE RepublishStep
  <2>1. /\ pc = "republish" /\ pc' = pc /\ republish' \subseteq republish
        /\ UNCHANGED <<teardownKept, teardown, teardownDone, at, attempt>>
    BY <1>8 DEF RepublishStep
  <2> QED
    BY <1>1, <1>2, <2>1 DEF Cleaned, Entered
<1>9. CASE RetryStep
  BY <1>1, <1>2, <1>9 DEF RetryStep, Cleaned, Entered, Goto
<1>10. CASE TeardownStepBegins
  BY <1>1, <1>2, <1>10 DEF TeardownStepBegins, Cleaned, Entered, Goto
<1> QED
  BY <1>3, <1>4, <1>6, <1>7, <1>8, <1>9, <1>10 DEF TeardownStep

\* The entries behind the one that runs are as they were.
LEMMA MarkFacts ==
  ASSUME PhaseType, at \in DOMAIN Teardown, NEW v, Mark(v)
  PROVE  /\ teardown'[at] = v
         /\ \A i \in DOMAIN Teardown : i # at => teardown'[i] = teardown[i]
         /\ v \in PhaseTerminal \cup {"pending", "running", "remediating"} =>
              teardown' \in [DOMAIN Teardown -> PhaseTerminal \cup {"pending", "running", "remediating"}]
  BY DEF PhaseType, Mark

LEMMA TeardownKeeps ==
  ASSUME EngineType, PhaseType, EngineSafe, Waiting, Cleaning, Honest, TeardownStep
  PROVE  EngineType' /\ PhaseType' /\ EngineSafe' /\ Waiting' /\ Cleaning' /\ Honest'
<1>1. /\ Cleaned /\ UNCHANGED teardownKept /\ Entered
      /\ teardownDone' \in BOOLEAN /\ attempt' \in 0..MaxAttempts
      /\ republish' \subseteq DOMAIN Teardown
  BY TeardownOutline
<1>2. /\ UNCHANGED mainKept /\ aborted' = aborted /\ setupDone' = setupDone
      /\ cleanup' = cleanup
  BY <1>1 DEF teardownKept
<1>3. pc' \in {"late", "teardown", "begin", "teardownRun", "agent", "republish"}
  BY <1>1 DEF Entered
<1>4. ~ Running /\ ~ Running' /\ ~ Beginning' /\ pc' # "down"
  BY <1>1, <1>3 DEF Running, Beginning, Cleaned
<1>5. /\ EngineType' /\ EngineSafe' /\ Waiting' /\ Honest'
      /\ run' = run /\ cancel' = cancel /\ answers' = answers /\ outcome' = outcome
      /\ crashes' = crashes /\ runs' = runs
  BY <1>2, <1>4, PhaseStepKeeps
<1>6. at' \in 1..(Len(Teardown) + SetupSteps + 1)
  <2>1. CASE at' = at
    BY <2>1 DEF PhaseType
  <2>2. CASE at \in DOMAIN Teardown /\ at' = at + 1
    BY <2>2, PlanFacts
  <2> QED
    BY <1>1, <2>1, <2>2 DEF Entered
<1>7. teardown' \in [DOMAIN Teardown -> PhaseTerminal \cup {"pending", "running", "remediating"}]
  <2>1. \/ teardown' = teardown
        \/ at \in DOMAIN Teardown
           /\ \E v \in PhaseTerminal \cup {"pending", "running", "remediating"} : Mark(v)
    BY <1>1 DEF Entered, PhaseTerminal
  <2> QED
    BY <2>1, MarkFacts DEF PhaseType
<1>8. PhaseType'
  BY <1>1, <1>2, <1>3, <1>5, <1>6, <1>7 DEF PhaseType
<1>9. Cleaning'
  <2>1. CASE pc' = "late"
    BY <2>1 DEF Cleaning, Cleaned
  <2>2. CASE pc' = "teardown"
    <3>1. at \in DOMAIN Teardown /\ at' = at + 1
      BY <1>1, <2>2 DEF Entered
    <3>2. at \in 1..Len(Teardown) /\ at' \in 1..(Len(Teardown) + 1)
      BY <3>1, PlanFacts
    <3>3. ASSUME cleanup # "recovery", NEW i \in DOMAIN Teardown, i > at \/ i = at + 1
          PROVE  teardown'[i] = "pending"
      <4>1. i > at /\ i # at
        BY <3>2, <3>3, PlanFacts
      <4>2. teardown[i] = "pending"
        BY <1>1, <3>3, <4>1 DEF Cleaning
      <4>3. teardown' = teardown \/ \E v : Mark(v)
        BY <1>1 DEF Entered
      <4> QED
        BY <3>1, <4>1, <4>2, <4>3, MarkFacts
    <3>4. \A i \in DOMAIN Teardown : i > at' \/ i = at' => i > at \/ i = at + 1
      BY <3>1, <3>2, PlanFacts
    <3> QED
      BY <1>2, <2>2, <3>1, <3>2, <3>3, <3>4 DEF Cleaning, Cleaned
  <2>3. CASE pc' \in {"begin", "teardownRun", "agent", "republish"}
    <3>1. at \in DOMAIN Teardown /\ at' = at
      BY <1>1, <2>3 DEF Entered
    <3>2. /\ pc' = "begin" => Mark("running")
          /\ pc' = "teardownRun" => Mark("running") \/ (pc = "begin" /\ teardown' = teardown)
          /\ pc' = "agent" => Mark("remediating")
          /\ pc' = "republish" => teardown' = teardown /\ pc \in {"agent", "republish"}
      BY <1>1, <2>3 DEF Entered
    <3>3. /\ pc' \in {"begin", "teardownRun"} => teardown'[at] = "running"
          /\ pc' \in {"agent", "republish"} => teardown'[at] = "remediating"
      BY <3>1, <3>2, MarkFacts DEF Cleaning
    <3>4. ASSUME cleanup # "recovery", NEW i \in DOMAIN Teardown, i > at
          PROVE  teardown'[i] = "pending"
      <4>1. i # at
        BY <3>1, <3>4, PlanFacts
      <4>2. teardown[i] = "pending"
        BY <1>1, <3>4 DEF Cleaning
      <4>3. teardown' = teardown \/ \E v : Mark(v)
        BY <2>3, <3>2
      <4> QED
        BY <3>1, <4>1, <4>2, <4>3, MarkFacts
    <3> QED
      BY <1>2, <2>3, <3>1, <3>3, <3>4 DEF Cleaning, Cleaned
  <2> QED
    BY <1>3, <2>1, <2>2, <2>3
<1> QED
  BY <1>5, <1>8, <1>9

----------------------------------------------------------------------------
(* Cancel, death, and the next process *)

\* Nothing of the engine changes.
LEMMA EngineStays ==
  ASSUME EngineType, EngineSafe, run' = run, UNCHANGED engine
  PROVE  EngineType' /\ EngineSafe'
<1>1. /\ UNCHANGED <<status, launches, slots, batch, recovery, current>> /\ pc' = pc
  BY DEF engine
<1>2. /\ EngineType' /\ Steps' = Steps /\ Attended' = Attended
      /\ Apart' /\ SlotsOwned' /\ DepsHeld' /\ DependenciesFirst'
      /\ Launching' = Launching /\ Queued' = Queued /\ Slotted' = Slotted
      /\ FailedOnes' = FailedOnes /\ \A v : With(v)' = With(v)
      /\ \A s : Tallied(s) => Tallied(s)'
  BY <1>1, EngineSame DEF EngineSafe
<1>3. /\ active' = active /\ live' = live /\ exits' = exits /\ group' = group
      /\ queue' = queue /\ toLaunch' = toLaunch /\ authUsed' = authUsed
      /\ retried' = retried /\ failed' = failed /\ launches' = launches
      /\ current' = current
  BY <1>1 DEF slots, batch, recovery
<1>4. (NoBatch' <=> NoBatch) /\ (Running' <=> Running) /\ (InStep' <=> InStep)
  BY <1>1, <1>3 DEF NoBatch, Running, InStep
<1>5. {Container(current)}' = {Container(current)}
  BY <1>3 DEF Container
<1>6. Shape'
  BY <1>1, <1>2, <1>3, <1>4, <1>5 DEF EngineSafe, Shape
<1>7. StatusPlaced'
  BY <1>2, <1>4 DEF EngineSafe, StatusPlaced
<1>8. Counted'
  BY <1>1, <1>2, <1>3, <1>4 DEF EngineSafe, Counted
<1> QED
  BY <1>2, <1>6, <1>7, <1>8 DEF EngineSafe

LEMMA RequestKeeps ==
  ASSUME EngineType, PhaseType, EngineSafe, Waiting, Cleaning, Honest,
         RequestCancel \/ UNCHANGED vars
  PROVE  EngineType' /\ PhaseType' /\ EngineSafe' /\ Waiting' /\ Cleaning' /\ Honest'
<1>1. /\ UNCHANGED engine /\ run' = run /\ answers' = answers
      /\ UNCHANGED <<stateFile, at, cleanup, attempt, republish, bounds>> /\ cancel' \in BOOLEAN
  BY DEF RequestCancel, vars, fixed, phase, PhaseType
<1>2. /\ status' = status /\ outcome' = outcome /\ aborted' = aborted /\ pc' = pc
      /\ setupDone' = setupDone /\ teardownDone' = teardownDone /\ teardown' = teardown
      /\ at' = at /\ cleanup' = cleanup /\ attempt' = attempt /\ republish' = republish
      /\ crashes' = crashes /\ runs' = runs
  BY <1>1 DEF engine, ending, stateFile, bounds
<1>3. EngineType' /\ EngineSafe'
  BY <1>1, EngineStays
<1>4. Steps' = Steps /\ Attended' = Attended
  BY <1>1 DEF Steps, Attended
<1>5. PhaseType'
  BY <1>1, <1>2 DEF PhaseType
<1>6. Waiting' /\ Honest'
  BY <1>2, <1>4 DEF Waiting, Beginning, Honest, Running
<1>7. Cleaning'
  BY <1>2 DEF Cleaning, Cleaned
<1> QED
  BY <1>3, <1>5, <1>6, <1>7

\* The engine of the next process: on what a run left, or on a fresh state.
LEMMA NextEngineFacts ==
  ASSUME EngineType, PhaseType, run' = run, NextEngine
  PROVE  /\ EngineType' /\ EngineSafe' /\ Waiting' /\ Cleaning' /\ Honest'
         /\ pc' \in {"setup", "gate"} /\ aborted' = FALSE /\ outcome' = "none"
         /\ setupDone' \in BOOLEAN /\ teardownDone' \in BOOLEAN
         /\ teardown' \in [DOMAIN Teardown -> PhaseTerminal \cup {"pending", "running", "remediating"}]
         /\ at' = 1 /\ cleanup' = "normal" /\ attempt' = 0 /\ republish' = {}
<1>1. /\ at' = 1 /\ cleanup' = "normal" /\ attempt' = 0 /\ republish' = {}
      /\ pc' \in {"setup", "gate"}
      /\ \E st : Fresh(st) /\ st \in [Steps -> Status]
                 /\ \A s \in Steps : st[s] \in Done \cup {"pending"}
  <2>1. status \in [Steps -> Status] /\ "pending" \in Status
    BY StatusNames DEF EngineType
  <2>2. CASE ResumeRun
    <3>1. PICK start : Fresh(ResetUnfinished(RewindTo(run.dag, status, start)))
      BY <2>2 DEF ResumeRun
    <3> DEFINE old == RewindTo(run.dag, status, start)
    <3>2. DOMAIN old = Steps
      BY <2>1 DEF RewindTo
    <3> HIDE DEF old
    <3>3. /\ ResetUnfinished(old) \in [Steps -> Status]
          /\ \A s \in Steps : ResetUnfinished(old)[s] \in Done \cup {"pending"}
      BY <3>2, StatusNames DEF ResetUnfinished
    <3>4. Fresh(ResetUnfinished(old))
      BY <3>1 DEF old
    <3> QED
      BY <2>2, <3>3, <3>4 DEF NextEngine, PhaseReset, ResumeRun, Goto
  <2>3. CASE StartAfresh
    <3>1. /\ AllPending \in [Steps -> Status]
          /\ \A s \in Steps : AllPending[s] \in Done \cup {"pending"}
      BY <2>1 DEF AllPending
    <3> QED
      BY <2>3, <3>1 DEF NextEngine, PhaseReset, StartAfresh, Goto
  <2> QED
    BY <2>2, <2>3 DEF NextEngine
<1>2. PICK st : Fresh(st) /\ st \in [Steps -> Status]
                /\ \A s \in Steps : st[s] \in Done \cup {"pending"}
  BY <1>1
<1>3. /\ status' = st /\ aborted' = FALSE /\ outcome' = "none" /\ Clear
  BY <1>2 DEF Fresh
<1>4. ~ Running' /\ Steps' = Steps
  BY <1>1 DEF Running, Steps
<1>5. DependenciesFirst'
  BY <1>2, <1>3, NoneRuns, StatusNames
<1>6. EngineType' /\ EngineSafe'
  BY <1>2, <1>3, <1>4, <1>5, Cleared
<1>7. Waiting'
  BY <1>2, <1>3, <1>4 DEF Waiting
<1>8. Cleaning'
  BY <1>1, PlanFacts DEF Cleaning, Cleaned
<1>9. Honest'
  BY <1>3, NoOutcome
<1>10. /\ setupDone' \in BOOLEAN /\ teardownDone' \in BOOLEAN
       /\ teardown' \in [DOMAIN Teardown -> PhaseTerminal \cup {"pending", "running", "remediating"}]
  BY DEF NextEngine, ResumeRun, StartAfresh, stateFile, AllWaiting, PhaseType
<1> QED
  BY <1>1, <1>3, <1>6, <1>7, <1>8, <1>9, <1>10

LEMMA NextProcessKeeps ==
  ASSUME EngineType, PhaseType, EngineSafe, Waiting, Cleaning, Honest,
         Crash \/ Resume \/ RecoverCleanup \/ RunAgain
  PROVE  EngineType' /\ PhaseType' /\ EngineSafe' /\ Waiting' /\ Cleaning' /\ Honest'
<1>1. /\ 1 \in 1..(Len(Teardown) + SetupSteps + 1) /\ 1 \in 1..(Len(Teardown) + 1)
      /\ 0 \in 0..MaxAttempts
  BY PlanFacts
<1>2. /\ cancel \in BOOLEAN /\ answers \in 0..run.board /\ crashes \in 0..MaxCrashes
      /\ runs \in 1..run.times /\ run \in Runs /\ status \in [Steps -> Status]
      /\ setupDone \in BOOLEAN /\ teardownDone \in BOOLEAN /\ run.times \in Nat \ {0}
      /\ teardown \in [DOMAIN Teardown -> PhaseTerminal \cup {"pending", "running", "remediating"}]
  BY RunFacts DEF PhaseType, EngineType
<1>3. CASE Resume \/ RunAgain
  <2>1. /\ NextEngine /\ run' = run /\ answers' = answers /\ crashes' = crashes
        /\ cancel' \in BOOLEAN
        /\ runs' = runs \/ (runs < run.times /\ runs' = runs + 1)
    BY <1>2, <1>3 DEF Resume, RunAgain, fixed, bounds
  <2>2. /\ EngineType' /\ EngineSafe' /\ Waiting' /\ Cleaning' /\ Honest'
        /\ pc' \in {"setup", "gate"} /\ aborted' = FALSE /\ outcome' = "none"
        /\ setupDone' \in BOOLEAN /\ teardownDone' \in BOOLEAN
        /\ teardown' \in [DOMAIN Teardown -> PhaseTerminal \cup {"pending", "running", "remediating"}]
        /\ at' = 1 /\ cleanup' = "normal" /\ attempt' = 0 /\ republish' = {}
    BY <2>1, NextEngineFacts
  <2>3. runs' \in 1..run.times
    <3>1. \A n \in Nat : \A r \in 1..n : r < n => r + 1 \in 1..n
      OBVIOUS
    <3> QED
      BY <1>2, <2>1, <3>1
  <2>4. PhaseType'
    BY <1>1, <1>2, <2>1, <2>2, <2>3 DEF PhaseType
  <2> QED
    BY <2>2, <2>4
<1>4. CASE Crash
  <2>1. /\ pc' = "down" /\ Clear /\ outcome' = "none" /\ aborted' = FALSE
        /\ at' = 1 /\ cleanup' = "normal" /\ attempt' = 0 /\ republish' = {}
        /\ crashes < MaxCrashes /\ crashes' = crashes + 1
        /\ status' = status /\ run' = run /\ cancel' = cancel /\ answers' = answers
        /\ setupDone' = setupDone /\ teardownDone' = teardownDone /\ teardown' = teardown
        /\ runs' = runs
    BY <1>4 DEF Crash, PhaseReset, Goto, fixed, stateFile
  <2>2. ~ Running'
    BY <2>1 DEF Running
  <2>3. DependenciesFirst'
    BY <2>1, SameDeps DEF EngineSafe
  <2>4. EngineType' /\ EngineSafe'
    BY <1>2, <2>1, <2>2, <2>3, Cleared
  <2>5. crashes' \in 0..MaxCrashes
    <3>1. \A n \in Nat : \A r \in 0..n : r < n => r + 1 \in 0..n
      OBVIOUS
    <3> QED
      BY <1>2, <2>1, <3>1, PlanFacts
  <2>6. PhaseType'
    BY <1>1, <1>2, <2>1, <2>5 DEF PhaseType
  <2>7. Waiting' /\ Cleaning' /\ Honest'
    BY <2>1, NoOutcome DEF Waiting, Beginning, Cleaning, Cleaned
  <2> QED
    BY <2>4, <2>6, <2>7
<1>5. CASE RecoverCleanup
  <2> DEFINE st == ResetUnfinished(status)
             X == {s \in Steps : st[s] \notin Done}
  <2>1. /\ pc = "down" /\ status' = SetAll(st, X, "cancelled")
        /\ aborted' = FALSE /\ outcome' = "cancelled"
        /\ at' = 1 /\ cleanup' = "recovery" /\ attempt' = 0 /\ republish' = {}
        /\ pc' \in {"late", "teardown"}
        /\ UNCHANGED <<launches, slots, batch, recovery, current>>
        /\ run' = run /\ cancel' = cancel /\ answers' = answers
        /\ crashes' = crashes /\ runs' = runs
        /\ setupDone' = setupDone /\ teardownDone' = teardownDone /\ teardown' = teardown
    BY <1>5 DEF RecoverCleanup, Goto, fixed, bounds, stateFile
  <2>2. st \in [Steps -> Status]
    BY <1>2, StatusNames DEF ResetUnfinished
  <2> HIDE DEF st
  <2>3. /\ status' \in [Steps -> Status]
        /\ \A s \in Steps : status'[s] = IF s \in X THEN "cancelled" ELSE st[s]
    BY <2>1, <2>2, SetAllFacts, StatusNames
  <2>4. \A s \in Steps : status'[s] \in Done \cup {"cancelled"}
    BY <2>3
  <2>5. ~ Running /\ ~ Running' /\ ~ Beginning' /\ pc' # "down"
    BY <2>1 DEF Running, Beginning
  <2>6. DependenciesFirst'
    BY <2>1, <2>4, NoneRuns, StatusNames
  <2>7. EngineType' /\ EngineSafe'
    BY <2>1, <2>3, <2>5, <2>6, PhaseIdle
  <2>8. Honest'
    BY <2>1, <2>4, <2>5, HonestEnd
  <2>9. PhaseType'
    BY <1>1, <1>2, <2>1 DEF PhaseType
  <2>10. Waiting' /\ Cleaning'
    BY <1>1, <2>1, <2>5 DEF Waiting, Cleaning, Cleaned
  <2> QED
    BY <2>7, <2>8, <2>9, <2>10
<1> QED
  BY <1>3, <1>4, <1>5

----------------------------------------------------------------------------
(* What a cancel leaves to publish *)

\* A command that begins was past its check, and has not begun since.
LEMMA BegunKeeps ==
  ASSUME Publishing, NEW i \in DOMAIN Teardown, i \in PastCheck, Begun(i),
         cancel' = cancel, inHand' = inHand
  PROVE  /\ HistoryType' /\ (~ cancel' => inHand' = {} /\ late' = <<>>)
         /\ ToSet(late') \subseteq inHand' /\ Distinct(late')
         /\ ToSet(late') \subseteq ToSet(late) \cup {i}
<1>1. CASE cancel /\ Publishes(i)
  <2>1. /\ late' = Append(late, i) /\ late \in Seq(DOMAIN Teardown) /\ Distinct(late)
        /\ ToSet(late) \subseteq inHand /\ i \in inHand \ ToSet(late)
        /\ inHand \subseteq DOMAIN Teardown
    BY <1>1 DEF Begun, Publishing, HistoryType
  <2>2. /\ late' \in Seq(DOMAIN Teardown) /\ ToSet(late') = ToSet(late) \cup {i}
        /\ Distinct(late')
    BY <2>1, AppendSet
  <2> QED
    BY <1>1, <2>1, <2>2 DEF HistoryType
<1>2. CASE ~ (cancel /\ Publishes(i))
  BY <1>2 DEF Begun, Publishing, HistoryType
<1> QED
  BY <1>1, <1>2

\* Away from the gap before a step and from the end of an agent, nothing is
\* past its check.
LEMMA NothingPastCheck ==
  ASSUME Publishing, pc' \notin {"begin", "republish"}, UNCHANGED <<cancel, inHand, late>>
  PROVE  Publishing'
BY DEF Publishing, HistoryType, PastCheck

LEMMA TeardownPublishes ==
  ASSUME PhaseType, Cleaning, Publishing, TeardownStep
  PROVE  Publishing'
<1>1. UNCHANGED teardownKept
  BY TeardownOutline
<1>2. cancel' = cancel /\ inHand' = inHand
  BY <1>1 DEF teardownKept, mainKept, fixed
<1>3. CASE TeardownNext
  <2>1. late' = late /\ (pc' = "begin" => at' = at /\ ~ SkippedAt(at)) /\ pc' # "republish"
    BY <1>3 DEF TeardownNext, NextStep, Goto
  <2>2. CASE pc' # "begin"
    BY <1>2, <2>1, <2>2, NothingPastCheck
  <2>3. CASE pc' = "begin"
    <3>1. cancel' => \A i \in PastCheck' : ~ Publishes(i)
      BY <1>2, <2>1, <2>3 DEF PastCheck, SkippedAt
    <3> QED
      BY <1>2, <2>1, <3>1 DEF Publishing, HistoryType, Publishes
  <2> QED
    BY <2>2, <2>3
<1>4. CASE TeardownStepBegins \/ RetryStep
  <2>1. at \in PastCheck /\ at \in DOMAIN Teardown /\ Begun(at) /\ pc' = "teardownRun"
    BY <1>4 DEF TeardownStepBegins, RetryStep, PastCheck, Goto, Cleaning
  <2>2. /\ HistoryType' /\ (~ cancel' => inHand' = {} /\ late' = <<>>)
        /\ ToSet(late') \subseteq inHand' /\ Distinct(late')
    BY <1>2, <2>1, BegunKeeps
  <2> QED
    BY <2>1, <2>2 DEF Publishing, PastCheck
<1>5. CASE TeardownOver \/ TeardownStepEnds
  <2>1. late' = late /\ pc' \notin {"begin", "republish"}
    BY <1>5 DEF TeardownOver, TeardownStepEnds, TeardownFailed, TeardownCompletes, NextStep, Goto
  <2> QED
    BY <1>2, <2>1, NothingPastCheck
<1>6. CASE AgentDone
  <2>1. late' = late /\ at \in DOMAIN Teardown
    BY <1>6 DEF AgentDone, Cleaning
  <2>2. CASE cancel
    <3>1. pc' \notin {"begin", "republish"}
      BY <1>6, <2>2 DEF AgentDone, TeardownFailed, TeardownCompletes, NextStep, Goto
    <3> QED
      BY <1>2, <2>1, <3>1, NothingPastCheck
  <2>3. CASE ~ cancel
    <3>1. pc' = "republish" /\ at' = at /\ republish' = Republishing(at)
      BY <1>6, <2>3 DEF AgentDone, Goto
    <3>2. \A j \in republish' : j < at'
      BY <2>1, <3>1, RepublishingFacts
    <3> QED
      BY <1>2, <2>1, <2>3, <3>2 DEF Publishing, HistoryType
  <2> QED
    BY <2>2, <2>3
<1>7. CASE RepublishStep
  <2>1. PICK j \in republish : Begun(j) /\ republish' \in {republish \ {j}, {}}
    BY <1>7 DEF RepublishStep
  <2>2. /\ pc = "republish" /\ pc' = "republish" /\ at' = at
        /\ at \in DOMAIN Teardown /\ republish \subseteq DOMAIN Teardown
    BY <1>7 DEF RepublishStep, Cleaning, PhaseType
  <2>3. j \in PastCheck /\ PastCheck' \subseteq PastCheck \ {j}
    <3>1. j # at
      <4>1. j < at /\ j \in Nat
        BY <2>1, <2>2, PlanFacts DEF Publishing
      <4> QED
        BY <4>1
    <3> QED
      BY <2>1, <2>2, <3>1 DEF PastCheck
  <2>4. /\ HistoryType' /\ (~ cancel' => inHand' = {} /\ late' = <<>>)
        /\ ToSet(late') \subseteq inHand' /\ Distinct(late')
        /\ ToSet(late') \subseteq ToSet(late) \cup {j}
    BY <1>2, <2>1, <2>2, <2>3, BegunKeeps
  <2>5. cancel' => \A i \in PastCheck' : Publishes(i) => i \in inHand' \ ToSet(late')
    BY <1>2, <2>3, <2>4 DEF Publishing
  <2>6. \A i \in republish' : i < at'
    BY <2>1, <2>2 DEF Publishing
  <2> QED
    BY <2>4, <2>5, <2>6 DEF Publishing, Publishes
<1> QED
  BY <1>3, <1>4, <1>5, <1>6, <1>7 DEF TeardownStep

LEMMA CancelPublishes ==
  ASSUME PhaseType, Cleaning, Publishing, RequestCancel
  PROVE  Publishing'
<1>1. /\ ~ cancel /\ inHand' = {i \in PastCheck : Publishes(i)} /\ late' = late
      /\ pc' = pc /\ at' = at /\ republish' = republish
  BY DEF RequestCancel, engine, ending
<1>2. late' = <<>> /\ ToSet(late') = {} /\ Distinct(late')
  BY <1>1, EmptyFacts DEF Publishing
<1>3. PastCheck \subseteq DOMAIN Teardown /\ PastCheck' = PastCheck
  BY <1>1 DEF PastCheck, PhaseType, Cleaning
<1>4. HistoryType'
  BY <1>1, <1>3 DEF HistoryType, Publishing
<1>5. \A i \in PastCheck' : Publishes(i) => i \in inHand' \ ToSet(late')
  BY <1>1, <1>2, <1>3
<1>6. pc' = "republish" => \A j \in republish' : j < at'
  BY <1>1 DEF Publishing
<1> QED
  BY <1>1, <1>2, <1>4, <1>5, <1>6 DEF Publishing, Publishes, RequestCancel

LEMMA PublishingKeeps ==
  ASSUME Safe, [Next]_vars
  PROVE  Publishing'
<1>1. EngineType /\ PhaseType /\ EngineSafe /\ Waiting /\ Cleaning /\ Honest /\ Publishing
  BY TypeSplit DEF Safe
<1>2. CASE Main(MainPhase)
  <2>1. MainPhase /\ UNCHANGED phase
    BY <1>2 DEF Main
  <2>2. Outline
    <3>1. Running
      BY <1>1, <2>1, MainRuns
    <3> QED
      BY <1>1, <2>1, <3>1, EngineOutline, UserOutline DEF MainPhase, PhaseType
  <2>3. pc' \notin {"begin", "republish"} /\ cancel' = cancel
    BY <1>1, <2>1, <2>2, MainRuns DEF Outline, MainPlaces
  <2> QED
    BY <1>1, <2>1, <2>3, NothingPastCheck DEF phase, sinceCancel
<1>3. CASE SetupNext \/ SetupStepEnds \/ SetupError \/ Reconcile \/ FinishRun \/ RecoverCleanup
  <2>1. UNCHANGED <<cancel, inHand, late>> /\ pc' \notin {"begin", "republish"}
    BY <1>3 DEF SetupNext, SetupStepEnds, SetupError, Reconcile, FinishRun, RecoverCleanup,
         mainKept, fixed, phase, sinceCancel, Goto
  <2> QED
    BY <1>1, <2>1, NothingPastCheck
<1>4. CASE Gate
  <2>1. UNCHANGED <<cancel, inHand, late>> /\ pc' \in {"loop", "ended"}
    BY <1>4 DEF Gate, CancelRun, Fail, End, fixed, phase, sinceCancel, Goto
  <2> QED
    BY <1>1, <2>1, NothingPastCheck
<1>5. CASE TeardownStep
  BY <1>1, <1>5, TeardownPublishes
<1>6. CASE RequestCancel
  BY <1>1, <1>6, CancelPublishes
<1>7. CASE Crash \/ Resume \/ RunAgain
  <2>1. inHand' = {} /\ late' = <<>> /\ pc' \in {"down", "setup", "gate"}
    BY <1>7 DEF Crash, Resume, RunAgain, NextEngine, ResumeRun, StartAfresh, PhaseReset, Goto
  <2>2. HistoryType' /\ ToSet(late') = {} /\ Distinct(late')
    BY <2>1, EmptyFacts, EmptyIn DEF HistoryType
  <2> QED
    BY <2>1, <2>2 DEF Publishing, PastCheck
<1>8. CASE UNCHANGED vars
  <2>1. /\ UNCHANGED <<pc, at, republish, cancel, inHand, late>>
    BY <1>8 DEF vars, engine, ending, fixed, phase, sinceCancel
  <2> QED
    BY <1>1, <2>1 DEF Publishing, HistoryType, PastCheck, Publishes
<1> QED
  BY <1>2, <1>3, <1>4, <1>5, <1>6, <1>7, <1>8 DEF Next, PhaseStep, TeardownStep, Finished

----------------------------------------------------------------------------
(* The invariant *)

LEMMA StartSafe ==
  ASSUME Init
  PROVE  Safe
<1>1. /\ run \in Runs /\ status = [s \in Steps |-> "pending"]
      /\ launches = [s \in Steps |-> 0] /\ NoBatch /\ failed = <<>> /\ current = ""
      /\ authUsed = {} /\ retried = {} /\ cancel = FALSE /\ aborted = FALSE
      /\ outcome = "none" /\ pc = "setup" /\ answers = 0
      /\ setupDone = FALSE /\ teardownDone = FALSE /\ teardown = AllWaiting
      /\ at = 1 /\ cleanup = "normal" /\ attempt = 0 /\ republish = {}
      /\ crashes = 0 /\ runs = 1 /\ inHand = {} /\ late = <<>>
  BY DEF Init, AllPending, NoBatch
<1>2. <<>> \in Seq(Steps) /\ <<>> \in Seq(DOMAIN Teardown)
  BY EmptyIn
<1>3. EngineType
  <2>1. active = {} /\ live = {} /\ exits = {} /\ group = {} /\ queue = <<>> /\ toLaunch = <<>>
    BY <1>1 DEF NoBatch
  <2> QED
    BY <1>1, <1>2, <2>1, StatusNames DEF EngineType
<1>4. PhaseType
  <2>1. AllWaiting \in [DOMAIN Teardown -> PhaseTerminal \cup {"pending", "running", "remediating"}]
    BY DEF AllWaiting
  <2>2. /\ answers \in 0..run.board /\ attempt \in 0..MaxAttempts /\ crashes \in 0..MaxCrashes
        /\ runs \in 1..run.times /\ at \in 1..(Len(Teardown) + SetupSteps + 1)
    <3>1. /\ run.board \in Nat /\ run.times \in Nat \ {0} /\ MaxAttempts \in Nat
          /\ MaxCrashes \in Nat /\ SetupSteps \in Nat /\ Len(Teardown) \in Nat
      BY <1>1, RunFacts, PlanFacts
    <3>2. \A n \in Nat : 0 \in 0..n
      OBVIOUS
    <3>3. \A n \in Nat \ {0} : 1 \in 1..n
      OBVIOUS
    <3>4. Len(Teardown) + SetupSteps + 1 \in Nat \ {0}
      BY <3>1
    <3> QED
      BY <1>1, <3>1, <3>2, <3>3, <3>4
  <2> QED
    BY <1>1, <1>2, <2>1, <2>2 DEF PhaseType
<1>5. ~ Running /\ ~ InStep /\ Beginning
  BY <1>1 DEF Running, InStep, Beginning
<1>6. Shape
  BY <1>1, <1>5 DEF Shape, NoBatch
<1>7. Launching = {} /\ Queued = {} /\ FailedOnes = {} /\ Slotted = {} /\ Batch = {}
  <2>1. Launching = {} /\ Queued = {} /\ FailedOnes = {}
    BY <1>1, EmptyFacts DEF Launching, Queued, FailedOnes, NoBatch
  <2>2. Slotted = {} /\ group = {}
    BY <1>1 DEF Slotted, NoBatch
  <2> QED
    BY <2>1, <2>2 DEF Batch
<1>8. Apart
  BY <1>1, <1>7, EmptyFacts DEF Apart, NoBatch
<1>9. SlotsOwned
  <2>1. active = {} /\ live = {} /\ exits = {} /\ Len(toLaunch) = 0
    BY <1>1, EmptyFacts DEF NoBatch
  <2>2. IsFiniteSet({}) /\ Cardinality({}) = 0 /\ run.cap \in Nat \ {0}
    BY <1>1, FS_EmptySet, RunFacts
  <2>3. Cardinality(active) + Len(toLaunch) <= run.cap
    BY <2>1, <2>2
  <2> QED
    BY <2>1, <2>2, <2>3 DEF SlotsOwned
<1>10. StatusPlaced /\ DepsHeld
  BY <1>5, <1>7 DEF StatusPlaced, DepsHeld
<1>11. Counted
  <2>1. ASSUME NEW s \in Steps PROVE Tallied(s)
    <3>1. launches[s] = 0
      BY <1>1
    <3> QED
      BY <3>1 DEF Tallied
  <2> QED
    BY <1>1, <1>5, <2>1 DEF Counted
<1>12. DependenciesFirst /\ Waiting
  BY <1>1 DEF DependenciesFirst, Waiting
<1>13. Cleaning /\ Honest
  <2>1. 1 \in 1..(SetupSteps + 1)
    BY PlanFacts
  <2>2. Cleaning
    BY <1>1, <2>1 DEF Cleaning, Cleaned
  <2>3. Honest
    BY <1>1 DEF Honest
  <2> QED
    BY <2>2, <2>3
<1>14. HistoryType /\ Publishing
  BY <1>1, <1>2, EmptyFacts DEF HistoryType, Publishing, PastCheck
<1> QED
  BY <1>3, <1>4, <1>6, <1>8, <1>9, <1>10, <1>11, <1>12, <1>13, <1>14, TypeSplit
     DEF Safe, EngineSafe

LEMMA StepSafe ==
  ASSUME Safe, [Next]_vars
  PROVE  Safe'
<1>1. EngineType /\ PhaseType /\ EngineSafe /\ Waiting /\ Cleaning /\ Honest
  BY TypeSplit DEF Safe
<1>2. TypeOK' <=> EngineType' /\ PhaseType' /\ HistoryType'
  BY DEF TypeOK, EngineType, PhaseType, HistoryType, Containers, Codes
<1>3. EngineType' /\ PhaseType' /\ EngineSafe' /\ Waiting' /\ Cleaning' /\ Honest'
  <2>1. CASE Main(MainPhase)
    BY <1>1, <2>1, MainKeeps
  <2>2. CASE SetupNext \/ SetupStepEnds \/ SetupError
    BY <1>1, <2>2, SetupKeeps
  <2>3. CASE Gate
    BY <1>1, <2>3, GateKeeps
  <2>4. CASE Reconcile \/ FinishRun
    BY <1>1, <2>4, EndKeeps
  <2>5. CASE TeardownStep
    BY <1>1, <2>5, TeardownKeeps
  <2>6. CASE RequestCancel \/ UNCHANGED vars
    BY <1>1, <2>6, RequestKeeps
  <2>7. CASE Crash \/ Resume \/ RecoverCleanup \/ RunAgain
    BY <1>1, <2>7, NextProcessKeeps
  <2> QED
    BY <2>1, <2>2, <2>3, <2>4, <2>5, <2>6, <2>7 DEF Next, PhaseStep, TeardownStep, Finished
<1>4. Publishing'
  BY PublishingKeeps
<1> QED
  BY <1>2, <1>3, <1>4 DEF Safe, Publishing

\* What the states of a run have in common, whatever the graph, the cap, the
\* plan of the phases and the number of crashes and runs.
THEOREM InductiveInvariant == Spec => []Safe
<1>1. Init => Safe
  BY StartSafe
<1>2. Safe /\ [Next]_vars => Safe'
  BY StepSafe
<1> QED
  BY <1>1, <1>2, PTL DEF Spec

\* Every variable has its type in every run of the workflow.
THEOREM TypeCorrect == Spec => []TypeOK
  BY InductiveInvariant, PTL DEF Safe

\* No retry, restart, rewind or resume makes a step run before its
\* dependencies are finished (next_ready, the boards' resets, rewind_to).
THEOREM StepsOverFinished == Spec => []DependenciesFirst
<1>1. Safe => DependenciesFirst
  BY DEF Safe, EngineSafe
<1> QED
  BY <1>1, InductiveInvariant, PTL

\* active_steps, the saved statuses and the containers never disagree, and
\* max_concurrent is respected.
THEOREM SlotsNeverDisagree == Spec => []SlotsAgree
<1>1. Safe => SlotsAgree
  <2> SUFFICES ASSUME Safe, Running PROVE SlotsAgree
    BY DEF SlotsAgree
  <2>1. With("running") \ Launching = Slotted
    BY DEF Safe, EngineSafe, StatusPlaced
  <2>2. {c.step : c \in active} = {s \in Steps : status[s] = "running"} \ ToSet(toLaunch)
    BY <2>1 DEF With, Launching, Slotted
  <2>3. /\ \A c \in active : c.id = launches[c.step] /\ c \in Containers
        /\ live \subseteq active /\ IsFiniteSet(active) /\ run \in Runs
        /\ toLaunch \in Seq(Steps) /\ Cardinality(active) + Len(toLaunch) <= run.cap
    BY TypeSplit DEF Safe, EngineSafe, SlotsOwned, EngineType
  <2>4. \A c \in active : c = Container(c.step)
    BY <2>3 DEF Container, Containers
  <2>5. Cardinality(active) <= run.cap
    <3>1. Cardinality(active) \in Nat /\ Len(toLaunch) \in Nat /\ run.cap \in Nat
      BY <2>3, FS_CardinalityType, RunFacts
    <3>2. \A a, b, k \in Nat : a + b <= k => a <= k
      OBVIOUS
    <3> QED
      BY <2>3, <3>1, <3>2
  <2> QED
    BY <2>2, <2>3, <2>4, <2>5 DEF SlotsAgree
<1> QED
  BY <1>1, InductiveInvariant, PTL

\* Unattended, no step is launched a fourth time (auth_retries_used,
\* auto_retried_steps).
THEOREM RetriesBounded == Spec => []BoundedRetries
<1>1. Safe => BoundedRetries
  BY DEF Safe, EngineSafe, Counted, Tallied, BoundedRetries
<1> QED
  BY <1>1, InductiveInvariant, PTL

\* The outcome a run reports is what its steps say, also after a late cancel.
THEOREM OutcomesHonest == Spec => []OutcomeHonest
<1>1. Safe => OutcomeHonest
  BY DEF Safe, Honest, OutcomeHonest
<1> QED
  BY <1>1, InductiveInvariant, PTL

\* After a cancel, only what was past its last check is still published, each
\* step once: whatever the plan of the teardown, the number of attempts and
\* the crashes (run_phase_with, run_phase_remediation, republish_ci_fix).
THEOREM PublishingConfined == Spec => []PublishingStops
<1>1. Safe => PublishingStops
  BY DEF Safe, Publishing, PublishingStops, Distinct, IsInjective
<1> QED
  BY <1>1, InductiveInvariant, PTL

----------------------------------------------------------------------------
(* What a step never does *)

\* The main phase, with nobody at a board, keeps the queue of a group that has
\* an unresolved failure.
LEMMA QueueFrozen ==
  ASSUME MainPhase, ~ Attended, pc = "group", failed # <<>>, pc' \in {"group", "launch"}
  PROVE  queue' = queue
<1>1. ~ (\E X : Pause(X)) /\ ~ CancelRun /\ ~ Fail /\ ~ Abort(TRUE)
  BY DEF Pause, CancelRun, Fail, Abort, End
<1>2. CASE AgentEnds
  BY <1>2 DEF AgentEnds, ContainerExits, batch
<1>3. CASE \E x \in exits : DropStale(x)
  BY <1>3 DEF DropStale, batch
<1>4. CASE \E x \in exits : GroupExits(x)
  <2>1. PICK x : GroupExits(x)
    BY <1>4
  <2>2. \/ CancelRun \/ Fail \/ Abort(TRUE)
        \/ FreeSlot(Slot(x), "succeeded", Frozen)
        \/ FreeSlot(Slot(x), "failed", TRUE)
        \/ UNCHANGED queue
    BY <2>1 DEF GroupExits
  <2> QED
    BY <1>1, <2>2 DEF FreeSlot, Frozen
<1>5. CASE \E c \in active : GroupYoloAdvance(c)
  BY <1>5 DEF GroupYoloAdvance, FreeSlot, Frozen
<1>6. CASE GroupCancelled \/ GroupDrained
  BY <1>1, <1>6 DEF GroupCancelled, GroupDrained, Goto, Frozen
<1>7. ~ UserAnswers
  BY DEF UserAnswers, MidStepBoard, BetweenBoard, GroupBoard, FailureBoard, Answer
<1>8. CASE \/ Loop \/ LaunchStep \/ LaunchFails \/ StepSucceeds \/ StepFails \/ StepWaitFails
           \/ StepCancelled \/ CountdownStops \/ CountdownExpires \/ BetweenAdvance
           \/ FailureCancelled \/ FailureUnattended \/ RetryFailed
           \/ StepStuck \/ StuckUnattended
  BY <1>8 DEF InStep, Silent, Loop, LaunchStep,
       LaunchFails, StepSucceeds, StepFails, StepWaitFails, StepCancelled, CountdownStops,
       CountdownExpires, BetweenAdvance, FailureCancelled, FailureUnattended, RetryFailed,
       StepStuck, StuckUnattended
<1> QED
  BY <1>2, <1>3, <1>4, <1>5, <1>6, <1>7, <1>8 DEF MainPhase, EngineStep, EngineEvent

\* Unattended, no queued step is started while a failure of the group is
\* undecided (run_parallel_group).
THEOREM QueueStaysFrozen == Spec => FrozenQueue
<1>1. [Next]_vars =>
        (~Attended /\ pc = "group" /\ failed # <<>> /\ pc' \in {"group", "launch"} =>
           queue' = queue)
  <2> SUFFICES ASSUME [Next]_vars, ~Attended, pc = "group", failed # <<>>,
                      pc' \in {"group", "launch"}
               PROVE  queue' = queue
    OBVIOUS
  <2>1. CASE Main(MainPhase)
    BY <2>1, QueueFrozen DEF Main
  <2>2. CASE RequestCancel \/ UNCHANGED vars
    BY <2>2 DEF RequestCancel, vars, engine, batch
  <2>3. CASE Crash
    BY <2>3 DEF Crash, Goto
  <2>4. ~ (PhaseStep \/ SetupError \/ Resume \/ RecoverCleanup \/ RunAgain)
    BY DEF PhaseStep, SetupError, Resume, RecoverCleanup, RunAgain, SetupNext, SetupStepEnds,
       Gate, Reconcile, FinishRun, TeardownNext, TeardownStepBegins, TeardownOver,
       TeardownStepEnds, AgentDone, RepublishStep, RetryStep
  <2> QED
    BY <2>1, <2>2, <2>3, <2>4 DEF Next, Finished
<1> QED
  BY <1>1, PTL DEF Spec, FrozenQueue

\* Which steps change an entry of the teardown.
LEMMA EntriesChange ==
  ASSUME Safe, [Next]_vars, teardown' # teardown
  PROVE  \/ TeardownStep /\ Cleaned /\ Entered /\ UNCHANGED cancel
         \/ pc = "ended" /\ teardown' = AllWaiting
         \/ StartAfresh /\ (~ cancel \/ ~ cancel')
<1>1. CASE TeardownStep
  <2>1. Cleaned /\ Entered /\ UNCHANGED teardownKept
    BY <1>1, TypeSplit, TeardownOutline DEF Safe
  <2> QED
    BY <1>1, <2>1 DEF teardownKept, mainKept, fixed
<1>2. CASE Reconcile
  BY <1>2 DEF Reconcile
<1>3. CASE Resume \/ RunAgain
  <2>1. ~ cancel \/ ~ cancel'
    BY <1>3 DEF Resume, RunAgain
  <2>2. StartAfresh
    BY <1>3 DEF Resume, RunAgain, NextEngine, ResumeRun, stateFile
  <2> QED
    BY <2>1, <2>2
<1>4. ~ Main(MainPhase)
  BY DEF Main, stateFile
<1>5. ~ (SetupNext \/ SetupStepEnds \/ SetupError \/ Gate \/ FinishRun)
  BY DEF SetupNext, SetupStepEnds, SetupError, Gate, FinishRun, stateFile
<1>6. ~ (RequestCancel \/ Crash \/ RecoverCleanup \/ UNCHANGED vars)
  BY DEF RequestCancel, Crash, RecoverCleanup, stateFile, vars
<1> QED
  BY <1>1, <1>2, <1>3, <1>4, <1>5, <1>6 DEF Next, PhaseStep, TeardownStep, Finished

\* A cancelled run's cleanup entries that are over are not touched again,
\* however often the process dies (resume_teardown_cancelled).
THEOREM CleanedOnce == Spec => CleanupOnce
<1>1. Safe /\ [Next]_vars =>
        \A i \in DOMAIN Teardown :
          cancel /\ cancel' /\ pc # "ended" /\ teardown[i] \in PhaseTerminal =>
            teardown'[i] = teardown[i]
  <2> SUFFICES ASSUME Safe, [Next]_vars, NEW i \in DOMAIN Teardown,
                      cancel, cancel', pc # "ended", teardown[i] \in PhaseTerminal,
                      teardown' # teardown
               PROVE  teardown'[i] = teardown[i]
    OBVIOUS
  <2>1. Cleaned /\ Entered
    BY EntriesChange
  <2>2. PhaseType /\ Cleaning /\ at \in DOMAIN Teardown
    BY <2>1, TypeSplit DEF Safe, Entered
  <2>3. PICK v : Mark(v)
    BY <2>1 DEF Entered
  <2>4. teardown[i] \notin {"pending", "running", "remediating"}
    BY DEF PhaseTerminal
  <2>5. i # at
    <3> SUFFICES ASSUME i = at PROVE FALSE
      OBVIOUS
    <3>1. pc = "teardown"
      BY <2>1, <2>2, <2>4 DEF Cleaned, Cleaning
    <3>2. cleanup = "recovery"
      BY <2>1, <2>2, <2>4, <3>1 DEF Cleaning
    <3>3. AlreadyOver(at)
      BY <3>2 DEF AlreadyOver
    <3> QED
      BY <2>1, <2>2, <3>1, <3>3 DEF Entered
  <2> QED
    BY <2>2, <2>3, <2>5, MarkFacts
<1> QED
  BY <1>1, InductiveInvariant, PTL DEF Spec, CleanupOnce

----------------------------------------------------------------------------
(* What the graph gives the run *)

\* WorkflowDag::build, topological_order, the dependents of a group and the
\* points to resume at keep their promises: proved for every graph
\* (EveryGraphLawful), so also for the small ones a run of TLC looks at.
THEOREM DagsLawful == Spec => []DagLaws
<1>1. DagLaws
  BY SmallGraphs, EveryGraphLawful DEF DagLaws
<1> QED
  BY <1>1, PTL

\* The head of run_to_completion always finds a step to start while one is not
\* done, whatever failed, was skipped, rewound, restarted or resumed before.
NeverStalls == pc = "loop" /\ Completed(status) # Steps => ReadySteps(run.dag, Completed(status)) # <<>>

\* The error "no steps are ready" of run_to_completion's head never ends a run:
\* it leaves its loop when all is over or a cancel is seen.
LoopEndsInOrder == [][pc = "loop" /\ pc' = "ended" => outcome' \in {"completed", "cancelled"}]_vars

\* What is done in `st` rests on done steps, and a step is ready.
Startable(st) ==
  /\ \A s \in Completed(st) : DepsOf(run.dag, s) \subseteq Completed(st)
  /\ ReadySteps(run.dag, Completed(st)) # <<>>

\* A run that starts on a saved state counts steps as done over done steps
\* only, and has one to start (offer_state_resume, rewind_to, resume).
StartsSound ==
  [][Steps # {} /\ pc \in {"down", "done"} /\ pc' \in {"gate", "setup"} =>
       Startable(status')]_vars

LEMMA RunsGraph ==
  ASSUME run \in Runs, status \in [Steps -> Status]
  PROVE  /\ WellFormed(run.dag) /\ BuildAccepts(run.dag)
         /\ Completed(status) \subseteq Steps
         /\ Completed(status) # Steps => ReadySteps(run.dag, Completed(status)) # <<>>
<1>1. WellFormed(run.dag) /\ BuildAccepts(run.dag)
  BY EngineAssumption
<1>2. Completed(status) \subseteq Steps
  BY DEF Completed
<1>3. ASSUME Completed(status) # Steps PROVE ReadySteps(run.dag, Completed(status)) # <<>>
  <2>1. ~ (StepsOf(run.dag) \subseteq Completed(status))
    BY <1>2, <1>3 DEF Steps
  <2> QED
    BY <1>1, <2>1, ReadyUnlessDone
<1> QED
  BY <1>1, <1>2, <1>3

\* The main loop is never left with steps to do and none to start.
THEOREM LoopNeverStalls == Spec => []NeverStalls
<1>1. Safe => NeverStalls
  BY TypeSplit, RunsGraph DEF Safe, EngineType, NeverStalls
<1> QED
  BY <1>1, InductiveInvariant, PTL

\* A run's loop ends it as completed or cancelled, never for want of a step.
THEOREM LoopLeftInOrder == Spec => LoopEndsInOrder
<1>1. Safe /\ [Next]_vars =>
        (pc = "loop" /\ pc' = "ended" => outcome' \in {"completed", "cancelled"})
  <2> SUFFICES ASSUME Safe, [Next]_vars, pc = "loop", pc' = "ended"
               PROVE  outcome' \in {"completed", "cancelled"}
    OBVIOUS
  <2>1. CASE Main(MainPhase)
    <3>1. Loop
      <4>1. ~ (LaunchStep \/ LaunchFails \/ StepSucceeds \/ StepFails \/ StepWaitFails
               \/ StepCancelled \/ CountdownStops \/ CountdownExpires \/ BetweenAdvance
               \/ GroupCancelled \/ GroupDrained \/ FailureCancelled \/ FailureUnattended
               \/ RetryFailed \/ StepStuck \/ StuckUnattended)
        BY DEF InStep, Silent, LaunchStep, LaunchFails, StepSucceeds, StepFails,
             StepWaitFails, StepCancelled, CountdownStops, CountdownExpires,
             BetweenAdvance, GroupCancelled, GroupDrained, FailureCancelled,
             FailureUnattended, RetryFailed, StepStuck, StuckUnattended
      <4>2. ~ ((\E x \in exits : DropStale(x) \/ GroupExits(x)) \/ AgentEnds
               \/ (\E c \in active : GroupYoloAdvance(c)))
        BY DEF DropStale, GroupExits, AgentEnds, GroupYoloAdvance, ContainerExits, ending
      <4>3. ~ UserAnswers
        BY DEF UserAnswers, MidStepBoard, BetweenBoard, GroupBoard, FailureBoard, InStep
      <4> QED
        BY <2>1, <4>1, <4>2, <4>3 DEF Main, MainPhase, EngineStep, EngineEvent
    <3>2. ~ IsComplete(status) => ReadySteps(run.dag, Completed(status)) # <<>>
      <4>1. ~ IsComplete(status) => Completed(status) # Steps
        BY TypeSplit DEF Safe, EngineType, IsComplete, Completed, Terminal
      <4> QED
        BY <4>1, TypeSplit, RunsGraph DEF Safe, EngineType
    <3> QED
      BY <3>1, <3>2 DEF Loop, CancelRun, End, Goto
  <2>2. ~ (PhaseStep \/ SetupError \/ Resume \/ RecoverCleanup \/ RunAgain \/ Crash)
    BY DEF PhaseStep, SetupError, Resume, RecoverCleanup, RunAgain, SetupNext, SetupStepEnds,
       Gate, Reconcile, FinishRun, TeardownNext, TeardownStepBegins, TeardownOver,
       TeardownStepEnds, AgentDone, RepublishStep, RetryStep, Crash, Goto
  <2>3. ~ (RequestCancel \/ UNCHANGED vars)
    BY DEF RequestCancel, engine, ending, vars
  <2> QED
    BY <2>1, <2>2, <2>3 DEF Next, Finished
<1> QED
  BY <1>1, InductiveInvariant, PTL DEF Spec, LoopEndsInOrder

\* Whatever run died or ended where, the next one can start.
THEOREM RestartsSound == Spec => StartsSound
<1>1. Safe /\ [Next]_vars =>
        (Steps # {} /\ pc \in {"down", "done"} /\ pc' \in {"gate", "setup"} =>
           Startable(status'))
  <2> SUFFICES ASSUME Safe, [Next]_vars, pc \in {"down", "done"}, pc' \in {"gate", "setup"},
                      Steps # {}
               PROVE  Startable(status')
    OBVIOUS
  <2>1. /\ WellFormed(run.dag) /\ BuildAccepts(run.dag) /\ status \in [Steps -> Status]
    BY TypeSplit, RunsGraph DEF Safe, EngineType
  <2>2. NextEngine
    <3>1. ~ Main(MainPhase)
      BY TypeSplit, MainRuns DEF Safe, Main, Running
    <3>2. ~ (PhaseStep \/ SetupError \/ RequestCancel \/ UNCHANGED vars)
      BY DEF PhaseStep, SetupError, RequestCancel, SetupNext, SetupStepEnds,
         Gate, Reconcile, FinishRun, TeardownNext, TeardownStepBegins, TeardownOver,
         TeardownStepEnds, AgentDone, RepublishStep, RetryStep, engine, ending, vars
    <3>3. ~ (RecoverCleanup \/ Crash)
      BY DEF RecoverCleanup, Crash, Goto
    <3> QED
      BY <3>1, <3>2, <3>3 DEF Next, Finished, Resume, RunAgain
  <2>3. CASE ResumeRun
    <3>1. PICK start \in ResumePoints :
                 status' = ResetUnfinished(RewindTo(run.dag, status, start))
      BY <2>3 DEF ResumeRun, Fresh
    <3>2. ResumePoints \subseteq StepsOf(run.dag)
      <4>1. ResumeStartPoints(run.dag, status) \subseteq StepsOf(run.dag)
        BY <2>1, StartPoints DEF Steps
      <4>2. ResumeStopPoint(run.dag, status) # 0 =>
              Order[ResumeStopPoint(run.dag, status)] \in StepsOf(run.dag)
        <5>1. ResumeStopPoint(run.dag, status) # 0 =>
                ResumeStopPoint(run.dag, status) \in DOMAIN Order
          BY <2>1, StopPoint DEF Steps, Order
        <5>2. \A i \in DOMAIN Order : Order[i] \in StepsOf(run.dag)
          BY <2>1, PlaceFacts DEF Order
        <5> QED
          BY <5>1, <5>2
      <4> QED
        BY <4>1, <4>2 DEF ResumePoints
    <3>3. start \in StepsOf(run.dag)
      BY <3>1, <3>2
    <3> DEFINE C == Completed(ResetUnfinished(RewindTo(run.dag, status, start)))
    <3>4. /\ start \in ToSet(ReadySteps(run.dag, C))
          /\ \A s \in C : DepsOf(run.dag, s) \subseteq C
      BY <2>1, <3>3, ResumableAnywhere DEF Steps
    <3>5. Completed(status') = C
      BY <3>1
    <3> HIDE DEF C
    <3> QED
      BY <3>4, <3>5, EmptyFacts DEF Startable
  <2>4. CASE StartAfresh
    <3>1. status' = AllPending
      BY <2>4 DEF StartAfresh, Fresh
    <3>2. Completed(status') = {}
      BY <3>1 DEF AllPending, Completed, Done
    <3>3. ~ (StepsOf(run.dag) \subseteq {})
      BY DEF Steps
    <3>4. ReadySteps(run.dag, {}) # <<>>
      BY <2>1, <3>3, ReadyUnlessDone
    <3> QED
      BY <3>2, <3>4 DEF Startable
  <2> QED
    BY <2>2, <2>3, <2>4 DEF NextEngine
<1> QED
  BY <1>1, InductiveInvariant, PTL DEF Spec, StartsSound
=============================================================================
