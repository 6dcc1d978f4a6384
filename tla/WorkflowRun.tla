----------------------------- MODULE WorkflowRun -----------------------------
(***************************************************************************)
(* A whole `exec workflow`: setup, the main phase (WorkflowEngine) and     *)
(* teardown, the cancel of an API client, the death of the process at any  *)
(* step, and what the next process does with the state file it finds: it   *)
(* finishes the cleanup of a cancelled run, or resumes the run.            *)
(*                                                                         *)
(* When and by whom a run is started again, and its surviving containers   *)
(* stopped, is CommandQueue's concern.                                     *)
(***************************************************************************)
EXTENDS WorkflowEngine

CONSTANTS
  SetupSteps,      \* how many setup steps the workflow has
  Teardown,        \* its teardown steps, by kind
  Remediated,      \* the places of those with an on_failure agent
  MaxAttempts,     \* its max_attempts
  MaxCrashes       \* bound: how often the process may die

ASSUME RunAssumption ==
  /\ SetupSteps \in Nat
  /\ Teardown \in Seq({"commit", "push", "poll", "shell"})
  /\ Remediated \subseteq DOMAIN Teardown
  /\ MaxAttempts \in Nat /\ MaxCrashes \in Nat

VARIABLES
  setupDone, teardownDone,   \* setup_completed, teardown_completed (state file)
  teardown,     \* teardown_step_states (state file)
  at,           \* the phase step that is next, or runs
  cleanup,      \* how teardown runs: "normal", "cancelled" or "recovery"
  attempt,      \* remediation attempts of the step that runs
  republish,    \* the steps that publish the agent's fix, still to run
  inHand,       \* history: the publishing steps that were past the last look
                \* at the cancel when it was requested
  late,         \* history: the publishing steps begun since, oldest first
  crashes, runs \* how often the process died, and the workflow was started

stateFile == <<setupDone, teardownDone, teardown>>
sinceCancel == <<inHand, late>>
phase == <<at, cleanup, attempt, republish, sinceCancel>>
bounds == <<crashes, runs>>
vars == <<engine, fixed, stateFile, phase, bounds>>

PhaseTerminal == {"succeeded", "skipped", "failed"}
AllWaiting == [i \in DOMAIN Teardown |-> "pending"]

Init ==
  /\ run \in Runs /\ status = AllPending /\ launches = [s \in Steps |-> 0]
  /\ active = {} /\ live = {} /\ exits = {} /\ group = {} /\ queue = <<>>
  /\ toLaunch = <<>> /\ failed = <<>> /\ current = "" /\ authUsed = {} /\ retried = {}
  /\ cancel = FALSE /\ aborted = FALSE /\ outcome = "none" /\ pc = "setup" /\ answers = 0
  /\ setupDone = FALSE /\ teardownDone = FALSE /\ teardown = AllWaiting
  /\ at = 1 /\ cleanup = "normal" /\ attempt = 0 /\ republish = {}
  /\ inHand = {} /\ late = <<>> /\ crashes = 0 /\ runs = 1

\* A step of a phase: the main phase's own variables stay.
mainKept == <<status, launches, slots, batch, recovery, outcome, current, fixed, bounds>>

----------------------------------------------------------------------------
(* Setup: run_phase *)

SetupNext ==
  /\ pc = "setup" /\ UNCHANGED <<mainKept, aborted, teardownDone, teardown, phase>>
  /\ IF at > SetupSteps THEN setupDone' = TRUE /\ Goto("gate")
     ELSE Goto(IF cancel THEN "gate" ELSE "setupRun") /\ UNCHANGED setupDone

\* A failure that raced a cancel is the cancel's; any other one aborts the
\* run, or is passed over.
SetupStepEnds ==
  /\ pc = "setupRun" /\ UNCHANGED <<mainKept, stateFile, cleanup, attempt, republish>>
  /\ UNCHANGED sinceCancel
  /\ \/ /\ at' = at + 1 /\ Goto("setup") /\ UNCHANGED aborted
     \/ /\ cancel /\ Goto("gate") /\ UNCHANGED <<aborted, at>>
     \/ /\ ~cancel
        /\ IF "setup" \in run.aborts
           THEN aborted' = TRUE /\ Goto("gateFailed") /\ UNCHANGED at
           ELSE at' = at + 1 /\ Goto("setup") /\ UNCHANGED aborted

\* The overlays of a step cannot be resolved, or the phase returns an error.
SetupError ==
  /\ pc = "setup" /\ ~setupDone /\ Goto("gateFailed")
  /\ UNCHANGED <<mainKept, aborted, stateFile, phase>>

\* A cancel wins over a failed setup; either keeps the main phase from
\* starting.
Gate ==
  /\ pc \in {"gate", "gateFailed"} /\ UNCHANGED <<fixed, stateFile, phase, bounds>>
  /\ IF cancel THEN CancelRun
     ELSE IF pc = "gateFailed" THEN Fail
     ELSE Goto("loop") /\ UNCHANGED <<status, launches, slots, batch, recovery, ending, current>>

----------------------------------------------------------------------------
(* Between the main phase and teardown, and after it *)

TeardownApplies(o) ==
  /\ Teardown # <<>>
  /\ o \in {"cancelled", "completed"} \/ run.cleanup

\* Mutant of CancelEndedRun: an earlier abort_on_failure keeps teardown from running.
CancelAbortedRun == CancelUnfinished /\ UNCHANGED aborted /\ outcome' = "cancelled"

\* cancel_run, where a cancel is found after the main phase.
CancelEndedRun ==
  /\ CancelUnfinished /\ aborted' = FALSE /\ outcome' = "cancelled"

Reconcile ==
  /\ pc = "ended"
  /\ IF cancel THEN CancelEndedRun ELSE UNCHANGED <<status, aborted, outcome>>
  /\ IF TeardownApplies(outcome') /\ ~aborted'
     THEN /\ Goto("teardown") /\ teardown' = AllWaiting /\ at' = 1 /\ attempt' = 0
          /\ cleanup' = IF outcome' = "cancelled" THEN "cancelled" ELSE "normal"
     ELSE Goto("late") /\ UNCHANGED <<teardown, at, attempt, cleanup>>
  /\ UNCHANGED <<launches, slots, batch, recovery, current, fixed, bounds, setupDone,
                 teardownDone, republish, sinceCancel>>

\* A cancel during teardown, or after the main phase with no teardown to run.
FinishRun ==
  /\ pc = "late" /\ Goto("done")
  /\ CASE outcome # "cancelled" /\ cancel /\ ~aborted -> CancelEndedRun
       [] outcome = "completed" /\ ~cancel /\ \E i \in DOMAIN teardown : teardown[i] = "failed" ->
            outcome' = "teardown_failed" /\ UNCHANGED <<status, aborted>>
       [] OTHER -> UNCHANGED <<status, aborted, outcome>>
  /\ UNCHANGED <<launches, slots, batch, recovery, current, fixed, bounds, stateFile, phase>>

----------------------------------------------------------------------------
(* Teardown: run_phase, run_teardown_cancelled, resume_teardown_cancelled *)

Publishes(i) == Teardown[i] \in {"push", "poll"}

\* The earlier steps that bring an agent's fix of a failed poll to the remote.
Republishing(i) ==
  {j \in 1..(i-1) : Teardown[i] = "poll" /\ Teardown[j] \in {"commit", "push"}}

\* Mutant of AlreadyOver: failed and skipped entries are repeated.
AlreadySucceeded(i) == cleanup = "recovery" /\ teardown[i] = "succeeded"

\* A cancel switches the rest of a normal teardown to cancelled cleanup.
SkippedAt(i) == Publishes(i) /\ (cleanup # "normal" \/ cancel)
AlreadyOver(i) == cleanup = "recovery" /\ teardown[i] \in PhaseTerminal

teardownKept == <<mainKept, aborted, setupDone, cleanup, inHand>>
Mark(v) == teardown' = [teardown EXCEPT ![at] = v]
NextStep == at' = at + 1 /\ attempt' = 0 /\ republish' = {} /\ Goto("teardown")

TeardownNext ==
  /\ pc = "teardown" /\ at <= Len(Teardown)
  /\ CASE AlreadyOver(at) -> NextStep /\ UNCHANGED teardown
       [] ~AlreadyOver(at) /\ SkippedAt(at) -> Mark("skipped") /\ NextStep
       [] OTHER -> Mark("running") /\ Goto("begin") /\ UNCHANGED <<at, attempt, republish>>
  /\ UNCHANGED <<teardownKept, teardownDone, late>>

\* The command of a step starts; a cancel does not keep it from doing so.
Begun(i) == late' = IF cancel /\ Publishes(i) THEN Append(late, i) ELSE late

\* run_single_phase_step, once the entry is saved as `running`.
TeardownStepBegins ==
  /\ pc = "begin" /\ Goto("teardownRun") /\ Begun(at)
  /\ UNCHANGED <<teardownKept, teardown, teardownDone, at, attempt, republish>>

TeardownCompletes ==
  /\ teardownDone' = TRUE /\ Goto("late")
  /\ UNCHANGED <<at, attempt, republish>>

TeardownOver ==
  /\ pc = "teardown" /\ at > Len(Teardown)
  /\ TeardownCompletes /\ UNCHANGED <<teardownKept, teardown, late>>

\* The step failed for good: the next one runs, unless it aborts the phase.
TeardownFailed ==
  /\ Mark("failed")
  /\ IF "teardown" \in run.aborts THEN TeardownCompletes
     ELSE NextStep /\ UNCHANGED teardownDone

\* Mutant of Remediates: one attempt too many.
RemediatesOnceMore ==
  cleanup = "normal" /\ ~cancel /\ at \in Remediated /\ attempt <= MaxAttempts

\* An on_failure agent is tried, never once a cancel is requested.
Remediates == cleanup = "normal" /\ ~cancel /\ at \in Remediated /\ attempt < MaxAttempts

TeardownStepEnds ==
  /\ pc = "teardownRun" /\ UNCHANGED <<teardownKept, late>>
  /\ \/ Mark("succeeded") /\ NextStep /\ UNCHANGED teardownDone
     \/ IF Remediates
        THEN /\ Mark("remediating") /\ attempt' = attempt + 1 /\ Goto("agent")
             /\ UNCHANGED <<at, republish, teardownDone>>
        ELSE TeardownFailed

\* Mutant of AgentDone: the cancel is not looked at when the agent ended.
AgentDoneAnyway ==
  /\ pc = "agent" /\ republish' = Republishing(at) /\ Goto("republish")
  /\ UNCHANGED <<teardownKept, teardown, teardownDone, at, attempt, late>>

\* run_phase_remediation: the agent ended, or the cancel stopped it.
AgentDone ==
  /\ pc = "agent" /\ UNCHANGED <<teardownKept, late>>
  /\ IF cancel THEN TeardownFailed
     ELSE /\ republish' = Republishing(at) /\ Goto("republish")
          /\ UNCHANGED <<teardown, teardownDone, at, attempt>>

\* republish_ci_fix: the earlier steps again, in order, up to the first that
\* fails; then the remediated step itself.  Neither looks at the cancel.
RepublishStep ==
  /\ pc = "republish" /\ UNCHANGED <<teardownKept, teardown, teardownDone, at, attempt, pc>>
  /\ \E j \in republish :
       /\ \A k \in republish : j <= k
       /\ Begun(j) /\ republish' \in {republish \ {j}, {}}

RetryStep ==
  /\ pc = "republish" /\ republish = {}
  /\ Mark("running") /\ Goto("teardownRun") /\ Begun(at)
  /\ UNCHANGED <<teardownKept, teardownDone, at, attempt, republish>>

----------------------------------------------------------------------------
(* Cancel, death, and the next process *)

\* The steps of the teardown that will begin without another look at the
\* cancel: the one just saved as `running`, or what follows an agent.
PastCheck ==
  CASE pc = "begin" -> {at}
    [] pc = "republish" -> republish \cup {at}
    [] OTHER -> {}

\* POST /v1/commands/{id}/cancel: the runs of the API server have nobody at
\* a board.
RequestCancel ==
  /\ ~Attended /\ ~cancel /\ pc \notin {"down", "done"}
  /\ cancel' = TRUE /\ inHand' = {i \in PastCheck : Publishes(i)}
  /\ UNCHANGED <<engine, run, answers, stateFile, at, cleanup, attempt, republish, late, bounds>>

\* A process starts with no phase of its own begun.
PhaseReset ==
  /\ at' = 1 /\ cleanup' = "normal" /\ attempt' = 0 /\ republish' = {}
  /\ inHand' = {} /\ late' = <<>>

Crash ==
  /\ pc \notin {"down", "done"} /\ crashes < MaxCrashes
  /\ crashes' = crashes + 1 /\ Goto("down")
  /\ Clear /\ outcome' = "none" /\ aborted' = FALSE
  /\ PhaseReset
  /\ UNCHANGED <<status, fixed, stateFile, runs>>

\* offer_state_resume: where the next run starts.  Nobody at the keyboard:
\* the step the run stopped on.  A run with nothing left starts afresh.
ResumePoints ==
  IF Attended \/ ResumeStopPoint(run.dag, status) = 0
  THEN ResumeStartPoints(run.dag, status)
  ELSE {Order[ResumeStopPoint(run.dag, status)]}

\* A new engine on the state file, or on a fresh state.
ResumeRun ==
  /\ \E start \in ResumePoints : Fresh(ResetUnfinished(RewindTo(run.dag, status, start)))
  /\ Goto(IF setupDone THEN "gate" ELSE "setup") /\ UNCHANGED stateFile

StartAfresh ==
  /\ Attended \/ ResumePoints = {}
  /\ Fresh(AllPending) /\ Goto("setup")
  /\ setupDone' = FALSE /\ teardownDone' = FALSE /\ teardown' = AllWaiting

NextEngine ==
  /\ ResumeRun \/ StartAfresh
  /\ PhaseReset

Resume ==
  /\ pc = "down" /\ ~cancel
  /\ NextEngine /\ UNCHANGED <<fixed, bounds>>

\* finish_cancelled_cleanup: main steps are not run again, nor are the cleanup
\* entries that are over.
RecoverCleanup ==
  LET st == ResetUnfinished(status) IN
  /\ pc = "down" /\ cancel
  /\ status' = SetAll(st, {s \in Steps : st[s] \notin Done}, "cancelled")
  /\ aborted' = FALSE /\ outcome' = "cancelled"
  /\ at' = 1 /\ cleanup' = "recovery" /\ attempt' = 0 /\ republish' = {}
  /\ Goto(IF teardownDone \/ Teardown = <<>> THEN "late" ELSE "teardown")
  /\ UNCHANGED <<launches, slots, batch, recovery, current, fixed, bounds, stateFile, sinceCancel>>

\* The workflow is run again and finds what this run left.
RunAgain ==
  /\ pc = "done" /\ runs < run.times
  /\ runs' = runs + 1 /\ cancel' = FALSE
  /\ NextEngine /\ UNCHANGED <<run, answers, crashes>>

Finished == pc = "done" /\ UNCHANGED vars

PhaseStep ==
  \/ SetupNext \/ SetupStepEnds \/ Gate \/ Reconcile \/ FinishRun
  \/ TeardownNext \/ TeardownStepBegins \/ TeardownOver \/ TeardownStepEnds
  \/ AgentDone \/ RepublishStep \/ RetryStep

Main(A) == A /\ UNCHANGED <<stateFile, phase, bounds>>

Next ==
  \/ Main(MainPhase) \/ PhaseStep \/ SetupError
  \/ RequestCancel \/ Crash \/ Resume \/ RecoverCleanup \/ RunAgain \/ Finished

Spec == Init /\ [][Next]_vars

\* The scheduler runs the engine's tasks and the phases' threads; agents end.
FairSpec ==
  /\ Spec
  /\ WF_vars(Main(EngineStep)) /\ WF_vars(Main(AgentEnds)) /\ WF_vars(PhaseStep)
  /\ WF_vars(Resume \/ RecoverCleanup)

----------------------------------------------------------------------------
(* Properties *)

\* Every variable has its type.
TypeOK ==
  LET C == [step : Steps, id : Nat] IN
  /\ run \in Runs /\ status \in [Steps -> Status] /\ launches \in [Steps -> Nat]
  /\ active \subseteq C /\ live \subseteq C
  /\ \A x \in exits : Slot(x) \in C /\ x.code \in {"ok", "fail", "auth", "error"}
  /\ group \subseteq Steps
  /\ \A q \in {queue, toLaunch, failed} : q \in Seq(Steps)
  /\ current \in Steps \cup {""} /\ authUsed \subseteq Steps /\ retried \subseteq Steps
  /\ cancel \in BOOLEAN /\ aborted \in BOOLEAN /\ answers \in 0..run.board
  /\ outcome \in {"none", "completed", "cancelled", "aborted", "paused", "failed",
                  "error", "teardown_failed"}
  /\ pc \in {"setup", "setupRun", "gate", "gateFailed", "loop", "launch", "single",
             "countdown", "between", "group", "failures", "retry", "ended", "teardown",
             "begin", "teardownRun", "agent", "republish", "late", "done", "down"}
  /\ setupDone \in BOOLEAN /\ teardownDone \in BOOLEAN
  /\ teardown \in [DOMAIN Teardown -> PhaseTerminal \cup {"pending", "running", "remediating"}]
  /\ at \in 1..(Len(Teardown) + SetupSteps + 1)
  /\ cleanup \in {"normal", "cancelled", "recovery"}
  /\ attempt \in 0..MaxAttempts /\ republish \subseteq DOMAIN Teardown
  /\ inHand \subseteq DOMAIN Teardown /\ late \in Seq(DOMAIN Teardown)
  /\ crashes \in 0..MaxCrashes /\ runs \in 1..run.times

\* WorkflowDag::build accepts exactly the graphs whose references resolve and
\* in which no steps wait for each other; topological_order puts every step of
\* those after its dependencies; and whatever states a run left, there is a
\* point to resume at unless everything is done, and each offered point can
\* run at once after rewind_to, over finished dependencies only.  It is about
\* every small graph, not about the state, so it is looked at once.
DagLaws == Init => \A dag \in AllGraphs : Lawful(dag)

\* A step runs only over finished dependencies, whatever was retried, rewound,
\* restarted, skipped or resumed before (next_ready, the boards' resets,
\* rewind_to).
DependenciesFirst ==
  \A s \in Steps : status[s] = "running" => DepsOf(run.dag, s) \subseteq Completed(status)

\* While the engine runs, its slots, the statuses and the containers agree: a
\* step is `running` exactly when it has a slot (or is being restarted), for
\* its newest container; no container runs without a slot; and the slots
\* respect the cap.
SlotsAgree ==
  Running =>
    /\ {c.step : c \in active} = {s \in Steps : status[s] = "running"} \ ToSet(toLaunch)
    /\ \A c \in active : c = Container(c.step)
    /\ live \subseteq active
    /\ Cardinality(active) <= run.cap

\* With nobody at a board, an unresolved failure freezes the group's queue:
\* whatever its peers do, exit, be passed over by yolo or be relaunched after
\* an authentication failure, no queued step is started.
FrozenQueue ==
  [][~Attended /\ pc = "group" /\ failed # <<>> /\ pc' \in {"group", "launch"} =>
       queue' = queue]_vars

\* With nobody at a board, one run starts a step at most three times: once,
\* once more after an authentication failure and once more after a failure
\* (auth_retries_used, auto_retried_steps), in groups and alone.
BoundedRetries == ~Attended => \A s \in Steps : launches[s] <= 3

\* The reported outcome is what the steps say, also when it is decided late:
\* a completed run left nothing to do (and, unattended, nothing cancelled), a
\* failed one has its failed step and cancelled the rest, a cancelled one
\* leaves no step that a reader would take for unfinished business.
OutcomeHonest ==
  pc \in {"ended", "late", "done"} =>
    /\ outcome \in {"completed", "teardown_failed"} =>
         \A s \in Steps : status[s] \in IF Attended THEN Done \cup {"cancelled"} ELSE Done
    /\ outcome = "failed" =>
         /\ \E s \in Steps : status[s] = "failed"
         /\ \A s \in Steps : status[s] \in Done \cup {"failed", "cancelled"}
    /\ outcome \in {"cancelled", "aborted"} =>
         \A s \in Steps : status[s] \in Done \cup {"cancelled"}

\* A cancel stops the publishing.  Of the pushes, pull requests and polls of
\* the teardown only those still begin that were past the last look at the
\* cancel when it came, and each at most once: the step whose check is over
\* but whose command has not started (run_phase_with saves the entry between
\* the two), or, when an on_failure agent of a failed step has already ended,
\* the pushes of its fix and the retry of that step (republish_ci_fix and the
\* rest of the attempt do not look).  Nothing else begins: no later step, no
\* further attempt, nothing in a teardown the cancel came before, nor in the
\* cleanup after a crash, which finds the interrupted entry still `running`
\* (run_phase_remediation, run_teardown_cancelled, resume_teardown_cancelled).
PublishingStops ==
  ToSet(late) \subseteq inHand /\ IsInjective(late)

\* Cleanup entries that are over are not repeated once the run is cancelled,
\* however often the process dies before the cleanup is finished.
CleanupOnce ==
  [][\A i \in DOMAIN Teardown :
       cancel /\ cancel' /\ pc # "ended" /\ teardown[i] \in PhaseTerminal =>
         teardown'[i] = teardown[i]]_vars

\* A cancel that arrives before teardown ends the run as cancelled with every
\* cleanup entry dealt with, also when it races failures, abort_on_failure,
\* retries or the death of the process.
CancelCleansUp ==
  (cancel /\ runs = 1 /\ "teardown" \notin run.aborts
     /\ (Running \/ pc \in {"setup", "setupRun", "gate", "gateFailed", "ended"}))
  ~> (/\ pc = "done" /\ outcome = "cancelled"
      /\ \A i \in DOMAIN Teardown : teardown[i] \in PhaseTerminal)

\* docs/05-workflows.md:1557 says of a run that resumes mid-group: "any steps
\* that were interrupted are replayed; steps that had already succeeded stay
\* succeeded".  offer_state_resume rewinds to one point of a total order.
InterruptedReplayed ==
  [][(pc = "down" /\ ~cancel /\ ~Attended /\ \E s \in Steps : status[s] = "running") =>
       \A s \in Steps : /\ (status[s] = "running" => status'[s] = "pending")
                         /\ (status[s] = "succeeded" => status'[s] = "succeeded")]_vars

\* With nobody at a board a run ends, through stuck steps, failures, retries,
\* countdowns, cancels and crashes: no state waits for an answer.
UnattendedEnds == ~Attended ~> pc = "done"
=============================================================================
