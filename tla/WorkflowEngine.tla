--------------------------- MODULE WorkflowEngine ---------------------------
(***************************************************************************)
(* The main phase of a workflow run: WorkflowEngine::run_to_completion,    *)
(* which launches the steps of a dependency graph one at a time or as      *)
(* parallel groups, and what it does when a step's container exits, gets   *)
(* stuck, fails or is cancelled, and when a user acts on a control board.  *)
(*                                                                         *)
(* Every action ends with the engine's own persist(), so `status` is both  *)
(* the memory and the state file.  A step's container is named by the step *)
(* and the number of its launch; `exits` holds the results its wait task   *)
(* has ready and the engine has not looked at.  The engine blocks while a  *)
(* board is open, so opening it and answering are one step: what an exit   *)
(* does meanwhile is what an exit just before the answer does.             *)
(***************************************************************************)
EXTENDS WorkflowDag, FiniteSetsExt

CONSTANTS
  Runs,        \* the runs: records [dag, cap, yolo, board, aborts, cleanup,
               \* times]; `cap` is max_concurrent, `aborts` the steps (and
               \* "setup", "teardown") with abort_on_failure, `cleanup` is
               \* teardown_on_failure; `board` bounds the answers a user
               \* gives, 0 when nobody is there (headless), `times` how
               \* often the workflow is run
  Answers      \* the board answers a user may give

AllAnswers == {"restart", "back", "next", "finish", "pause", "abort",
               "continue", "restartOne"}

ASSUME EngineAssumption ==
  /\ \A r \in Runs : /\ BuildAccepts(r.dag) /\ WellFormed(r.dag)
                      /\ r.cap \in Nat \ {0} /\ r.board \in Nat
                      /\ r.times \in Nat \ {0}
  /\ Answers \subseteq AllAnswers

VARIABLES
  run,        \* the configuration of the run
  status,     \* WorkflowState.step_states
  launches,   \* how often this engine launched a step
  active,     \* active_steps: the containers the engine has a slot for
  live,       \* the containers that run
  exits,      \* results of the wait tasks, not looked at
  group,      \* the steps of the running parallel group; {} for a single step
  queue,      \* those of them that wait for a slot
  toLaunch,   \* the steps to launch next
  failed,     \* failed steps that wait for a decision
  current,    \* current_step_name, or ""
  authUsed,   \* auth_retries_used
  retried,    \* auto_retried_steps
  cancel,     \* the cancel token (its durable marker, after a crash)
  aborted,    \* abort_on_failure_triggered
  outcome,    \* how the main phase ended
  pc, answers

Steps == StepsOf(run.dag)
Attended == run.board > 0
Container(s) == [step |-> s, id |-> launches[s]]
Exit(c, code) == [step |-> c.step, id |-> c.id, code |-> code]

slots == <<active, live, exits>>
batch == <<group, queue, toLaunch>>
recovery == <<authUsed, retried, failed>>
ending == <<aborted, outcome>>
fixed == <<run, cancel, answers>>
engine == <<status, launches, slots, batch, recovery, ending, current, pc>>

AllPending == [s \in Steps |-> "pending"]
Unfinished == {s \in Steps : status[s] \notin Done}
Set(s, v) == status' = [status EXCEPT ![s] = v]
Completes(s, v) == IsComplete([status EXCEPT ![s] = v])

\* The step before the current one in topological order, if any; is_last_step.
Order == TopologicalOrder(run.dag)
Before(s) == {Order[i-1] : i \in {j \in 2..Len(Order) : Order[j] = s}}
Previous == Before(current)
IsLastStep == current = Last(Order)
CanFinish == IsLastStep \/ IsComplete(status)

\* Nothing waits or runs, and nothing is remembered, of a main phase that is
\* over.
Clear ==
  /\ launches' = [s \in Steps |-> 0] /\ active' = {} /\ live' = {} /\ exits' = {}
  /\ group' = {} /\ queue' = <<>> /\ toLaunch' = <<>>
  /\ failed' = <<>> /\ current' = "" /\ authUsed' = {} /\ retried' = {}

End(o) == pc' = "ended" /\ outcome' = o /\ Clear

\* A fresh engine on the progress `st`.
Fresh(st) == status' = st /\ aborted' = FALSE /\ outcome' = "none" /\ Clear

\* Mutant of CancelUnfinished: what runs is left running.
CancelPending ==
  status' = SetAll(status, {s \in Unfinished : status[s] # "running"}, "cancelled")

CancelUnfinished == status' = SetAll(status, Unfinished, "cancelled")

\* cancel_run; reported as a cancel, not as an abort: teardown still runs.
CancelRun ==
  /\ CancelUnfinished /\ aborted' = FALSE /\ End("cancelled")

Abort(flag) ==
  /\ CancelUnfinished /\ aborted' = (aborted \/ flag) /\ End("aborted")

\* `?` on an error: nothing more is recorded.  Dropping the waits cancels the
\* containers.
Fail == End("error") /\ UNCHANGED <<status, aborted>>

Goto(p) == pc' = p

----------------------------------------------------------------------------
(* Containers *)

\* A container ends by itself, or its wait fails.
ContainerExits(c) ==
  /\ c \in live /\ live' = live \ {c}
  /\ \E code \in {"ok", "fail", "auth", "error"} : exits' = exits \cup {Exit(c, code)}
  /\ UNCHANGED <<status, launches, active, batch, recovery, ending, current, pc>>

\* A kill: the wait task of a killed container resolves too.
Kill(cs) ==
  /\ live' = live \ cs
  /\ exits' = exits \cup {Exit(c, "fail") : c \in cs \cap live}

\* run_to_completion, the head of its loop.
Loop ==
  LET ready == ReadySteps(run.dag, Completed(status))
      n == IF run.cap < Len(ready) THEN run.cap ELSE Len(ready)
  IN
  /\ pc = "loop"
  /\ CASE cancel -> CancelRun
       [] ~cancel /\ IsComplete(status) ->
            End("completed") /\ UNCHANGED <<status, aborted>>
       [] ~cancel /\ ~IsComplete(status) /\ ready = <<>> -> Fail
       [] OTHER ->
            /\ IF Len(ready) > 1 /\ run.cap > 1
               THEN group' = ToSet(ready) /\ toLaunch' = SubSeq(ready, 1, n)
                    /\ queue' = SubSeq(ready, n + 1, Len(ready))
               ELSE group' = {} /\ toLaunch' = <<Head(ready)>> /\ queue' = <<>>
            /\ active' = {} /\ exits' = {} /\ Goto("launch")
            /\ UNCHANGED <<status, launches, live, recovery, ending, current>>

\* launch_step, launch_parallel_step
LaunchStep ==
  LET s == Head(toLaunch) c == [step |-> s, id |-> launches[s] + 1] IN
  /\ pc = "launch"
  /\ Set(s, "running") /\ launches' = [launches EXCEPT ![s] = @ + 1]
  /\ active' = active \cup {c} /\ live' = live \cup {c}
  /\ toLaunch' = Tail(toLaunch)
  /\ current' = IF group = {} THEN s ELSE current
  /\ Goto(IF Len(toLaunch) > 1 THEN "launch" ELSE IF group = {} THEN "single" ELSE "group")
  /\ UNCHANGED <<exits, group, queue, recovery, ending>>

\* spawn_prepared_step fails: the step is failed, a group's siblings are
\* stopped and pending again, and the run ends in an error.
LaunchFails ==
  /\ pc = "launch"
  /\ status' = [SetAll(status, {c.step : c \in active}, "pending")
                  EXCEPT ![Head(toLaunch)] = "failed"]
  /\ End("error") /\ UNCHANGED aborted

----------------------------------------------------------------------------
(* A single step *)

InStep == pc \in {"single", "countdown"}

\* The step is over: its container, if it still runs, is killed, and nobody
\* waits for it any more.
LeaveStep == live' = {} /\ active' = {} /\ exits' = {}

\* finalize_step and run_single_step_iteration, by how the container ended.
StepSucceeds ==
  /\ InStep /\ \E x \in exits : x.code = "ok"
  /\ Set(current, "succeeded") /\ LeaveStep
  /\ Goto(IF Completes(current, "succeeded") = run.yolo THEN "between" ELSE "loop")
  /\ UNCHANGED <<launches, batch, recovery, ending, current>>

StepFails ==
  /\ InStep
  /\ \E x \in exits :
       /\ x.code \in {"fail", "auth"}
       /\ CASE cancel -> CancelRun
            [] ~cancel /\ x.code = "auth" /\ current \notin authUsed ->
                 /\ Set(current, "pending") /\ authUsed' = authUsed \cup {current}
                 /\ LeaveStep /\ Goto("loop")
                 /\ UNCHANGED <<launches, batch, retried, failed, ending, current>>
            [] ~cancel /\ current \in run.aborts /\ (x.code = "fail" \/ current \in authUsed) ->
                 Abort(TRUE)
            [] OTHER ->
                 /\ Set(current, "failed") /\ failed' = <<current>>
                 /\ LeaveStep /\ Goto("failures")
                 /\ UNCHANGED <<launches, batch, authUsed, retried, ending, current>>

StepWaitFails ==
  /\ InStep /\ \E x \in exits : x.code = "error"
  /\ Fail

\* The token, seen once no exit is ready; a countdown first hands over to it.
StepCancelled == pc = "single" /\ cancel /\ exits = {} /\ CancelRun

CountdownStops ==
  /\ pc = "countdown" /\ Goto("single")
  /\ UNCHANGED <<status, launches, slots, batch, recovery, ending, current>>

\* No output for a while, no exit and no cancel.
Silent == pc = "single" /\ exits = {} /\ ~cancel

\* handle_step_stuck.  Under yolo a countdown runs,
\* except on the last step; else a control board opens, and where nobody can
\* answer it HeadlessDefaults::workflow_next_action launches the next step.
StepStuck ==
  /\ Silent /\ run.yolo /\ ~IsLastStep
  /\ Goto("countdown")
  /\ UNCHANGED <<status, launches, slots, batch, recovery, ending, current>>

StepPassed ==
  /\ Set(current, "succeeded") /\ LeaveStep /\ Goto("loop")
  /\ UNCHANGED <<launches, batch, recovery, ending, current>>

StuckUnattended ==
  /\ Silent /\ ~Attended /\ ~(run.yolo /\ ~IsLastStep)
  /\ StepPassed

CountdownExpires ==
  /\ pc = "countdown" /\ ~cancel
  /\ StepPassed

----------------------------------------------------------------------------
(* Control boards of a user; `a` is the answer.  Those that end the run are *)
(* not bounded.                                                            *)

Answer(a) ==
  /\ Attended /\ a \in Answers
  /\ \/ answers < run.board /\ answers' = answers + 1
     \/ answers = run.board /\ a \in {"abort", "pause"} /\ UNCHANGED answers
  /\ UNCHANGED <<run, cancel>>

\* FinishWorkflow, Pause and Abort where nothing else is left to do.
FinishWorkflow ==
  /\ CanFinish /\ status' = SetAll(status, Unfinished, "skipped") /\ End("completed")
  /\ UNCHANGED aborted

Pause(steps) ==
  /\ status' = SetAll(status, steps, "pending") /\ End("paused")
  /\ UNCHANGED aborted

\* The run goes on from its loop with the progress `st`.
Proceed(st) ==
  /\ status' = st /\ LeaveStep /\ Goto("loop")
  /\ group' = {} /\ queue' = <<>> /\ toLaunch' = <<>> /\ failed' = <<>>
  /\ UNCHANGED <<launches, current, authUsed, retried, ending>>

BackFrom(s) == {[status EXCEPT ![s] = "cancelled", ![p] = "pending"] : p \in Before(s)}

\* handle_mid_step_control_board
MidStepBoard(a) ==
  /\ InStep /\ Answer(a)
  /\ CASE a = "restart" -> Proceed([status EXCEPT ![current] = "pending"])
       [] a = "next"    -> Proceed([status EXCEPT ![current] = "succeeded"])
       [] a = "back"    -> \E st \in BackFrom(current) : Proceed(st)
       [] a = "finish"  -> FinishWorkflow
       [] a = "pause"   -> Pause({current})
       [] a = "abort"   -> Abort(FALSE)
       [] OTHER         -> FALSE

\* The board between two steps.  The execution `continue` injects into has
\* finished, so the injection never succeeds and the run ends in its error.
BetweenBoard(a) ==
  /\ pc = "between" /\ Answer(a)
  /\ CASE a = "restart"  -> Proceed([status EXCEPT ![current] = "pending"])
       [] a = "back"     -> \E st \in BackFrom(current) : Proceed(st)
       [] a = "finish"   -> FinishWorkflow
       [] a = "pause"    -> Pause({})
       [] a = "abort"    -> Abort(FALSE)
       [] a = "continue" -> ReadySteps(run.dag, Completed(status)) # <<>> /\ Fail
       [] OTHER          -> FALSE

\* Next or Esc; nobody at the keyboard: next, or finish when nothing is left.
BetweenAdvance ==
  /\ pc = "between"
  /\ IF ~Attended /\ IsComplete(status) THEN FinishWorkflow ELSE Proceed(status)

----------------------------------------------------------------------------
(* A parallel group *)

Slot(x) == [step |-> x.step, id |-> x.id]

\* Mutant of Owned: an exit is matched by its step only.
OwnedByName(x) == x.step \in {c.step : c \in active}

\* What is done with an exit: one of a slot that is gone, or was relaunched
\* since, is dropped.
Owned(x) == Slot(x) \in active
DropStale(x) ==
  /\ pc = "group" /\ x \in exits /\ ~Owned(x)
  /\ exits' = exits \ {x}
  /\ UNCHANGED <<status, launches, active, live, batch, recovery, ending, current, pc>>

\* Mutant of Frozen: a failure does not hold the queue.
NeverFrozen == FALSE

\* An unresolved failure freezes the queue.
Frozen == failed # <<>>

\* A slot of the group is given up with the step at `v`; then the next queued
\* step is launched unless `held`.
FreeSlot(c, v, held) ==
  /\ Set(c.step, v) /\ active' = active \ {c}
  /\ IF queue # <<>> /\ ~held
     THEN toLaunch' = <<Head(queue)>> /\ queue' = Tail(queue) /\ Goto("launch")
     ELSE UNCHANGED <<toLaunch, queue, pc>>
  /\ UNCHANGED <<launches, group, retried, ending, current>>

GroupExits(x) ==
  LET s == x.step IN
  /\ pc = "group" /\ x \in exits /\ Owned(x)
  /\ CASE cancel -> CancelRun
       [] ~cancel /\ x.code = "error" -> Fail
       [] ~cancel /\ x.code = "ok" ->
            /\ FreeSlot(Slot(x), "succeeded", Frozen)
            /\ exits' = exits \ {x} /\ UNCHANGED <<live, failed, authUsed>>
       [] ~cancel /\ x.code = "auth" /\ s \notin authUsed ->
            \* Refreshed credentials: relaunched once, ahead of the queue.
            /\ authUsed' = authUsed \cup {s}
            /\ Set(s, "pending") /\ active' = active \ {Slot(x)}
            /\ toLaunch' = <<s>> /\ Goto("launch") /\ exits' = exits \ {x}
            /\ UNCHANGED <<launches, live, group, queue, retried, failed, ending, current>>
       [] ~cancel /\ s \in run.aborts /\ (x.code = "fail" \/ (x.code = "auth" /\ s \in authUsed)) ->
            Abort(TRUE)
       [] OTHER ->
            /\ FreeSlot(Slot(x), "failed", TRUE)
            /\ failed' = Append(failed, s)
            /\ exits' = exits \ {x} /\ UNCHANGED <<live, authUsed>>

GroupCancelled == pc = "group" /\ active # {} /\ cancel /\ exits = {} /\ CancelRun

\* yolo_advance_parallel: the countdown of one slot expired.
GroupYoloAdvance(c) ==
  /\ pc = "group" /\ run.yolo /\ c \in active /\ exits = {} /\ ~cancel
  /\ FreeSlot(c, "succeeded", Frozen) /\ Kill({c})
  /\ UNCHANGED <<failed, authUsed>>

\* Every slot is free: the failures are decided on, or the run goes on.
GroupDrained ==
  /\ pc = "group" /\ active = {}
  /\ exits' = {} /\ group' = {} /\ queue' = <<>>
  /\ Goto(IF Frozen THEN "failures" ELSE "loop")
  /\ UNCHANGED <<status, launches, active, live, toLaunch, recovery, ending, current>>

\* restart_parallel_step: whatever state the step is in, it runs afresh, or
\* waits at the head of the queue when no slot is free.
RestartOne(s) ==
  LET mine == {c \in active : c.step = s}
      others == Steps \ {s}
      rest == Kept(queue, others)
  IN
  /\ Kill(mine) /\ active' = active \ mine
  /\ failed' = Kept(failed, others)
  /\ IF Cardinality(active \ mine) < run.cap
     THEN toLaunch' = <<s>> /\ queue' = rest /\ Goto("launch") /\ UNCHANGED status
     ELSE queue' = <<s>> \o rest /\ Set(s, "pending") /\ UNCHANGED <<toLaunch, pc>>
  /\ UNCHANGED <<launches, group, authUsed, retried, ending, current>>

\* handle_parallel_engine_request: back, next, restart, pause and abort act
\* on the whole group.
GroupBoard(a) ==
  LET back == DependenciesOf(run.dag, group)
      running == {c.step : c \in active}
  IN
  /\ pc = "group" /\ active # {} /\ exits = {} /\ Answer(a)
  /\ CASE a = "restart"    -> Proceed(SetAll(status, group, "pending"))
       [] a = "restartOne" -> \E s \in group : RestartOne(s)
       [] a = "back"       ->
            /\ back # {}
            /\ Proceed(SetAll(status, back \cup DependentsOf(run.dag, back) \cup group, "pending"))
       [] a = "next"       -> Proceed(SetAll(status, group \ {s \in group : status[s] = "succeeded"}, "skipped"))
       [] a = "pause"      -> Pause(running)
       [] a = "abort"      -> Abort(TRUE)
       [] OTHER            -> FALSE

----------------------------------------------------------------------------
(* A failure nobody aborted on: handle_step_failure, one failed step at a  *)
(* time in the order they failed.                                          *)

NextFailure ==
  /\ failed' = Tail(failed) /\ Goto(IF Len(failed) = 1 THEN "loop" ELSE "failures")
  /\ current' = Head(failed)
  /\ UNCHANGED <<launches, slots, batch, authUsed, ending>>

\* Mutant of FailureCancelled: the retry countdown does not look at the token.
FailureCancelledFirst == pc = "failures" /\ cancel /\ CancelRun

\* No recovery of any kind once a cancel has been requested.
FailureCancelled == pc \in {"failures", "retry"} /\ cancel /\ CancelRun

FailureBoard(a) ==
  LET s == Head(failed) IN
  /\ pc = "failures" /\ ~cancel /\ Answer(a)
  /\ CASE a = "restart" -> Set(s, "pending") /\ NextFailure /\ UNCHANGED retried
       [] a = "back"    -> \E p \in Before(s) :
            /\ status' = SetAll(status, {s, p}, "pending")
            /\ NextFailure /\ UNCHANGED retried
       [] a = "next"    ->
            /\ ReadySteps(run.dag, Completed(status) \cup {s}) # <<>>
            /\ Set(s, "skipped") /\ NextFailure /\ UNCHANGED retried
       [] a = "pause"   -> Pause({})
       [] a = "abort"   -> Abort(FALSE)
       [] OTHER         -> FALSE

\* Unattended: a countdown and one retry; a second failure fails the run.
FailureUnattended ==
  LET s == Head(failed) IN
  /\ pc = "failures" /\ ~cancel /\ ~Attended
  /\ IF s \in retried
     THEN /\ status' = [SetAll(status, Unfinished, "cancelled") EXCEPT ![s] = "failed"]
          /\ End("failed") /\ UNCHANGED aborted
     ELSE /\ Goto("retry")
          /\ UNCHANGED <<status, launches, slots, batch, recovery, ending, current>>

\* Mutant of RetryFailed: the retry is not recorded.
RetryForgotten ==
  /\ pc = "retry" /\ ~cancel
  /\ Set(Head(failed), "pending") /\ NextFailure /\ UNCHANGED retried

RetryFailed ==
  /\ pc = "retry" /\ ~cancel
  /\ retried' = retried \cup {Head(failed)} /\ Set(Head(failed), "pending")
  /\ NextFailure

----------------------------------------------------------------------------
\* What the engine does by itself, as long as it is scheduled.
EngineStep ==
  /\ \/ Loop \/ LaunchStep \/ StepSucceeds \/ StepFails \/ StepWaitFails
     \/ StepCancelled \/ (CountdownStops /\ cancel) \/ CountdownExpires \/ BetweenAdvance
     \/ \E x \in exits : DropStale(x) \/ GroupExits(x)
     \/ GroupCancelled \/ GroupDrained
     \/ FailureCancelled \/ FailureUnattended \/ RetryFailed
  /\ UNCHANGED fixed

\* What happens to it: silence, recovery and failing launches.
EngineEvent ==
  /\ \/ LaunchFails \/ StepStuck \/ StuckUnattended \/ CountdownStops
     \/ \E c \in active : GroupYoloAdvance(c)
  /\ UNCHANGED fixed

AgentEnds == (\E c \in live : ContainerExits(c)) /\ UNCHANGED fixed

UserAnswers ==
  \E a \in Answers : MidStepBoard(a) \/ BetweenBoard(a) \/ GroupBoard(a) \/ FailureBoard(a)

MainPhase == EngineStep \/ EngineEvent \/ AgentEnds \/ UserAnswers

Running == pc \in {"loop", "launch", "single", "countdown", "between", "group",
                   "failures", "retry"}
=============================================================================
