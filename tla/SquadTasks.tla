----------------------------- MODULE SquadTasks -----------------------------
(***************************************************************************)
(* The squad daemon: the task store (squad_tasks, squad_runs), the tick of *)
(* the scheduler, the evaluations it dispatches (SquadEvaluation), and the *)
(* requests an administrator sends meanwhile.                              *)
(*                                                                         *)
(* Time is what it does to the store: an interval elapses, a backoff       *)
(* passes. A row of squad_runs is kept while it is `running` or its        *)
(* evaluation lives; later it is history that nothing reads.               *)
(***************************************************************************)
EXTENDS SquadEvaluation, Sequences, FiniteSets

Seqs == INSTANCE SequencesExt

CONSTANTS
  TaskIds, Names,   \* ids and names of tasks; a name can be used again
  RunIds,           \* slots for runs
  NoTask, NoRun, NoEval,
  Plans             \* bounds: [names, fresh, caps, repairs, left], see MCSquadTasks

Requests == {"create", "trigger", "pause", "cancel", "delete"}
Faults == {"stop", "crash", "fail"}

Bounds == [names : Seq(Names), fresh : SUBSET Names, caps : SUBSET Nat, repairs : Nat,
           left : [Requests \cup Faults -> Nat]]

\* The tasks there are at first have names of their own (the column is UNIQUE).
ASSUME PlanAssumption ==
  \A p \in Plans : /\ p \in Bounds
                   /\ DOMAIN p.names \subseteq TaskIds
                   /\ \A i, j \in DOMAIN p.names : p.names[i] = p.names[j] => i = j

TaskRow == [name : Names, active : BOOLEAN, trigger : BOOLEAN,
            backoff : {"none", "parked", "past"}, rested : BOOLEAN]
RunRow == [task : TaskIds, status : {"running", "canceled", "failed", "done"}]
Evaluation ==
  [task : TaskIds, name : Names, parked : BOOLEAN,
   pc : {"prepare", "leader", "workflow", "decided", "settle", "stopping", "over"},
   attempt : Nat, agent : {"none", "up", "killed"},
   outcome : {"none", "failed", "done"}, cancelled : BOOLEAN]

ASSUME IdAssumption ==
  /\ IsFiniteSet(TaskIds)
  /\ NoTask \notin TaskRow /\ NoEval \notin Evaluation
  /\ NoRun \notin RunIds /\ NoRun \notin RunRow

VARIABLES
  tasks,      \* squad_tasks, by id
  order,      \* ids of the tasks that ever ran, by last_run_at
  runs,       \* squad_runs, by id
  lost,       \* runs one of whose writes, or the stop of whose agents, failed
  daemon,     \* "up", "draining" (shutting down), "stopped" or "crashed"
  tick,       \* [todo, opened, cap]: what the current tick still dispatches
  inFlight,   \* SchedulerStatus.in_flight
  handles,    \* SchedulerStatus.cancellations: the run a task's cancel reaches
  evals,      \* the evaluations that live, by run
  triggers,   \* names of trigger requests that have read the task
  cancels,    \* task ids of cancel requests that have read the task
  plan        \* bounds left

store == <<tasks, order, runs, lost>>
memory == <<tick, inFlight, handles, evals>>
requests == <<triggers, cancels>>
vars == <<store, daemon, memory, requests, plan>>

Stored == {t \in TaskIds : tasks[t] # NoTask}
Named(name) == {t \in Stored : tasks[t].name = name}
Live == {r \in RunIds : evals[r] # NoEval}
Row(t, status) == [task |-> t, status |-> status]
Running(r) == runs[r] # NoRun /\ runs[r].status = "running"

\* The ids that neither a row nor an evaluation names; each id of a run is new, and
\* RunIds bounds how many there are at a time.
FreeRuns == {r \in RunIds \ Live : runs[r] = NoRun}
FreeRun == CHOOSE r \in FreeRuns : TRUE
Unused == {t \in TaskIds \ Stored :
             /\ \A r \in Live : evals[r].task # t
             /\ \A i \in DOMAIN tick.todo : tick.todo[i].task # t
             /\ t \notin cancels}

Idle == [todo |-> <<>>, opened |-> NoRun, cap |-> 0]

NewTask(name) ==
  [name |-> name, active |-> TRUE, trigger |-> FALSE, backoff |-> "none", rested |-> TRUE]

Init ==
  /\ plan \in Plans
  /\ tasks = [t \in TaskIds |->
                IF t \in DOMAIN plan.names THEN NewTask(plan.names[t]) ELSE NoTask]
  /\ order = <<>> /\ runs = [r \in RunIds |-> NoRun] /\ lost = {}
  /\ daemon = "up" /\ tick = Idle /\ inFlight = 0
  /\ handles = [t \in TaskIds |-> NoRun] /\ evals = [r \in RunIds |-> NoEval]
  /\ triggers = {} /\ cancels = {}

\* One of the bounded requests or faults happens.
Spend(kind) == plan.left[kind] > 0 /\ plan' = [plan EXCEPT !.left[kind] = @ - 1]

-----------------------------------------------------------------------------
(* The tick *)

\* The row says: active, triggered or past its interval and its backoff.
Wants(t) ==
  /\ tasks[t] # NoTask /\ tasks[t].active
  /\ \/ tasks[t].trigger
     \/ tasks[t].rested /\ tasks[t].backoff # "parked"

\* As Due, without the look at running rows
DueTwice == {t \in TaskIds : Wants(t)}

\* The rows due_for_evaluation selects
Due == {t \in TaskIds : Wants(t) /\ \A r \in RunIds : Running(r) => runs[r].task # t}

LastRun(t) ==
  IF \E i \in DOMAIN order : order[i] = t THEN CHOOSE i \in DOMAIN order : order[i] = t ELSE 0

Without(t) == IF LastRun(t) = 0 THEN order ELSE Seqs!RemoveAt(order, LastRun(t))

\* As Before, with last_run_at descending
BeforeNewest(t, u) ==
  IF tasks[t].trigger # tasks[u].trigger THEN tasks[t].trigger
  ELSE LastRun(t) > LastRun(u)

\* ORDER BY: triggered tasks first, then those that never ran, then the one that
\* ran longest ago
Before(t, u) ==
  IF tasks[t].trigger # tasks[u].trigger THEN tasks[t].trigger
  ELSE LastRun(t) < LastRun(u)

\* The selected tasks in an order SQL may return them in
Selections ==
  {s \in [1..Cardinality(Due) -> Due] :
     /\ \A i, j \in DOMAIN s : i # j => s[i] # s[j]
     /\ \A i, j \in DOMAIN s : Before(s[i], s[j]) => i < j}

\* As Capacity, for this tick alone
CapacityPerTick(cap) == cap

Capacity(cap) == IF cap > inFlight THEN cap - inFlight ELSE 0

AtLeastOne(n) == IF n = 0 THEN 1 ELSE n

Snapshot(t) ==
  [task |-> t, name |-> tasks[t].name, parked |-> tasks[t].backoff # "none"]

\* The tick reads the configuration and the due tasks and takes what the cap
\* leaves. A configuration that does not load admits nothing.
TickSelects ==
  /\ daemon = "up" /\ tick = Idle /\ Due # {}
  /\ \E cap \in plan.caps : \E due \in Selections :
       LET free == Capacity(AtLeastOne(cap))
           taken == IF free < Len(due) THEN free ELSE Len(due)
       IN  /\ taken > 0
           /\ tick' = [todo |-> [i \in 1..taken |-> Snapshot(due[i])],
                       opened |-> NoRun, cap |-> AtLeastOne(cap)]
  /\ UNCHANGED <<store, daemon, inFlight, handles, evals, requests, plan>>

\* The two statements of start_run: the row, then the request it honours
Inserted(t, r) == [runs EXCEPT ![r] = Row(t, "running")]
Honoured(t) == [tasks EXCEPT ![t].trigger = FALSE, ![t].rested = FALSE]
RanLast(t) == Append(Without(t), t)

\* A task removed since the selection has no row for the run to refer to.
OpenRun ==
  /\ tick.todo # <<>> /\ tick.opened = NoRun
  /\ LET t == Head(tick.todo).task IN
     \/ /\ t \in Stored /\ FreeRuns # {}
        /\ runs' = Inserted(t, FreeRun) /\ tasks' = Honoured(t) /\ order' = RanLast(t)
        /\ tick' = [tick EXCEPT !.opened = FreeRun]
     \/ /\ t \notin Stored
        /\ tick' = IF Len(tick.todo) = 1 THEN Idle ELSE [tick EXCEPT !.todo = Tail(@)]
        /\ UNCHANGED <<tasks, order, runs>>
  /\ UNCHANGED <<lost, daemon, inFlight, handles, evals, requests, plan>>

NextTodo ==
  IF Len(tick.todo) = 1 THEN Idle ELSE [tick EXCEPT !.todo = Tail(@), !.opened = NoRun]

\* A statement of start_run fails, and the tick goes on to the next task. After a
\* failed update the row stays: nothing in the daemon knows that run.
StartFails ==
  /\ tick.todo # <<>> /\ tick.opened = NoRun
  /\ Head(tick.todo).task \in Stored /\ FreeRuns # {}
  /\ Spend("fail")
  /\ \/ UNCHANGED <<runs, lost>>
     \/ runs' = Inserted(Head(tick.todo).task, FreeRun) /\ lost' = lost \cup {FreeRun}
  /\ tick' = NextTodo
  /\ UNCHANGED <<tasks, order, daemon, inFlight, handles, evals, requests>>

\* The log directory or the task's config.json fails the run on the spot: no
\* evaluation, no backoff.
PrepareFails ==
  /\ tick.opened # NoRun
  /\ Spend("fail")
  /\ runs' = [runs EXCEPT ![tick.opened] = NoRun]
  /\ tick' = NextTodo
  /\ UNCHANGED <<tasks, order, lost, daemon, inFlight, handles, evals, requests>>

Spawned(todo) ==
  [task |-> todo.task, name |-> todo.name, parked |-> todo.parked, pc |-> "prepare",
   attempt |-> 0, agent |-> "none", outcome |-> "none", cancelled |-> FALSE]

Dispatch ==
  /\ tick.opened # NoRun
  /\ inFlight' = inFlight + 1
  /\ handles' = [handles EXCEPT ![Head(tick.todo).task] = tick.opened]
  /\ evals' = [evals EXCEPT ![tick.opened] = Spawned(Head(tick.todo))]
  /\ tick' = NextTodo
  /\ UNCHANGED <<store, daemon, requests, plan>>

-----------------------------------------------------------------------------
(* An evaluation *)

\* As Evaluates, were the select not biased
EvaluatesFirst(e) == Undecided(e)

\* The select is biased: it looks at the token first.
Evaluates(e) == Undecided(e) /\ ~e.cancelled

Evaluate(r) ==
  /\ r \in Live /\ Evaluates(evals[r])
  /\ \E next \in Continues(evals[r], plan.repairs) : evals' = [evals EXCEPT ![r] = next]
  /\ UNCHANGED <<store, daemon, tick, inFlight, handles, requests, plan>>

\* finish_run: only a row that is still `running`, and still there
Finished(r, status) ==
  IF Running(r) THEN [runs EXCEPT ![r].status = status] ELSE runs

\* The last write of a run, which may fail and is not tried again
Records(r, status) ==
  \/ runs' = Finished(r, status) /\ UNCHANGED <<lost, plan>>
  \/ Spend("fail") /\ lost' = lost \cup {r} /\ UNCHANGED runs

FinishRun(r) ==
  /\ r \in Live /\ evals[r].pc = "decided"
  /\ Records(r, evals[r].outcome)
  /\ evals' = [evals EXCEPT ![r].pc = "settle"]
  /\ UNCHANGED <<tasks, order, daemon, tick, inFlight, handles, requests>>

\* set_backoff finds the task by its name.
SetBackoff(name, to) ==
  [t \in TaskIds |-> IF t \in Named(name) THEN [tasks[t] EXCEPT !.backoff = to] ELSE tasks[t]]

\* A failed run parks its task; another clears the backoff it was selected with.
Settle(r) ==
  /\ r \in Live /\ evals[r].pc = "settle"
  /\ tasks' = CASE evals[r].outcome = "failed" -> SetBackoff(evals[r].name, "parked")
                [] evals[r].parked /\ evals[r].outcome # "failed" ->
                     SetBackoff(evals[r].name, "none")
                [] OTHER -> tasks
  /\ evals' = [evals EXCEPT ![r].pc = "over"]
  /\ UNCHANGED <<order, runs, lost, daemon, tick, inFlight, handles, requests, plan>>

\* The cancel wins: the evaluation is dropped, its agent is left to itself.
CancelRun(r) ==
  /\ r \in Live /\ Undecided(evals[r]) /\ evals[r].cancelled
  /\ Records(r, "canceled")
  /\ evals' = [evals EXCEPT ![r].pc = "stopping"]
  /\ UNCHANGED <<tasks, order, daemon, tick, inFlight, handles, requests>>

\* Every agent that runs under the task's name is stopped, whose run it may be.
Stopped(r, agent) ==
  IF agent.name # evals[r].name \/ agent.agent # "up" THEN agent
  ELSE IF agent = evals[r] THEN [agent EXCEPT !.agent = "none"]
  ELSE [agent EXCEPT !.agent = "killed"]

StopContainers(r) ==
  /\ r \in Live /\ evals[r].pc = "stopping"
  /\ \/ /\ evals' = [q \in RunIds |->
                       IF q = r THEN [Stopped(r, evals[r]) EXCEPT !.pc = "over"]
                       ELSE IF q \in Live THEN Stopped(r, evals[q]) ELSE NoEval]
        /\ UNCHANGED <<lost, plan>>
     \/ /\ Spend("fail") /\ lost' = lost \cup {r}
        /\ evals' = [evals EXCEPT ![r].pc = "over"]
  /\ UNCHANGED <<tasks, order, runs, daemon, tick, inFlight, handles, requests>>

\* As Released, without the look at the run id
ReleasesAny(r) == [handles EXCEPT ![evals[r].task] = NoRun]

\* InFlightGuard: a handle that a newer run of the task has put there stays.
Released(r) ==
  IF handles[evals[r].task] = r THEN [handles EXCEPT ![evals[r].task] = NoRun] ELSE handles

\* As DropGuard, with a counter an early return leaks
DropGuardLeaks(r) ==
  /\ r \in Live /\ evals[r].pc = "over"
  /\ handles' = Released(r)
  /\ evals' = [evals EXCEPT ![r] = NoEval]
  /\ runs' = IF Running(r) THEN runs ELSE [runs EXCEPT ![r] = NoRun]
  /\ lost' = IF Running(r) THEN lost ELSE lost \ {r}
  /\ UNCHANGED <<tasks, order, daemon, tick, inFlight, requests, plan>>

DropGuard(r) ==
  /\ r \in Live /\ evals[r].pc = "over"
  /\ inFlight' = inFlight - 1
  /\ handles' = Released(r)
  /\ evals' = [evals EXCEPT ![r] = NoEval]
  /\ runs' = IF Running(r) THEN runs ELSE [runs EXCEPT ![r] = NoRun]
  /\ lost' = IF Running(r) THEN lost ELSE lost \ {r}
  /\ UNCHANGED <<tasks, order, daemon, tick, requests, plan>>

-----------------------------------------------------------------------------
(* The gateway *)

Create(name) ==
  /\ daemon = "up" /\ name \in plan.fresh /\ Named(name) = {} /\ Unused # {}
  /\ Spend("create")
  /\ \E t \in Unused : tasks' = [tasks EXCEPT ![t] = NewTask(name)]
  /\ UNCHANGED <<order, runs, lost, daemon, memory, requests>>

\* pause and resume
SetStatus(t) ==
  /\ daemon = "up" /\ t \in Stored
  /\ Spend("pause")
  /\ tasks' = [tasks EXCEPT ![t].active = ~@]
  /\ UNCHANGED <<order, runs, lost, daemon, memory, requests>>

\* A trigger reads the task and refuses a paused one; the write is by name.
AskTrigger(t) ==
  /\ daemon = "up" /\ t \in Stored /\ tasks[t].active
  /\ Spend("trigger")
  /\ triggers' = triggers \cup {tasks[t].name}
  /\ UNCHANGED <<store, daemon, memory, cancels>>

RequestTrigger(name) ==
  /\ name \in triggers
  /\ tasks' = [t \in TaskIds |->
                 IF t \in Named(name) THEN [tasks[t] EXCEPT !.trigger = TRUE, !.backoff = "none"]
                 ELSE tasks[t]]
  /\ triggers' = triggers \ {name}
  /\ UNCHANGED <<order, runs, lost, daemon, memory, cancels, plan>>

\* A cancel reads the id, then fires the token it finds for it.
AskCancel(t) ==
  /\ daemon = "up" /\ t \in Stored
  /\ Spend("cancel")
  /\ cancels' = cancels \cup {t}
  /\ UNCHANGED <<store, daemon, memory, triggers>>

FireCancel(t) ==
  /\ t \in cancels
  /\ cancels' = cancels \ {t}
  /\ evals' = IF handles[t] = NoRun THEN evals
              ELSE [evals EXCEPT ![handles[t]].cancelled = TRUE]
  /\ UNCHANGED <<store, daemon, tick, inFlight, handles, triggers, plan>>

\* The rows of the runs go with the task; an evaluation in flight goes on.
Delete(t) ==
  /\ daemon = "up" /\ t \in Stored
  /\ Spend("delete")
  /\ tasks' = [tasks EXCEPT ![t] = NoTask]
  /\ order' = Without(t)
  /\ runs' = [r \in RunIds |-> IF runs[r] # NoRun /\ runs[r].task = t THEN NoRun ELSE runs[r]]
  /\ lost' = {r \in lost : runs'[r] # NoRun \/ r \in Live}
  /\ UNCHANGED <<daemon, memory, requests>>

-----------------------------------------------------------------------------
(* Time, the end of the daemon, and its start *)

\* The interval of a task, or its backoff, passes.
Rests(t) ==
  /\ t \in Stored /\ ~tasks[t].rested
  /\ tasks' = [tasks EXCEPT ![t].rested = TRUE]
  /\ UNCHANGED <<order, runs, lost, daemon, memory, requests, plan>>

BackoffPasses(t) ==
  /\ t \in Stored /\ tasks[t].backoff = "parked"
  /\ tasks' = [tasks EXCEPT ![t].backoff = "past"]
  /\ UNCHANGED <<order, runs, lost, daemon, memory, requests, plan>>

\* The server stops listening; the tick under way and the evaluations finish.
Shutdown ==
  /\ daemon = "up" /\ Spend("stop")
  /\ daemon' = "draining" /\ triggers' = {} /\ cancels' = {}
  /\ UNCHANGED <<store, memory>>

Drained ==
  /\ daemon = "draining" /\ tick = Idle /\ Live = {}
  /\ daemon' = "stopped"
  /\ UNCHANGED <<store, memory, requests, plan>>

Forgets ==
  /\ daemon' = "crashed" /\ tick' = Idle /\ inFlight' = 0
  /\ handles' = [t \in TaskIds |-> NoRun] /\ evals' = [r \in RunIds |-> NoEval]
  /\ triggers' = {} /\ cancels' = {}

\* Rows whose run is over become history.
Crash ==
  /\ daemon \in {"up", "draining"} /\ Spend("crash") /\ Forgets
  /\ runs' = [r \in RunIds |-> IF Running(r) THEN runs[r] ELSE NoRun]
  /\ UNCHANGED <<tasks, order, lost>>

\* As DiesInStart, with the statements the other way round
DiesHonoured(t, r) == tasks' = Honoured(t) /\ order' = RanLast(t) /\ UNCHANGED runs

\* start_run is two statements, and the daemon may die between them.
DiesInStart(t, r) == runs' = Inserted(t, r) /\ UNCHANGED <<tasks, order>>

CrashInStart ==
  /\ tick.todo # <<>> /\ tick.opened = NoRun /\ Head(tick.todo).task \in Stored
  /\ FreeRuns # {} /\ Spend("crash") /\ Forgets
  /\ DiesInStart(Head(tick.todo).task, FreeRun)
  /\ UNCHANGED lost

\* bootstrap: what is `running` now was interrupted.
Reconciled == [r \in RunIds |-> NoRun]

Boot ==
  /\ daemon \in {"crashed", "stopped"}
  /\ daemon' = "up" /\ runs' = Reconciled /\ lost' = {}
  /\ UNCHANGED <<tasks, order, memory, requests, plan>>

-----------------------------------------------------------------------------

EvaluationStep(r) ==
  Evaluate(r) \/ FinishRun(r) \/ Settle(r) \/ CancelRun(r) \/ StopContainers(r) \/ DropGuard(r)

TickStep == TickSelects \/ OpenRun \/ StartFails \/ PrepareFails \/ Dispatch

\* The second halves of the requests that have begun
HandlerStep == \/ \E name \in Names : RequestTrigger(name)
               \/ \E t \in TaskIds : FireCancel(t)

Request == \/ \E name \in Names : Create(name)
           \/ \E t \in TaskIds : SetStatus(t) \/ AskTrigger(t) \/ AskCancel(t) \/ Delete(t)

TimePasses(t) == Rests(t) \/ BackoffPasses(t)

Next ==
  \/ TickStep \/ Request \/ HandlerStep
  \/ \E r \in RunIds : EvaluationStep(r)
  \/ \E t \in TaskIds : TimePasses(t)
  \/ Shutdown \/ Drained \/ Crash \/ CrashInStart \/ Boot

Spec == Init /\ [][Next]_vars

\* The tick loop and the evaluations are polled, handlers that have begun go on,
\* time passes, leaders end (the launcher's countdown kills an idle one), and a
\* daemon that died is started again. One that was stopped may stay stopped.
Fairness ==
  /\ WF_vars(TickStep) /\ WF_vars(HandlerStep)
  /\ WF_vars(Drained \/ (daemon = "crashed" /\ Boot))
  /\ \A r \in RunIds : WF_vars(EvaluationStep(r))
  /\ \A t \in TaskIds : WF_vars(TimePasses(t))

FairSpec == Spec /\ Fairness

-----------------------------------------------------------------------------
(* Properties *)

Snapshots == [task : TaskIds, name : Names, parked : BOOLEAN]

\* Every variable has its type, names are unique, no task ran last twice, and the
\* counter counts the guards that live.
TypeOK ==
  /\ tasks \in [TaskIds -> {NoTask} \cup TaskRow]
  /\ \A t, u \in Stored : tasks[t].name = tasks[u].name => t = u
  /\ order \in Seq(Stored)
  /\ \A i, j \in DOMAIN order : order[i] = order[j] => i = j
  /\ runs \in [RunIds -> {NoRun} \cup RunRow]
  /\ lost \subseteq RunIds
  /\ daemon \in {"up", "draining", "stopped", "crashed"}
  /\ tick \in [todo : Seq(Snapshots), opened : RunIds \cup {NoRun}, cap : Nat]
  /\ IsFiniteSet(Live) /\ inFlight = Cardinality(Live)
  /\ handles \in [TaskIds -> RunIds \cup {NoRun}]
  /\ evals \in [RunIds -> {NoEval} \cup Evaluation]
  /\ \A r \in Live : evals[r].attempt <= plan.repairs
  /\ triggers \subseteq Names /\ cancels \subseteq TaskIds
  /\ plan \in Bounds

\* One task is evaluated by one evaluation at a time, and its row says so: an
\* evaluation that is not decided has a `running` row, unless the task is gone,
\* and a task has at most one such row. An evaluation that has written its row
\* and still sets the backoff, or stops agents, may meet the next one.
OneEvaluation ==
  /\ \A r, q \in Live :
       Undecided(evals[r]) /\ Undecided(evals[q]) /\ evals[r].task = evals[q].task => r = q
  /\ \A r \in Live :
       Undecided(evals[r]) => runs[r] \in {Row(evals[r].task, "running"), NoRun}
  /\ \A r, q \in RunIds :
       Running(r) /\ Running(q) /\ runs[r].task = runs[q].task => r = q

\* `squad cancel` reaches what runs: the handle of a task names the run that is
\* being evaluated, though an older run of the task drops its guard meanwhile,
\* and never one that is over.
CancelReachesRun ==
  /\ \A r \in Live : Undecided(evals[r]) => handles[evals[r].task] = r
  /\ \A t \in TaskIds : handles[t] # NoRun => handles[t] \in Live /\ evals[handles[t]].task = t

\* maxConcurrentEvaluations bounds what runs over all ticks, at least one: when
\* an evaluation starts, those of earlier ticks included, there are no more than
\* the cap this tick read. A smaller cap stops nothing that already runs.
CapRespected ==
  [][\A r \in RunIds : evals[r] = NoEval /\ evals'[r] # NoEval
       => Cardinality({q \in RunIds : evals'[q] # NoEval}) <= tick.cap]_vars

\* A trigger is given up only for the run it asked for, though the daemon dies
\* while it opens that run, and though another run of the task ends meanwhile.
TriggerKept ==
  [][\A t \in TaskIds :
       (/\ tasks[t] # NoTask /\ tasks'[t] # NoTask
        /\ tasks[t].trigger /\ ~tasks'[t].trigger)
         => \E r \in RunIds : runs[r] = NoRun /\ runs'[r] = Row(t, "running")]_vars

\* A task that is due, or triggered, is evaluated, or paused, removed or parked,
\* whatever other tasks want: no task starves another, and no run, repaired,
\* cancelled or interrupted by a crash, blocks its task for ever. A task whose
\* last run could not be written, when it began or when it ended, waits for the
\* next start of the daemon.
EveryDueTaskRuns ==
  \A t \in TaskIds :
    Wants(t) ~> \/ ~Wants(t) \/ daemon = "stopped"
                \/ \E r \in lost : runs[r] # NoRun /\ runs[r].task = t

\* A cancel accepted before the evaluation is decided is what the run ends with,
\* and its agent is stopped: unless the daemon dies first, the row cannot be
\* written, or the agent cannot be stopped.
CancelEndsRun ==
  \A r \in RunIds :
    (r \in Live /\ Undecided(evals[r]) /\ evals[r].cancelled)
      ~> \/ /\ r \in Live /\ evals[r].pc = "over" /\ evals[r].agent # "up"
            /\ runs[r] \in {NoRun, Row(evals[r].task, "canceled")}
         \/ r \in lost \/ daemon = "crashed"
=============================================================================
