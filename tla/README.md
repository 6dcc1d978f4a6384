# A TLA+ model of awman's API server, workflow engine and squad daemon

awman runs coding agents in containers. Its API server (`awman api start`)
accepts sessions, commands and one-shot runs over HTTP, keeps them in SQLite and
in files under the API root, executes them with a pool of queue workers and
streams their events. Its workflow engine runs a graph of agent steps, and its
squad daemon evaluates standing tasks on a schedule. This directory holds TLA+
models of the parts of awman in which several tasks, a database, files,
containers and restarts meet. Paths below are relative to the repository.

## Inventory

| Part | State it keeps | Operations | What is hard about it |
|------|----------------|------------|-----------------------|
| Command queue and workers (`src/command/commands/api_server/queue_worker.rs`, `src/data/fs/api_db.rs`) | rows of `sessions` and `commands`; `completion.json`, `cleanup.json`, `events.log` per command; one task per worker | enqueue, claim, execute, push back, publish, post-check | workers race for rows; publication is four separate durable steps; a crash between any two |
| Cancellation (`cancel.rs`, `src/data/api_lifecycle_store.rs`) | `command_cancellations` rows, the token registry | cancel of a queued, running, unowned or ended command | the row changes between the handler's read and its write; the token and the marker must agree with the claim |
| Session close (`runtime.rs`: `ApiSessionLifecycle::close`) | `sessions.status`, the clone, the in-memory session | DELETE, drain, close-on-finish | four kinds of callers run `close` concurrently; no lock covers it |
| Bootstrap (`runtime.rs`: `bootstrap`, `spawn_workers`) | everything on disk | restore, sidecars, cancellations, requeue, container stop, reconcile, drain, cleanup recovery | a second crash, or a failure, between any two steps |
| Idempotent admission (`admission.rs`, `api_db.rs`: `idempotency_*`) | the `idempotency_keys` row: owner, intent, barrier, response | begin, record intent, insert, record run, enqueue, record admission, compensate, finish, drop | retries overlap with the original, its rollback and a restart |
| Session setup (`src/command/session_setup.rs`, `api_server/session_setup.rs`, `routes.rs`: `run_session_setup`) | `setup_status`, `setup_state.json`, the clone, setup tokens | clone, branch, merges, open, ready checks, finish or fail, cancel | its end is recorded in three places and handed to three other tasks; a cancel may predate the token |
| Event bus and streaming (`event_bus.rs`, `command_log_stream.rs`, `src/data/execution_event.rs`, `src/data/fs/api_command_log.rs`) | broadcast channel, sequence, `events.log`, a cursor per subscription | emit, finish, write, subscribe, replay then follow, recover a gap, end, resume | replay and live events must join without a gap or a duplicate, under lag, a slow log and restarts |
| Workflow engine (`src/engine/workflow`, `src/data/workflow_dag.rs`, `workflow_state.rs`, `src/command/commands/exec_workflow`) | step states, the dependency graph, slots, phase states | ready steps, parallel groups, stuck containers, failures, retries, boards, setup and teardown, resume | steps end in any order while the engine decides about others; resume from an interrupted state |
| Squad scheduler and task store (`src/engine/squad`, `src/data/fs/task_store.rs`) | task and run rows, in-flight counter, cancellation handles | tick, start, evaluate, repair, outcome, backoff, trigger, cancel, pause, delete | selection and start are apart; the row is free before the evaluation is over; a crash in a run |
| Credential leases (`src/engine/credential_refresh`) | leases with generations, a monitor thread | register, write, drop | a stale monitor writing over a newer lease |
| Daemon guard (`src/engine/daemon`) | pid file, handshake | start, stop, take over | two daemons starting at once |
| Everything else | configuration, container drivers, OCI, ACP, git, overlays, TUI, CLI, remote client | | I/O, formats, presentation; see `components` in PROJECT.json |

How the server's parts interact: a POST handler admits work under its
idempotency key, inserts rows and spawns the setup of the session; a worker claims
a row of a ready session and registers the command's cancel token in one critical
section, runs it, then publishes the outcome (sidecar, row, event log, removal of
the sidecar) and, if the session is draining or the run asked for it, calls
`close`; a cancel handler changes the row itself, or stores a marker and fires the
worker's or the setup's token; DELETE calls the same `close`; subscribers read the
row, the log and the bus, and change nothing; a restarted daemon repairs what it
finds, in a fixed order, and only then starts the workers. A command may be a
workflow: then the dispatch is a run of the workflow engine, and its cancel token
is the engine's. The squad daemon is a process of its own.

What makes these parts correct: one command of a session runs at a time; an
accepted command ends, once, with one outcome that every view shows and nothing
changes; an accepted cancel is final and effective; a session that is to be
closed gets closed and leaves nothing behind; no container is left without an
owner; one key starts one piece of work, and each answer about it is true; a client
gets each event once, in order, and a true end; a step runs after its
dependencies and the reported outcome is what the steps say; one evaluation of a
task at a time, within the cap, and no task forgotten.

## Modules

| Module | What it is |
|--------|------------|
| `CommandLifecycle` | The abstract promise for one command: `none`, `queued`, `running`, then one outcome; a crash may put a command without an outcome back in the queue as its next attempt. |
| `CommandQueue` | Workers, cancel handlers, closes and bootstrap over the same disk, one store call per step. Extends nothing of the project; refines `CommandLifecycle`. |
| `CommandQueueProofs` | Proofs about `CommandQueue`: types, one running command, final cancels; then sidecar, log, containers and the refinement. |
| `RunAdmission` | POST `/v1/sessions`, `/v1/commands`, `/v1/runs` under one `Idempotency-Key`. |
| `RunAdmissionProofs` | Proofs: one admission per key, honest replies. |
| `SessionSetup`, `RunSetup` | The stages of a session's setup; the setup task of a session or run beside a cancel, a DELETE, the worker, crashes and bootstrap. |
| `RunSetupProofs` | Proofs: the two records of a setup's end agree, a command ends once. |
| `CommandLogCursor`, `EventStream` | Positions and the bookkeeping of one subscription; bus, log writer, subscription, client and recovery around it. |
| `EventStreamProofs` | Proofs: the stream is exact. |
| `WorkflowDag`, `WorkflowEngine`, `WorkflowRun` | The graph and resume algorithms; the main phase of a run; the whole run with setup, teardown, cancel, death and resume. |
| `WorkflowDagProofs` | Proofs: the graph's searches, order, dependents and points to resume at, for every graph. |
| `WorkflowEngineProofs`, `WorkflowRunProofs` | Proofs: what every step of the engine preserves; then the phases around it and the theorems about a run. |
| `SquadEvaluation`, `SquadTasks` | One evaluation of a task; the store, tick, evaluations and requests of the squad daemon. |
| `SquadTasksProofs` | Proofs: one evaluation per task, a cancel finds it, the cap, no lost trigger. |
| `MC...` | Constants, symmetry and bounded plans for TLC, one per system. |

Several specifications take their bounds from a *plan*, a record chosen by
`Init` from a small set that the MC module lists: one TLC run then covers several
scenarios (which kind of run, how many cancels, crashes, failures) without the
product of all of them. A plan says what the environment may do, never what the
code does.

### CommandQueue

Variables above the line "In the daemon" are on disk and survive `Crash`; the
others are lost. A worker's program counter `wpc` follows `execute_command`:
`claimed`, `dispatched`, `push`, `check` (the last look at the cancel marker),
`sidecar`, `row`, `remove`, `post`, `closing`, `unregister`. `cancel[c]` follows
`CommandCanceller::cancel` for command c, and `cpc[p]` follows `close` for each of
its callers: workers, DELETE handlers, the cleanup recovery, and the cancel
handlers of runs with `close_on_finish`. `phase` is `up`, `cleanup` (requests are
served, the pool is not started yet), `down`, or the next step of `bootstrap`.

A store method is one SQL statement or transaction under the connection lock and
is one step. Where two calls are merged into one step, no task can tell: the
earlier looks at the cancel marker in `execute_command` are subsumed by the last
one, because a marker is never removed. `cancel_if_queued` and
`cancel_unowned` include `finalize_unowned_command`; the state a crash between the
two would leave is the one its failing branch leaves.

`closeOnFinish`, on disk, says which of the runs (`Runs`) asked for their session to be
closed; `Init` chooses. `ReadsClose` is the pair of reads in `post_execution_check`,
either of which may fail, which counts as a no.

Undetermined things are choices: how a dispatch ends, whether a push works,
when the log writer task gets to the events it was sent. Every file or database
call the code may see failing has a failing branch, bounded by `MaxFailures`.

Simplifications, each visible in the model: sessions exist and are `ready` from
the start; a command's containers are gone when its dispatch returns; each
command has one cancel request at a time; bootstrap's repair of the log of a run
without `close_on_finish` is in EventStream only; the purge of closed sessions after 24 hours, the effect of a push on the remote, the text log,
event payloads and `metadata.json` are left out; a cleanup recovery that cannot
find its session leaves the pool stopped, as in the code, without modelling why
the session was missing; a sidecar that bootstrap applied is removed without a
failing branch.

### RunAdmission

Request r creates at most its own session and command. `rpc[r]` walks through
`IdempotencyGate::open`, `admit_session` or `admit_command`, `compensate_session`
and `finish`. The key's row has the owner and its daemon instance (`epoch`), the
stored response (`code`), the recorded intent and the resource it names; the
kind `compensating` is the rollback barrier that `insert_session_for_admission`
writes together with the provisional session. Dropped requests run the guard's
`Drop`. A DELETE is one step here, setup only "ends", and the 24-hour expiry is
left out: all requests come within it.

### SessionSetup and RunSetup

`task` is what the setup task does next: `admitted`, `reconcile` (a cancel older
than the token), `start`, `stage`/`cloning`, `open`, `ready`, then the three
records of its end, `drop` (the clone), `record` (the row), `save`
(`setup_state.json`), and for a run `result` (fail the command) and `look` (close).
`setup`, `file` and `clone` are on disk; `memory`, the token (`registered`,
`fired`) and everything with a program counter die with the daemon. `closer[c]`
is `ApiSessionLifecycle::close`, call by call, for its four callers. `boot`
follows `bootstrap` as far as setups are concerned: restore, the interrupted
setups (row, file, command, session, clone), stale recovery, `reconcile_runs`,
drained closes.

What a git command or the ready checks do is their success or failure; the setup
statuses before the end are all "running", because readers only tell ready and
failed from the rest; a token that fires kills the clone; one call of a behaviour
may fail (`failed` says which). A command here has no teardown and no log, which
are CommandQueue's; progress events and the git child of a killed daemon are left
out.

### CommandLogCursor and EventStream

A position is `<<attempt, sequence>>`. `CommandLogCursor` is `ReplayFrom` together
with `CommandLogCursor` of `command_log_stream.rs`: `Opened` is `resolve` and
`new`, `Sent`/`Advanced` are `replay`, `forward` and `send_frame` for a set of
events, `MissingBefore` the test for a gap. In `EventStream`, `stream.pc` follows
`CommandLogStream::open`: `subscribe`, `replay`, `wait`/`lookup`/`catchup`
(`wait_for_worker`), `live`/`behind` (the select of a receive and the status poll),
`gap` (`recover_command_log_gap`), `end`/`finish`/`await` (`finish_terminal_log`).
`wire` is what has been sent on the connection, `client.last` the Last-Event-ID
it comes back with; when a connection is lost, any prefix of `wire` has arrived.

The worker is reduced to what a subscriber can tell apart: row, sidecar, the
terminal pair under one lock, removal of the sidecar, the end of the bus after the
log writer has drained. A log that cannot be opened stays closed for the
execution (`writes`), which also stands for `finish_without_log`; bootstrap is one
step, since no stream is served during it; deadlines of five seconds pass when
nothing more can come, or (bounded) too early. Comments on the wire (waiting,
lagged, keepalive), wire encoding, the JSON snapshot, torn lines and holes in
the log, output drains and reads that fail are left out. A client with a cursor of
attempt 0 or a malformed one is left out too; `awman remote --follow`, which sends
no cursor, is the client of the first connection.

### WorkflowDag, WorkflowEngine and WorkflowRun

`WorkflowDag` has the pure algorithms as recursive functions:
`detect_cycle`, `topological_order`, `ready_steps`, `resume_stop_point`,
`rewind_to`. `WorkflowEngine` is `run_to_completion`: a container is a step with
the number of its launch, `exits` are the results of wait tasks the engine has not
looked at, and every action ends with the engine's `persist`, so `status` is
memory and state file in one. A board blocks the engine: opening it and its answer
are one step. `WorkflowRun` adds the gate, setup, teardown with remediation
agents and republishing, cancel, death and the next process. A step of the teardown
is checked and saved (`TeardownNext`), then begins (`TeardownStepBegins`), then ends:
a cancel may come between any two. `inHand` and `late` are history variables, for
`PublishingStops` only: the publishing steps that were past their last look at the
cancel when it came, and those that have begun since. `Clear` drops what is
only in memory when the main phase ends or the process dies.

Left out: prompts and context of agents, dynamic leaders, what GitHub, git and
shell steps do (success or failure), the state file's format and migration, and
the workflow hash check.

### SquadEvaluation and SquadTasks

`evals[r]` is the future of run r: `prepare`, `leader`, `workflow`, then
`decided`, `settle` (backoff), `over`, or `stopping` after a cancel, until its
guard is dropped. `runs` are the rows of `squad_runs` that something can still
read: a row leaves the model when its evaluation is over. `handles` and `inFlight`
are `SchedulerStatus`. A tick selects (`TickSelects`), then starts its tasks one
by one (`OpenRun`, `Dispatch`), with requests between.

Time is only what it does to the store: an interval elapses (`Rests`), a backoff
passes. "Not triggered" and "workflow executed" are one outcome, `done`.
`MAX_REPAIR_ATTEMPTS` is a plan's `repairs`. A configuration that does not load is
a tick that does nothing. Left out: editing a task, the environment push,
interval arithmetic, containers that survive a daemon's crash, and failing writes
other than those of `start_run` (either statement: `StartFails`), the outcome, the log
directory and the stop of agents. A run whose second statement failed, or whose
outcome could not be written, is in `lost`: its row stays `running` and its task waits
for the next start of the daemon, which `EveryDueTaskRuns` says.

## Runs

| Run | Instance | Checks |
|-----|----------|--------|
| `queue_safety` | 2 commands in one session, 2 workers, 1 DELETE, 1 crash | `TypeOK`, `OneRunning`, `CancelNeverRequeued` |
| `queue_durability` | 1 workflow command of a run, 1 worker, 1 DELETE, 2 crashes, 1 failing operation | `LogAgreesWithRow`, `CurrentContainerOwned`, `ImplementsLifecycle` |
| `queue_liveness` | 1 workflow command of a run, with `close_on_finish` and without, 1 worker, 1 DELETE, its cancel, 1 crash | `ClosingCloses`, `CancelEnds`, `RunCloses`, `AcceptedEnds` |
| `admission` | 3 requests with the key, one of them with another body, all routes, 1 crash, 1 failing operation | `TypeOK`, `OneAdmission`, `RepliesAreTrue` |
| `setup` | 10 plans: runs and a plain session, local and remote, closed on finish or not, with a cancel, a DELETE, up to 2 crashes, a failing call | `TypeOK`, `RunEnds`, `CancelEndsSetup`, `CloseOnFinish`, `CancelledSetupCloses`, `ClosedLeavesNothing` |
| `stream` | 4 plans: a command or a run of 2 attempts with up to 2 outputs each, a bus that keeps 1 event, a client of one step; a crash, a failing write, a broken log, a cancel, an early deadline, a lost connection | `TypeOK`, `StreamExact`, `StreamFollows` |
| `workflow` | 7 runs: chain, fan, join and independent steps, cap 1 and 2, yolo or not, attended or not, run once or twice; 1 crash, 1 remediation attempt, a teardown of commit, push, poll and shell | `DagLaws`, `TypeOK`, `DependenciesFirst`, `SlotsAgree`, `BoundedRetries`, `OutcomeHonest`, `FrozenQueue`, `PublishingStops`, `CleanupOnce`, `CancelCleansUp`, `UnattendedEnds` |
| `squad` | 5 plans: 2 tasks under a cap of 0 or 1 (both mean one at a time), 2 tasks, 1 with cancels, 1 deleted and created again, 1 with every request, a stop, a crash and a failure | `TypeOK`, `OneEvaluation`, `CancelReachesRun`, `CapRespected`, `TriggerKept`, `EveryDueTaskRuns`, `CancelEndsRun` |
| `v_containers`, `v_admission`, `v_inflight`, `v_resume` | as small as the counterexample allows (`v_resume`: as `workflow`) | one statement of the docs or comments each, violated; see below |

Why the bounds are enough. A property of the queue relates two commands of one
session at most; different sessions share only the claim order, which picks rows
one by one. Two workers are enough for two claims to race, and the workers are
interchangeable (symmetry, used only where no liveness property is checked). One
crash reaches every recovery path from every reachable state; two crashes, with
one failure, reach a recovery interrupted by a crash, and so does a refused
start. In `admission` two requests show a retry; the third comes after the
retry took the key over. In `stream` a bus of one event makes every subscriber that
is two events behind a lagging one, two attempts are what a resumed cursor can
confuse, and two outputs give an event before and after any gap. Three steps are
enough for a group of two with one queued, and for a dependency of each kind; two
squad tasks for one that waits while the other runs; a cap lowered below what
already runs is left to the theorem `CapHolds`. In `queue_liveness` a run without
`close_on_finish` leaves the drain as the worker's only reason to close a session,
and one with it, in a session that is not draining, the run as the only one. `DagLaws` is about every
graph on three steps with an unknown name among the dependencies, and is
evaluated once, in the initial states; `EveryGraphLawful` proves the laws for every
graph.

`CHECK_DEADLOCK FALSE` is set where the system may stop: all commands have ended,
the sessions are closed, all requests are answered, the client has Done, and the
bounds are used up. `WorkflowRun` has its own final stutter and is checked for
deadlock.

Fairness, always weak and always of what the code's scheduler really drives:

* `CommandQueue`: each worker, the log writer, each handler that has begun, each
  close, and the steps of a restart: an operator, or the service manager, starts a
  daemon that died. A dispatch whose cancel token has fired returns. That an agent
  left alone finishes is a premise inside the properties that need it
  (`AgentsFinish`); `CancelEnds` does without.
* `RunSetup`: tasks, handlers, the worker and bootstrap. That origins answer and
  agents finish are premises of `RunEnds` only.
* `EventStream`: the end of a worker that has completed, the log writer, the
  subscription, a restart, and a client that comes back. Nothing obliges a
  command to be claimed, to emit or to end.
* `WorkflowRun`: the engine, the phases, agents that end, and a restart.
* `SquadTasks`: the tick, each evaluation, handlers that have begun, the passing of
  time, and the start of a daemon that crashed; one that was stopped may stay so.

Nothing is assumed about requests arriving, crashes or failures. Liveness of the
queue is checked with `MaxFailures = 0`, since for example a row that cannot be
written stays `running` until the next restart.

Each property of a passing run has a mutant, in PROJECT.json: a version of one
definition with a plausible bug, next to it in the module, under which TLC finds
the property violated.

## Findings

* `v_containers`: bootstrap requeues a stale command in one step and stops its
  old containers in a later one, for the commands of its own list only. A
  crash, or a refused start, between the two leaves the old container running
  beside the next attempt, which the comment there means to exclude.
* `v_admission`: `admit_command` checks the session and `enqueue_command` inserts
  the row in separate calls, so a command can be queued, and later run, in a
  session that a DELETE closed in between.
* `v_inflight`: the rollback barrier outlives a crash in the middle of an
  admission, and retries are told `in_flight` while nobody handles the request.
* `v_resume`: a resume rewinds to one point of a total order; after a crash in the
  middle of a parallel group a step that had succeeded runs again, or an
  interrupted one is skipped (`docs/05-workflows.md:1557` says neither happens).

Liveness and exactness hold up to cases the properties except by name. Each is
a behaviour of the code, reached in the model:

* `LeftRecipe` (`ClosingCloses`, `RunCloses`): a workflow requeued after a crash keeps its
  cleanup recipe; cancelled in the queue it has no marker, so nothing retires the
  recipe and its session stays `closing` with nothing running
  (`runtime.rs:857`, `docs/09-api-and-remote-mode.md:881`).
* `Stranded` (`ClosingCloses`): a session is left `closing` over a restart with a
  command in the queue, because a crash requeued it or came before
  `cancel_queued_for_session`. If a client cancels that command in the queue, and it is
  not that of a run to be closed, nobody closes the session: the cancel handler calls
  `close` for runs only (`runtime.rs:612`). It stays `closing` until the next DELETE or
  restart.
* `Orphaned` (`RunEnds`): the daemon dies after a failed setup is recorded and
  before its command is failed: restore closes the session, and the command stays
  `queued` for ever (`docs/09-api-and-remote-mode.md:1618`).
* `ReadyLost` (`RunEnds`): the write of a ready `setup_status` fails, which is
  ignored; the command waits for the next restart.
* `ClosedUnderSetup` (`ClosedLeavesNothing`, `CancelledSetupCloses`): a DELETE does
  not fire the token of a setup, which goes on and makes a clone that nobody
  deletes (`docs/09-api-and-remote-mode.md:118`).
* `ClosedFirst` (`ClosedLeavesNothing`): a second crash, in bootstrap, between the
  close of an interrupted session and the deletion of its clone leaves the clone.
  `CancelledSetupCloses` is not promised across a crash at all: a restart knows
  `close_on_finish` only (`docs/09-api-and-remote-mode.md:1636`).
* A `fail_if_queued` that fails makes `finish_run_setup` return before the close
  (`failed = "row"`).
* `Overtaken` (`StreamExact`): a crash loses the tail of the log, which a client
  has already received; recovery puts the terminal pair at those positions, and
  the client, resuming after them, gets Done but never the final status.
* A row without a result (`stream.terminal = FALSE`): a stream that reads a command
  cancelled in the queue between its row and its result ends with Done and no
  final status.
* The missing pair of a plain command that died between the removal of its sidecar
  and the last write of the log is never repaired (only that of runs is,
  `runtime.rs:1020`); its clients get an end without an id.

* `inHand` (`PublishingStops`): `phases.rs:117` says of a teardown switched by a cancel
  that "its remaining publishing steps are skipped", and `phases.rs:271` that "nothing
  that publishes the cancelled work starts". The code promises less. A step is checked
  (line 274), saved as `running` (line 288) and then begun: a cancel in between does not
  stop it. After an `on_failure` agent has ended the cancel is looked at once; the pushes
  of the agent's fix (`republish_ci_fix`, line 662) and the retried poll (line 630)
  follow without another look. What the property says is what is left of the
  comments: exactly those steps still begin, each at most once, and nothing after them.

Seen while modelling and not given a run: going back a step marks the step
Cancelled (`src/engine/workflow/control.rs:552`) where
`docs/05-workflows.md:1181` says Pending; a cancelled squad run stops agents by the
name of its task, so that it may stop the agent of a run a trigger has started
meanwhile (`scheduler.rs:821`), which then fails and backs off; a cancel accepted
after the worker's last look at the marker is answered `Stopping` while the
command ends done (`queue_worker.rs:1160`); a failing `recover_stale_commands` is
only logged and leaves rows `running` without an owner (`runtime.rs:398`).

## Proofs

A run shows a property for a few commands, requests or steps; a theorem shows it
for every value of the constants that the module's assumption allows. Every
invariant, action property and refinement a passing run checks is the statement
of a theorem; liveness is only model-checked. Each proof has the
same form: an inductive invariant, one lemma per part of it, one step per action
that can disturb the part, and a temporal step at the end.

### Assumptions

| Module | What is assumed of the constants | Why |
|--------|----------------------------------|-----|
| `CommandQueue` (`QueueAssumption`) | types; the `No...` values and task names are distinct; a session has at most one one-shot run | ids are UUIDs; a run creates its session |
| `RunAdmission` (`AdmissionAssumption`) | types; `NoReq` is no request | |
| `RunSetup` (`PlanAssumption`) | types of a plan; a list of stages that is not empty begins with the clone | `prepare_clone` clones before it branches and merges |
| `SquadTasks` (`PlanAssumption`, `IdAssumption`) | types; finitely many task ids; initial names are unique | the column is `UNIQUE` |
| `WorkflowEngine`, `WorkflowRun` | types; the graph is well-formed (`WellFormed`: lists of steps and of dependencies, unique step names) and one `WorkflowDag::build` accepts; `cap >= 1` | see below |
| `EventStream` (`StreamAssumption`) | types; the bus holds at least one event | the channel's capacity is a positive constant |

Bounds (`MaxCrashes`, `MaxFailures`, plans) are arbitrary naturals in the proofs.
Unique step names are the one assumption that the code does not establish:
`docs/05-workflows.md:166` promises them, the engine keys its maps by name, and no
parser rejects a duplicate.

### CommandQueueProofs

`TypeCorrect`, `SessionsRunOneCommand` and `CancelIsFinal` from
`IInv == TypeOK /\ WorkerOK /\ CloseOK /\ PhaseOK /\ CancelOK /\ OneRunning`. None of
the three is inductive alone. Typing needs `WorkerOK` and
`CloseOK`: a worker that publishes has a command and a terminal outcome, a
running `close` has a session. `CancelNeverRequeued` needs `CancelOK`: a handler
about to store a marker looked at a row that was past the queue, and only
`recover_stale_commands` can put one back, which happens after bootstrap has
finalised every marked row; `PhaseOK` says that no handler or worker is active
then. `OneRunning` needs that only a claim makes a row `running`, and that the
claim looks at the session's rows in the same step.

The second half of the module is about outcomes. `OutcomeInv` adds to `IInv` who may end a row and what the durable records of its
attempt say:

* `WorkerOwns`: one worker holds a command, and its row is `running` until that
  worker writes it;
* `SidecarAgrees`: a sidecar of the current attempt has the outcome the row will
  get, and a waiting command has none;
* `LogOrdered`, `LogAgrees`: one terminal pair per attempt, and it says the outcome
  on disk;
* `ContainersKnown`: where containers of the current attempt may be found.

From it: `QueueImplementsLifecycle` (every step of the queue is a step of
`CommandLifecycle` or a stutter, command by command), `OutcomeIsFinal`,
`OnePairPerAttempt`, `ContainersOwned` and `LogTellsTheRow`. The last one is
`failures <= 1 => LogAgreesWithRow`, and the restriction is the code's: if the
sidecar's write and the row's write of the same publication both fail, the log
has a terminal pair that nothing on disk bears out, and a restart runs the command
again. `queue_durability` has `MaxFailures = 1`. `ContainersOwned` is restricted to
behaviours without a failure inside the property itself.

### RunAdmissionProofs

The invariant follows what the row of the key must not lose: `Remembered` (work
that was started is what the key stands for, for good), `Guarded` (a session that
is not closing is started work, or the rollback barrier keeps the key from being
taken) and `Honest` (a stored 202, or an intent of which anything was written,
names started work). `RequestShape` and `CommandOwned` say what a handler has done
at each await. `AdmittedOnce` and `RepliesHonest` follow, on every route.

### RunSetupProofs

`Placed` and `Recorded` say where the setup task is and what its two records are
meanwhile. Beside typing it gives `SetupRecordsAgree`: `setup_state.json`
and the row contradict each other only if the write of a ready row failed; and
`CommandEndsOnce`: nothing changes the status of a run's command that has ended.

### EventStreamProofs

`Safe` is the conjunction of what the bus and the log hold of every attempt
(`Producer`), the types of the subscription (`StreamType`), what was
told and what is on the way (`Subscribed`), what a `Done` may say (`EndsTrue`) and
where a client resumes (`Behind`). The argument has two lemmas at its centre.

* `Grows`: between crashes, events are only added, at the end of the current
  attempt, and only while it has not ended. So everything that was told stays true
  while the worker and the writer go on, and only a crash, which cuts the
  unwritten tail off, needs a look of its own.
* `Forwarding`: forwarding a set of events without a gap keeps the frames in step
  with the events. `ForwardLogged` uses it for what is read from the log (replay
  and recovery), `ForwardOne` for one event of the bus, which is only forwarded
  when nothing before it is missing (`MissingBefore`).

`Behind` is what reconnections need: no event is ever put at or before the position
that a client resumes from, even if the daemon died after it was told (`CrashKnown`,
`BootKnown`).

### WorkflowDagProofs

What the recursive functions of `WorkflowDag` compute, for every well-formed graph:
`EveryGraphLawful`. The provers cannot instantiate an induction theorem, which
takes an operator, so induction is over sets: `LeastNat` (a set of naturals that
is not empty has a least member, so of the cases where a claim fails there is a
first) for loops, and `Paths` for the searches (a set of paths that has each path
whose extensions it has has every path; it ends because a path cannot repeat a
step). `PathRecursion` and `WalkTrace` show that the recursions have a solution at
all; `WalkInvariant` is the rule for a loop, as a set of values for each place.

* `CyclesFound`. `cycle_dfs` marks a node as visited when it enters it, so
  "visited" alone does not mean "not on a cycle". `Looks` is the claim about a path
  (`in_stack`): what is visited and not on the path is `Sound` (closed under
  dependencies, no cycle), and a reported cycle exists, since a closed path is a
  set of steps that all wait for one another (`ClosedPath`).
* `TopologicalOrderSorted`. `Topo` is the same kind of claim about `topo_dfs`: what
  is out is in order and off the path. On a graph without a cycle a dependency is
  never on the path, which is what lets `topo_dfs` skip every visited node.
* `DependentsWait`. As many rounds as there are steps are enough, because a round
  that finds nothing is the last and each other one adds a step.
* `ResumableAnywhere`. After `rewind_to` the completed steps are exactly those
  before the chosen one in the order (`RewoundCompleted`), so the chosen one is
  ready; the offered points are points of that order (`StartPoints`).
* `ReadyUnlessDone`. What is not done has a step that waits for nothing that is not
  done.

### WorkflowEngineProofs and WorkflowRunProofs

The engine's part, `EngineSafe`, follows a step through the places it can be in:
`Shape` (which of them are empty at each control point), `Apart` (a step is in one
of them, once), `SlotsOwned` and `StatusPlaced` (a slot is for the newest
container of a running step, and `max_concurrent` counts slots and launches),
`DepsHeld` (everything about to run has its dependencies finished), `Counted` (each
launch after the first used up the automatic or the auth retry). `WorkflowRunProofs`
adds the phases around it: `Waiting`, `Cleaning`, `Publishing` and `Honest`.
`PublishingConfined` is not inductive by itself: that no step begins twice after a
cancel needs that whatever is past its check now and has not begun was past it when
the cancel came. `ReadyFacts` (of
`WorkflowDagProofs`) says what `ready_steps` returns for every graph.

The graph's theorems then say something of runs. `DagsLawful` is the theorem for
the invariant `DagLaws`. `LoopNeverStalls` and `LoopLeftInOrder`: the branch of
`run_to_completion` that ends a run with an error because no step is ready is
unreachable, whatever was skipped, restarted, rewound or resumed. `RestartsSound`: a
run that starts on what another one left, after a death or an end, counts only
steps over done steps as done and has a step to start. Their properties
(`NeverStalls`, `LoopEndsInOrder`, `StartsSound`) stand in the module of the proofs
and have no run of their own.

### SquadTasksProofs

`OneEvaluation` is not inductive because selection and start are apart. `TickOK`
says what the tick knows of the tasks it selected (distinct, within the cap,
nobody evaluates them, except for the row it opened a moment ago), and `RowsKept`
which row an undecided evaluation has when requests delete and create tasks
meanwhile. `CancelFindsRun`, `CapHolds` and `TriggersAreKept` come from the same
invariant.

### Only model-checked

Every liveness property: fairness and `ENABLED` are outside the prover. The
`v_...` runs are counterexamples: there is nothing to prove about them. That a
`WorkflowDag` function is written with `Walk` and `Kept`, where the library has
`FoldLeft` and `SelectSeq`, is for the proofs: the library's take an operator.

## Not modelled

Credential leases and the daemon guard are small and self-contained (one mutex
and one generation counter; one pid file) and come last in the plan. Git,
containers, OCI, ACP and the remote client are calls to other programs, which the
models see as outcomes. Session creation policy, configuration, overlays and auth
are pure lookups. Ready, init and agent set-up run once, in order, for one user.
CLI, TUI and API rendering are presentation. Within the modelled parts, what is left
out is named in the sections above.

## Plan

1. Done: `CommandLifecycle`, `CommandQueue`, `RunAdmission`, their runs, and the
   first inductive invariant; `RunSetup`; `EventStream`; `WorkflowRun`;
   `SquadTasks`.
2. Done: the safety properties of all the systems as theorems, the refinement of
   `CommandLifecycle`, and the graph algorithms for every graph.
3. `CredentialLease` and `DaemonGuard`: at most one holder; a stale monitor changes
   nothing.

## Running it

    tlc -workers 2 -config queue_safety.cfg MCCommandQueue
    tlc -workers 2 -config admission.cfg MCRunAdmission
    tlc -workers 2 -config setup.cfg MCRunSetup
    tlc -workers 2 -config stream.cfg MCEventStream
    tlc -workers 2 -config workflow.cfg MCWorkflowRun
    tlc -workers 2 -config squad.cfg MCSquadTasks
    tlapm CommandQueueProofs.tla      (RunAdmissionProofs, WorkflowDagProofs, ...)

`queue_safety` and `admission` have about 2 million states each and take one to
four minutes; `stream`, `workflow` and `squad` have 140 to 250 thousand states and
take two to three minutes each, most of it liveness; every other run takes at most
a minute.
