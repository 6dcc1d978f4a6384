---------------------------- MODULE CommandQueue ----------------------------
(***************************************************************************)
(* The command queue of the awman API server: the rows of the `sessions`    *)
(* and `commands` tables, the pool of queue workers that claim and run      *)
(* them, the POST /v1/commands, POST /v1/commands/{id}/cancel and DELETE    *)
(* /v1/sessions/{id} handlers that race with the workers, and the recovery  *)
(* a new daemon does after a crash.                                         *)
(*                                                                          *)
(* Every store method is one SQL statement or transaction under the         *)
(* connection lock, so a step here is one such call (or several that no     *)
(* other task can tell apart); every await and every gap between two calls  *)
(* is a place where the other tasks may run or the daemon may die.          *)
(***************************************************************************)
EXTENDS Naturals, Sequences

CONSTANTS
  Commands,     \* command ids, each submitted by its own POST
  Sessions,     \* session ids; every session's setup is over and `ready`
  SessionOf,    \* the session each command is submitted to
  Remote,       \* the sessions that own a clone the server deletes
  Workflows,    \* the commands that are `exec workflow`: they save a recipe
  Runs,         \* the commands that came with a POST /v1/runs, each with
                \* a session of its own
  Workers,      \* queue workers of one daemon (`workers` in the config)
  Closers,      \* concurrent DELETE /v1/sessions/{id} handlers
  Recovery,     \* the task that finishes cancelled cleanup before the pool
  NoCmd,        \* "no command": the worker is idle
  NoSession,    \* "no session": this close() is not running
  MaxCrashes,   \* bound: how often the daemon may die
  MaxFailures   \* bound: how many I/O operations may fail

ASSUME QueueAssumption ==
  /\ SessionOf \in [Commands -> Sessions]
  /\ Remote \subseteq Sessions /\ Workflows \subseteq Commands
  /\ NoCmd \notin Commands /\ NoSession \notin Sessions
  /\ Runs \subseteq Commands
  /\ \A c, d \in Runs : SessionOf[c] = SessionOf[d] => c = d
  /\ Workers \cap Closers = {} /\ Recovery \notin Workers \cup Closers
  /\ Commands \cap (Workers \cup Closers \cup {Recovery}) = {}
  /\ MaxCrashes \in Nat /\ MaxFailures \in Nat

VARIABLES
  \* On disk: the database, the files of the API root, the containers.
  session,      \* sessions.status
  status,       \* commands.status; "none" before the row exists
  attempt,      \* commands.attempt
  order,        \* the commands in the order of queued_at, rowid
  marker,       \* commands with a command_cancellations row
  sidecar,      \* completion.json of a command: attempt and status, or none
  log,          \* the terminal events in events.log, oldest first
  recipe,       \* commands with a cleanup.json
  workdir,      \* sessions whose checkout directory exists
  live,         \* attempts of a command whose containers are running
  closeOnFinish,\* runs.close_on_finish: the runs that asked to have their
                \* session closed when the command ends; never changed
  \* In the daemon: lost in a crash.
  phase,        \* "up", "down", or the next step of bootstrap
  recovered,    \* bootstrap's local: the commands it put back in the queue
  inMemory,     \* keys of the SessionManager
  token,        \* the cancel token of a command in the TokenRegistry
  wpc, wcmd, wout, flush,       \* a worker: where it is, its command, the
                                \* status it will publish, its log writer
  admit,        \* commands whose POST has passed the admission check
  cancel,       \* where the cancel handler of a command is
  cpc, csession,                \* a run of close(): where, and its session
  \* Bounds.
  crashes, failures

disk == <<session, status, attempt, order, marker, sidecar, log, recipe,
          workdir, live, closeOnFinish>>
worker == <<wpc, wcmd, wout, flush>>
handlers == <<admit, cancel, cpc, csession>>
daemon == <<phase, recovered, inMemory, token>>
bounds == <<crashes, failures>>
vars == <<disk, daemon, worker, handlers, bounds>>

Terminal == {"done", "error", "cancelled"}
Statuses == {"none", "queued", "running"} \cup Terminal
NoSidecar == [attempt |-> 0, status |-> "none"]
Attempts == Nat \ {0}
Completion == [attempt : Attempts, status : Terminal]
\* Who runs close(): workers, DELETE handlers, the cleanup recovery, and the
\* cancel handlers of the runs.
Closes == Workers \cup Closers \cup {Recovery} \cup Runs

CommandsOf(s) == {c \in Commands : SessionOf[c] = s}
Running(s) == \E c \in CommandsOf(s) : status[c] = "running"
\* A failed file or database operation; the code's error path follows.
Fails == failures < MaxFailures /\ failures' = failures + 1
Works == failures' = failures

Init ==
  /\ session = [s \in Sessions |-> "active"]
  /\ status = [c \in Commands |-> "none"]
  /\ attempt = [c \in Commands |-> 1]
  /\ order = <<>> /\ marker = {} /\ recipe = {}
  /\ sidecar = [c \in Commands |-> NoSidecar]
  /\ log = [c \in Commands |-> <<>>]
  /\ workdir = Sessions
  /\ live = [c \in Commands |-> {}]
  /\ phase = "up" /\ recovered = {} /\ inMemory = Sessions
  /\ token = [c \in Commands |-> "none"]
  /\ wpc = [w \in Workers |-> "idle"] /\ wcmd = [w \in Workers |-> NoCmd]
  /\ wout = [w \in Workers |-> "none"] /\ flush = [w \in Workers |-> "none"]
  /\ admit = {} /\ cancel = [c \in Commands |-> "idle"]
  /\ cpc = [p \in Closes |-> "idle"]
  /\ csession = [p \in Closes |-> NoSession]
  /\ crashes = 0 /\ failures = 0
  /\ closeOnFinish \in SUBSET Runs

-----------------------------------------------------------------------------
(* POST /v1/commands *)

\* admit_command: the session accepts work and its setup is ready.
AdmitCheck(c) ==
  /\ phase \in {"cleanup", "up"}
  /\ status[c] = "none" /\ c \notin admit
  /\ session[SessionOf[c]] = "active"
  /\ admit' = admit \cup {c}
  /\ UNCHANGED <<disk, daemon, worker, cancel, cpc, csession, bounds>>

\* enqueue_command_with_labels, a statement of its own: nothing holds the
\* session's status between the check and the insert.
EnqueueCommand(c) ==
  /\ c \in admit
  /\ admit' = admit \ {c}
  /\ \/ /\ Works
        /\ status' = [status EXCEPT ![c] = "queued"]
        /\ order' = Append(order, c)
     \/ Fails /\ UNCHANGED <<status, order>>
  /\ UNCHANGED <<session, attempt, marker, sidecar, log, recipe, workdir,
                 live, closeOnFinish, daemon, worker, cancel, cpc, csession,
                 crashes>>

-----------------------------------------------------------------------------
(* The terminal pair of events.log *)

HasPair(c) == \E i \in 1 .. Len(log[c]) : log[c][i].attempt = attempt[c]

\* append_terminal: adds the pair unless this attempt already has one.
AppendTerminal(l, c, st) ==
  IF HasPair(c) THEN l[c]
  ELSE Append(l[c], [attempt |-> attempt[c], status |-> st])

-----------------------------------------------------------------------------
(* Queue workers *)

\* Mutant of Claimable: a session's running command does not block it.
ClaimableAnyway(c) == status[c] = "queued"

Claimable(c) ==
  /\ status[c] = "queued"
  /\ ~ Running(SessionOf[c])

\* ORDER BY queued_at, rowid LIMIT 1 among the claimable rows.
IsNext(c) ==
  \E i \in 1 .. Len(order) :
    /\ order[i] = c /\ Claimable(c)
    /\ \A j \in 1 .. i - 1 : ~ Claimable(order[j])

\* TokenRegistry::claim: the row becomes `running` and its token is
\* registered under the registry's lock.
ClaimNextCommand(w) ==
  /\ phase = "up" /\ wpc[w] = "idle"
  /\ \E c \in Commands :
       /\ IsNext(c)
       /\ status' = [status EXCEPT ![c] = "running"]
       /\ token' = [token EXCEPT ![c] = IF @ = "none" THEN "live" ELSE @]
       /\ wcmd' = [wcmd EXCEPT ![w] = c]
  /\ wpc' = [wpc EXCEPT ![w] = "claimed"]
  /\ UNCHANGED <<session, attempt, order, marker, sidecar, log, recipe,
                 workdir, live, closeOnFinish, phase, recovered, inMemory,
                 wout, flush, handlers, bounds>>

\* Mutants of FailEarly: the outcome is not kept for publish; the worker
\* returns without publishing.
FailEarlyNoOutcome(w, st, writer) ==
  /\ wpc' = [wpc EXCEPT ![w] = "sidecar"]
  /\ flush' = [flush EXCEPT ![w] = writer]
  /\ UNCHANGED <<wout, live>>

FailEarlyUnpublished(w, st, writer) ==
  /\ wpc' = [wpc EXCEPT ![w] = "unregister"]
  /\ wout' = [wout EXCEPT ![w] = st]
  /\ flush' = [flush EXCEPT ![w] = writer]
  /\ UNCHANGED live

\* A failure before dispatch publishes without a final look at the marker.
FailEarly(w, st, writer) ==
  /\ wpc' = [wpc EXCEPT ![w] = "sidecar"]
  /\ wout' = [wout EXCEPT ![w] = st]
  /\ flush' = [flush EXCEPT ![w] = writer]
  /\ UNCHANGED live

\* The session is in memory: the dispatch starts, with a log writer.
StartDispatch(w) ==
  /\ SessionOf[wcmd[w]] \in inMemory
  /\ wpc' = [wpc EXCEPT ![w] = "dispatched"]
  /\ flush' = [flush EXCEPT ![w] = "open"]
  /\ live' = [live EXCEPT ![wcmd[w]] = @ \cup {attempt[wcmd[w]]}]
  /\ UNCHANGED wout

\* execute_command up to the dispatch: a marker left before this worker owned
\* the command fires the token (one that cannot be read counts as absent);
\* then decode the args, make the directory and look the session up.
ExecuteBegin(w) ==
  LET c == wcmd[w] IN
  /\ wpc[w] = "claimed"
  /\ \/ /\ token' = [token EXCEPT ![c] = IF c \in marker THEN "fired" ELSE @]
        /\ \/ /\ Fails
              /\ \/ FailEarly(w, IF c \in marker THEN "cancelled" ELSE "error",
                              "none")
                 \/ FailEarly(w, "error", "none")
           \/ /\ Works /\ SessionOf[c] \notin inMemory
              /\ FailEarly(w, "error", "open")
           \/ Works /\ StartDispatch(w)
     \/ Fails /\ UNCHANGED token /\ StartDispatch(w)
  /\ UNCHANGED <<session, status, attempt, order, marker, sidecar, log,
                 recipe, workdir, closeOnFinish, phase, recovered, inMemory,
                 wcmd, handlers, crashes>>

\* record_cancel_cleanup: `exec workflow` saves what its teardown needs
\* before its first setup step.
RecordCancelCleanup(w) ==
  /\ wpc[w] = "dispatched" /\ wcmd[w] \in Workflows \ recipe
  /\ recipe' = recipe \cup {wcmd[w]}
  /\ UNCHANGED <<session, status, attempt, order, marker, sidecar, log,
                 workdir, live, closeOnFinish, daemon, worker, handlers,
                 bounds>>

\* The dispatch returns (or panics): its containers are gone.  A fired token
\* makes it return; an exit code 0 goes on to push-back.
DispatchEnd(w) ==
  /\ wpc[w] = "dispatched"
  /\ live' = [live EXCEPT ![wcmd[w]] = @ \ {attempt[wcmd[w]]}]
  /\ \E res \in {"done", "error"} :
       /\ wout' = [wout EXCEPT ![w] = res]
       /\ wpc' = [wpc EXCEPT ![w] = IF res = "done" /\ wcmd[w] \notin marker
                                    THEN "push" ELSE "check"]
  /\ UNCHANGED <<session, status, attempt, order, marker, sidecar, log,
                 recipe, workdir, closeOnFinish, daemon, wcmd, flush,
                 handlers, bounds>>

\* push_after_success: a failed push turns the success into an error.
PushAfterSuccess(w) ==
  /\ wpc[w] = "push"
  /\ \/ Works /\ UNCHANGED wout
     \/ Fails /\ wout' = [wout EXCEPT ![w] = "error"]
  /\ wpc' = [wpc EXCEPT ![w] = "check"]
  /\ UNCHANGED <<disk, daemon, wcmd, flush, handlers, crashes>>

\* The last look at the marker (the earlier ones are subsumed by it: a marker
\* is never removed), then the cleanup recipe is retired.  Either may fail.
FinalCancelCheck(w) ==
  LET c == wcmd[w]
      checked == [wout EXCEPT ![w] = IF c \in marker THEN "cancelled" ELSE @]
  IN
  /\ wpc[w] = "check"
  /\ wpc' = [wpc EXCEPT ![w] = "sidecar"]
  /\ \/ Works /\ wout' = checked /\ recipe' = recipe \ {c}
     \/ Fails /\ wout' = checked /\ UNCHANGED recipe
     \/ Fails /\ UNCHANGED wout /\ recipe' = recipe \ {c}
  /\ UNCHANGED <<session, status, attempt, order, marker, sidecar, log,
                 workdir, live, closeOnFinish, daemon, wcmd, flush, handlers,
                 crashes>>

\* publish, first part: the completion goes to the sidecar before the row.
WriteSidecar(w) ==
  LET c == wcmd[w] IN
  /\ wpc[w] = "sidecar"
  /\ wpc' = [wpc EXCEPT ![w] = "row"]
  /\ \/ /\ Works
        /\ sidecar' = [sidecar EXCEPT ![c] = [attempt |-> attempt[c],
                                              status |-> wout[w]]]
     \/ Fails /\ UNCHANGED sidecar
  /\ UNCHANGED <<session, status, attempt, order, marker, log, recipe,
                 workdir, live, closeOnFinish, daemon, wcmd, wout, flush,
                 handlers, crashes>>

\* Mutant of PersistRow: a failed row write still removes the sidecar.
PersistRowForgets(w) ==
  /\ wpc[w] = "row"
  /\ \/ Works /\ status' = [status EXCEPT ![wcmd[w]] = wout[w]]
     \/ Fails /\ UNCHANGED status
  /\ wpc' = [wpc EXCEPT ![w] = "remove"]
  /\ flush' = [flush EXCEPT ![w] = IF @ = "open" THEN "pending" ELSE @]
  /\ UNCHANGED <<session, attempt, order, marker, sidecar, log, recipe,
                 workdir, live, closeOnFinish, daemon, wcmd, wout, handlers,
                 crashes>>

\* complete_command, an unconditional UPDATE, and its bounded retry; then the
\* terminal events go to the bus whether or not the row was written.
PersistRow(w) ==
  /\ wpc[w] = "row"
  /\ \/ /\ Works
        /\ status' = [status EXCEPT ![wcmd[w]] = wout[w]]
        /\ wpc' = [wpc EXCEPT ![w] = "remove"]
     \/ /\ Fails
        /\ wpc' = [wpc EXCEPT ![w] = "post"]
        /\ UNCHANGED status
  /\ flush' = [flush EXCEPT ![w] = IF @ = "open" THEN "pending" ELSE @]
  /\ UNCHANGED <<session, attempt, order, marker, sidecar, log, recipe,
                 workdir, live, closeOnFinish, daemon, wcmd, wout, handlers,
                 crashes>>

\* publish, last part: the stored row needs no sidecar.
RemoveSidecar(w) ==
  /\ wpc[w] = "remove"
  /\ wpc' = [wpc EXCEPT ![w] = "post"]
  /\ \/ Works /\ sidecar' = [sidecar EXCEPT ![wcmd[w]] = NoSidecar]
     \/ Fails /\ UNCHANGED sidecar
  /\ UNCHANGED <<session, status, attempt, order, marker, log, recipe,
                 workdir, live, closeOnFinish, daemon, wcmd, wout, flush,
                 handlers, crashes>>

\* The log writer task writes the pair it received from the bus, any time
\* after publish sent it.
FlushLog(w) ==
  LET c == wcmd[w] IN
  /\ flush[w] = "pending"
  /\ flush' = [flush EXCEPT ![w] = "none"]
  /\ \/ /\ Works
        /\ log' = [log EXCEPT ![c] = Append(@, [attempt |-> attempt[c],
                                                status |-> wout[w]])]
     \/ Fails /\ UNCHANGED log
  /\ UNCHANGED <<session, status, attempt, order, marker, sidecar, recipe,
                 workdir, live, closeOnFinish, daemon, wpc, wcmd, wout,
                 handlers, crashes>>

\* Whether the session of an ended command is closed: it is draining, or the
\* command is its run's and asked for it.  A failed read counts as a no.
ReadsClose(c, closes) ==
  LET closing == session[SessionOf[c]] = "closing"
      asked == c \in closeOnFinish
  IN \/ Works /\ closes = (closing \/ asked)
     \/ Fails /\ closes \in {closing, asked, FALSE}

ClosesOrReturns(w, closes) ==
  IF closes
  THEN /\ wpc' = [wpc EXCEPT ![w] = "closing"]
       /\ cpc' = [cpc EXCEPT ![w] = "read"]
       /\ csession' = [csession EXCEPT ![w] = SessionOf[wcmd[w]]]
  ELSE wpc' = [wpc EXCEPT ![w] = "unregister"] /\ UNCHANGED <<cpc, csession>>

\* Mutant of PostExecutionCheck: a draining close is not finished.
PostExecutionRunOnly(w) ==
  /\ wpc[w] = "post" /\ flush[w] # "pending"
  /\ ClosesOrReturns(w, wcmd[w] \in closeOnFinish)
  /\ UNCHANGED <<disk, daemon, wcmd, wout, flush, admit, cancel, bounds>>

\* post_execution_check, after the log writer ended: finish a draining close,
\* or close the session of a run that asked for it.
PostExecutionCheck(w) ==
  /\ wpc[w] = "post" /\ flush[w] # "pending"
  /\ \E closes \in BOOLEAN :
       ReadsClose(wcmd[w], closes) /\ ClosesOrReturns(w, closes)
  /\ UNCHANGED <<disk, daemon, wcmd, wout, flush, admit, cancel, crashes>>

\* Back in the worker's loop, once close() returned: drop the token.
Unregister(w) ==
  /\ \/ wpc[w] = "unregister"
     \/ wpc[w] = "closing" /\ cpc[w] = "idle"
  /\ token' = [token EXCEPT ![wcmd[w]] = "none"]
  /\ wpc' = [wpc EXCEPT ![w] = "idle"]
  /\ wcmd' = [wcmd EXCEPT ![w] = NoCmd]
  /\ wout' = [wout EXCEPT ![w] = "none"]
  /\ flush' = [flush EXCEPT ![w] = "none"]
  /\ UNCHANGED <<disk, phase, recovered, inMemory, handlers, bounds>>

-----------------------------------------------------------------------------
(* POST /v1/commands/{id}/cancel: cancel_command of the session lifecycle,   *)
(* around CommandCanceller::cancel                                           *)

Goto(c, pc) == cancel' = [cancel EXCEPT ![c] = pc]

\* Mutant of CancelEnded: the session of a cancelled run stays open.
CancelEndedOnly(c) == Goto(c, "idle") /\ UNCHANGED <<cpc, csession>>

\* The command is terminal: one that closes its session has no worker left to
\* do so, hence the handler calls close() itself.
CancelEnded(c) ==
  /\ Goto(c, "idle")
  /\ IF c \in closeOnFinish
     THEN /\ cpc' = [cpc EXCEPT ![c] = "read"]
          /\ csession' = [csession EXCEPT ![c] = SessionOf[c]]
     ELSE UNCHANGED <<cpc, csession>>

CancelStops(c) == Goto(c, "idle") /\ UNCHANGED <<cpc, csession>>

\* Reads the row; nothing follows for a missing one.
CancelRead(c) ==
  /\ phase \in {"cleanup", "up"} /\ cancel[c] = "idle"
  /\ c \in Runs => cpc[c] = "idle"
  /\ status[c] # "none"
  /\ IF status[c] \in Terminal THEN CancelEnded(c)
     ELSE /\ Goto(c, IF status[c] = "queued" THEN "queued" ELSE "mark")
          /\ UNCHANGED <<cpc, csession>>
  /\ UNCHANGED <<disk, daemon, worker, admit, bounds>>

\* cancel_if_queued and, when it changed the row, finalize_unowned_command,
\* whose failure ends the request.
CancelIfQueued(c) ==
  /\ cancel[c] = "queued"
  /\ \/ /\ status[c] = "queued"
        /\ status' = [status EXCEPT ![c] = "cancelled"]
        /\ \/ /\ Works
              /\ log' = [log EXCEPT ![c] = AppendTerminal(log, c, "cancelled")]
              /\ CancelEnded(c)
           \/ Fails /\ UNCHANGED log /\ CancelStops(c)
     \/ /\ status[c] # "queued" /\ Works
        /\ Goto(c, "mark")
        /\ UNCHANGED <<status, log, cpc, csession>>
  /\ UNCHANGED <<session, attempt, order, marker, sidecar, recipe, workdir,
                 live, closeOnFinish, daemon, worker, admit, crashes>>

\* request_cancel: INSERT OR IGNORE.
RequestCancel(c) ==
  /\ cancel[c] = "mark"
  /\ marker' = marker \cup {c}
  /\ Goto(c, "fire")
  /\ UNCHANGED <<session, status, attempt, order, sidecar, log, recipe,
                 workdir, live, closeOnFinish, daemon, worker, admit, cpc,
                 csession, bounds>>

\* Mutant of CancelOwned: the marker is stored and the token left alone.
CancelOwnedSilently(c) ==
  /\ cancel[c] = "fire" /\ token[c] # "none"
  /\ Goto(c, "idle")
  /\ UNCHANGED <<disk, daemon, worker, admit, cpc, csession, bounds>>

\* cancel_or on a command somebody owns: its token fires.
CancelOwned(c) ==
  /\ cancel[c] = "fire" /\ token[c] # "none"
  /\ token' = [token EXCEPT ![c] = "fired"]
  /\ Goto(c, "idle")
  /\ UNCHANGED <<disk, phase, recovered, inMemory, worker, admit, cpc,
                 csession, bounds>>

\* Mutant of CancelUnowned: the sidecar is not consulted.
CancelUnownedBlindly(c) ==
  /\ cancel[c] = "fire" /\ token[c] = "none"
  /\ Goto(c, "idle")
  /\ Works
  /\ IF status[c] = "running"
     THEN /\ status' = [status EXCEPT ![c] = "cancelled"]
          /\ log' = [log EXCEPT ![c] = AppendTerminal(log, c, "cancelled")]
     ELSE UNCHANGED <<status, log>>
  /\ UNCHANGED <<session, attempt, order, marker, sidecar, recipe, workdir,
                 live, closeOnFinish, daemon, worker, admit, cpc, csession,
                 crashes>>

\* cancel_or on a command nobody owns: a `running` row takes the completion
\* its sidecar recorded (a sidecar of another attempt is thrown away), else
\* it is cancelled here.  The registry's lock keeps a claim out.
CancelUnowned(c) ==
  LET running == status[c] = "running"
      recorded == running /\ sidecar[c].attempt = attempt[c]
      st == IF recorded THEN sidecar[c].status
            ELSE IF running THEN "cancelled" ELSE status[c]
  IN
  /\ cancel[c] = "fire" /\ token[c] = "none"
  /\ status' = [status EXCEPT ![c] = st]
  /\ sidecar' = [sidecar EXCEPT ![c] = IF running THEN NoSidecar ELSE @]
  /\ \/ /\ Works /\ CancelEnded(c)
        /\ log' = IF running \/ st = "cancelled"
                  THEN [log EXCEPT ![c] = AppendTerminal(log, c, st)] ELSE log
     \/ /\ Fails /\ UNCHANGED log        \* the pair could not be appended
        /\ IF recorded THEN CancelEnded(c) ELSE CancelStops(c)
  /\ UNCHANGED <<session, attempt, order, marker, recipe, workdir, live,
                 closeOnFinish, daemon, worker, admit, crashes>>

\* A store error or an unreadable sidecar ends the request where it is.
CancelFails(c) ==
  /\ cancel[c] # "idle"
  /\ Fails /\ CancelStops(c)
  /\ UNCHANGED <<disk, daemon, worker, admit, crashes>>

-----------------------------------------------------------------------------
(* ApiSessionLifecycle::close, run by a DELETE handler, by a worker's post-  *)
(* check or by the cleanup recovery                                          *)

PendingCleanup(s) ==
  \E c \in CommandsOf(s) : status[c] = "cancelled" /\ c \in recipe

CGoto(p, pc) == cpc' = [cpc EXCEPT ![p] = pc]
CReturn(p) == /\ cpc' = [cpc EXCEPT ![p] = "idle"]
              /\ csession' = [csession EXCEPT ![p] = NoSession]

\* A DELETE request arrives.
HandleCloseSession(p, s) ==
  /\ phase \in {"cleanup", "up"} /\ cpc[p] = "idle"
  /\ CGoto(p, "read")
  /\ csession' = [csession EXCEPT ![p] = s]
  /\ UNCHANGED <<disk, daemon, worker, admit, cancel, bounds>>

\* Reads the session's status and picks the branch.
CloseRead(p) ==
  /\ cpc[p] = "read"
  /\ CASE session[csession[p]] = "closed" -> CReturn(p)
       [] session[csession[p]] = "closing" ->
            CGoto(p, "busy") /\ UNCHANGED csession
       [] OTHER -> CGoto(p, "mark") /\ UNCHANGED csession
  /\ UNCHANGED <<disk, daemon, worker, admit, cancel, bounds>>

\* Step 1: update_session_status, an unconditional UPDATE.
CloseMark(p) ==
  /\ cpc[p] = "mark"
  /\ session' = [session EXCEPT ![csession[p]] = "closing"]
  /\ CGoto(p, "cancel")
  /\ UNCHANGED <<status, attempt, order, marker, sidecar, log, recipe,
                 workdir, live, closeOnFinish, daemon, worker, admit, cancel,
                 csession, bounds>>

\* Step 2: cancel_queued_for_session, one statement.
CloseCancelQueued(p) ==
  /\ cpc[p] = "cancel"
  /\ status' = [c \in Commands |->
                  IF c \in CommandsOf(csession[p]) /\ status[c] = "queued"
                  THEN "cancelled" ELSE status[c]]
  /\ CGoto(p, "busy")
  /\ UNCHANGED <<session, attempt, order, marker, sidecar, log, recipe,
                 workdir, live, closeOnFinish, daemon, worker, admit, cancel,
                 csession, bounds>>

\* Step 3: a running command or a pending cancelled cleanup keeps the drain.
CloseBusyCheck(p) ==
  /\ cpc[p] = "busy"
  /\ IF Running(csession[p]) \/ PendingCleanup(csession[p])
     THEN CReturn(p)
     ELSE CGoto(p, "delete") /\ UNCHANGED csession
  /\ UNCHANGED <<disk, daemon, worker, admit, cancel, bounds>>

\* finish_close: delete the remote clone.
CloseDelete(p) ==
  /\ cpc[p] = "delete"
  /\ workdir' = workdir \ ({csession[p]} \cap Remote)
  /\ CGoto(p, "force")
  /\ UNCHANGED <<session, status, attempt, order, marker, sidecar, log,
                 recipe, live, closeOnFinish, daemon, worker, admit, cancel,
                 csession, bounds>>

\* close_session_force
CloseForce(p) ==
  /\ cpc[p] = "force"
  /\ session' = [session EXCEPT ![csession[p]] = "closed"]
  /\ CGoto(p, "forget")
  /\ UNCHANGED <<status, attempt, order, marker, sidecar, log, recipe,
                 workdir, live, closeOnFinish, daemon, worker, admit, cancel,
                 csession, bounds>>

\* SessionManager::remove_by_key
CloseForget(p) ==
  /\ cpc[p] = "forget"
  /\ inMemory' = inMemory \ {csession[p]}
  /\ CReturn(p)
  /\ UNCHANGED <<disk, phase, recovered, token, worker, admit, cancel, bounds>>

\* Any of the calls fails and close() returns, with the earlier ones done; a
\* clone that cannot be deleted keeps the session.
CloseFails(p) ==
  /\ cpc[p] # "idle"
  /\ cpc[p] = "delete" => csession[p] \in Remote
  /\ Fails /\ CReturn(p)
  /\ UNCHANGED <<disk, daemon, worker, admit, cancel, crashes>>

-----------------------------------------------------------------------------
(* Crash, and ApiServerRuntime::bootstrap of the next daemon *)

\* The daemon dies, in bootstrap or while serving: what it held is gone; its
\* containers live on.
LoseDaemon ==
  /\ phase' = "down" /\ recovered' = {} /\ inMemory' = {}
  /\ token' = [c \in Commands |-> "none"]
  /\ wpc' = [w \in Workers |-> "idle"]
  /\ wcmd' = [w \in Workers |-> NoCmd]
  /\ wout' = [w \in Workers |-> "none"]
  /\ flush' = [w \in Workers |-> "none"]
  /\ admit' = {} /\ cancel' = [c \in Commands |-> "idle"]
  /\ cpc' = [p \in Closes |-> "idle"]
  /\ csession' = [p \in Closes |-> NoSession]

Crash ==
  /\ phase # "down" /\ crashes < MaxCrashes
  /\ crashes' = crashes + 1
  /\ LoseDaemon
  /\ UNCHANGED <<disk, failures>>

\* Every session that is not closed is restored; a remote one whose clone is
\* gone is closed instead.
BootRestore ==
  /\ phase = "down"
  /\ phase' = "sidecars"
  /\ inMemory' = {s \in workdir : session[s] # "closed"}
  /\ session' = [s \in Sessions |->
                   IF s \in workdir THEN session[s] ELSE "closed"]
  /\ UNCHANGED <<status, attempt, order, marker, sidecar, log, recipe,
                 workdir, live, closeOnFinish, recovered, token, worker,
                 handlers, bounds>>

\* finalize_completed_from_sidecars, one command of its loop: a terminal row
\* has its pair repaired, a `running` row of the same attempt takes the
\* recorded status, a sidecar of another attempt is thrown away.
BootSidecar(c) ==
  /\ phase = "sidecars" /\ sidecar[c] # NoSidecar
  /\ status[c] \in Terminal \cup {"running"}
  /\ LET applies == status[c] = "running" /\ sidecar[c].attempt = attempt[c]
         st == IF applies THEN sidecar[c].status ELSE status[c]
     IN /\ status' = [status EXCEPT ![c] = st]
        /\ \/ /\ Works
              /\ log' = IF st \in Terminal
                        THEN [log EXCEPT ![c] = AppendTerminal(log, c, st)]
                        ELSE log
           \/ Fails /\ UNCHANGED log
  /\ sidecar' = [sidecar EXCEPT ![c] = NoSidecar]
  /\ UNCHANGED <<session, attempt, order, marker, recipe, workdir, live,
                 closeOnFinish, daemon, worker, handlers, crashes>>

BootSidecarsDone ==
  /\ phase = "sidecars"
  /\ \A c \in Commands :
       status[c] \in Terminal \cup {"running"} => sidecar[c] = NoSidecar
  /\ phase' = "cancelled"
  /\ UNCHANGED <<disk, recovered, inMemory, token, worker, handlers, bounds>>

\* Mutant of BootCancelled: a marked row that was running is left to
\* recover_stale_commands.
BootCancelledQueuedOnly ==
  LET hit == {c \in marker : status[c] = "queued"} IN
  /\ phase = "cancelled"
  /\ phase' = "recover"
  /\ status' = [c \in Commands |-> IF c \in hit THEN "cancelled" ELSE status[c]]
  /\ log' = [c \in Commands |->
               IF c \in hit THEN AppendTerminal(log, c, "cancelled") ELSE log[c]]
  /\ UNCHANGED <<session, attempt, order, marker, sidecar, recipe, workdir,
                 live, closeOnFinish, recovered, inMemory, token, worker,
                 handlers, bounds>>

\* finalize_interrupted_cancellations: every unfinished row with a marker (one
\* UPDATE each, all under one lock); then their terminal pairs, where a
\* failure is only logged.
BootCancelled ==
  LET hit == {c \in marker : status[c] \in {"queued", "running"}} IN
  /\ phase = "cancelled"
  /\ phase' = "recover"
  /\ status' = [c \in Commands |-> IF c \in hit THEN "cancelled" ELSE status[c]]
  /\ \E missed \in SUBSET hit :
       /\ IF missed = {} THEN Works ELSE Fails
       /\ log' = [c \in Commands |->
                    IF c \in hit \ missed
                    THEN AppendTerminal(log, c, "cancelled") ELSE log[c]]
  /\ UNCHANGED <<session, attempt, order, marker, sidecar, recipe, workdir,
                 live, closeOnFinish, recovered, inMemory, token, worker,
                 handlers, crashes>>

\* recover_stale_commands(0): every row still `running` is queued again, as
\* its next attempt.  A failure is only logged.
BootRecover ==
  LET stale == {c \in Commands : status[c] = "running"} IN
  /\ phase = "recover"
  /\ phase' = "stop"
  /\ \/ /\ Works
        /\ recovered' = stale
        /\ status' = [c \in Commands |->
                        IF c \in stale THEN "queued" ELSE status[c]]
        /\ attempt' = [c \in Commands |->
                        IF c \in stale THEN attempt[c] + 1 ELSE attempt[c]]
     \/ Fails /\ stale # {} /\ UNCHANGED <<recovered, status, attempt>>
  /\ UNCHANGED <<session, order, marker, sidecar, log, recipe, workdir, live,
                 closeOnFinish, inMemory, token, worker, handlers, crashes>>

\* Mutant of BootStop: only the recovered commands' containers are stopped.
BootStopRecovered ==
  /\ phase = "stop"
  /\ phase' = "drain"
  /\ live' = [c \in Commands |-> IF c \in recovered THEN {} ELSE live[c]]
  /\ recovered' = {}
  /\ UNCHANGED <<session, status, attempt, order, marker, sidecar, log,
                 recipe, workdir, closeOnFinish, inMemory, token, worker,
                 handlers, bounds>>

\* Stop the containers of the cancelled commands and of the recovered ones.
BootStop ==
  /\ phase = "stop"
  /\ phase' = "drain"
  /\ live' = [c \in Commands |->
               IF c \in recovered \/ (c \in marker /\ status[c] = "cancelled")
               THEN {} ELSE live[c]]
  /\ recovered' = {}
  /\ UNCHANGED <<session, status, attempt, order, marker, sidecar, log,
                 recipe, workdir, closeOnFinish, inMemory, token, worker,
                 handlers, bounds>>

\* An unreadable sidecar, a failed cancellation write or a container that
\* cannot be stopped refuses the startup.
BootRefuse ==
  /\ phase \in {"sidecars", "cancelled", "stop"}
  /\ phase = "sidecars" =>
       \E c \in Commands : status[c] = "running" /\ sidecar[c] # NoSidecar
  /\ Fails /\ LoseDaemon
  /\ UNCHANGED <<disk, crashes>>

\* A run that closes its session has ended, and no teardown needs the clone.
RunFinished(c) ==
  c \in closeOnFinish /\ status[c] \in Terminal
    /\ ~ (status[c] = "cancelled" /\ c \in recipe)

\* reconcile_runs, which does not ask for other commands of the session, then
\* finish_drained_closes: a closing session without unfinished commands or
\* pending cleanup.  Both close the session and delete its clone.
BootDrain ==
  LET finished == {s \in Sessions : \E c \in CommandsOf(s) : RunFinished(c)}
      drained == {s \in Sessions :
                    /\ session[s] = "closing" /\ ~ PendingCleanup(s)
                    /\ \A c \in CommandsOf(s) :
                         status[c] \notin {"queued", "running"}}
      due == {s \in finished \cup drained : session[s] # "closed"}
  IN /\ phase = "drain"
     /\ phase' = "cleanup"
     /\ log' = [c \in Commands |->
                  IF /\ c \in closeOnFinish /\ status[c] \in Terminal
                     /\ session[SessionOf[c]] # "closed"
                  THEN AppendTerminal(log, c, status[c]) ELSE log[c]]
     /\ \E closed \in SUBSET due :
          /\ IF closed = due THEN Works
             ELSE Fails /\ due \ closed \subseteq Remote     \* delete failed
          /\ session' = [s \in Sessions |->
                           IF s \in closed THEN "closed" ELSE session[s]]
          /\ workdir' = workdir \ (closed \cap Remote)
          /\ inMemory' = inMemory \ closed
     /\ UNCHANGED <<status, attempt, order, marker, sidecar, recipe, live,
                    closeOnFinish, recovered, token, worker, handlers,
                    crashes>>

-----------------------------------------------------------------------------
(* spawn_workers: cancelled cleanup first, then the pool.  Requests are      *)
(* served meanwhile.                                                         *)

NeedsCleanup == {c \in marker \cap recipe : status[c] = "cancelled"}

\* recover_cancelled_cleanup, one command: run the saved teardown, retire the
\* recipe, then post_execution_check.
RecoverCleanup(c) ==
  LET s == SessionOf[c] IN
  /\ phase = "cleanup" /\ cpc[Recovery] = "idle"
  /\ c \in NeedsCleanup /\ s \in inMemory
  /\ recipe' = recipe \ {c}
  /\ \E closes \in BOOLEAN :
       /\ ReadsClose(c, closes)
       /\ IF closes
          THEN /\ CGoto(Recovery, "read")
               /\ csession' = [csession EXCEPT ![Recovery] = s]
          ELSE UNCHANGED <<cpc, csession>>
  /\ UNCHANGED <<session, status, attempt, order, marker, sidecar, log,
                 workdir, live, closeOnFinish, daemon, worker, admit, cancel,
                 crashes>>

\* With nothing left to clean the workers start; a session that is not in
\* memory is an error, after which they never do.
StartWorkers ==
  /\ phase = "cleanup" /\ cpc[Recovery] = "idle" /\ NeedsCleanup = {}
  /\ phase' = "up"
  /\ UNCHANGED <<disk, recovered, inMemory, token, worker, handlers, bounds>>

-----------------------------------------------------------------------------
WorkerStep(w) ==
  \/ ClaimNextCommand(w) \/ ExecuteBegin(w) \/ RecordCancelCleanup(w)
  \/ DispatchEnd(w) \/ PushAfterSuccess(w) \/ FinalCancelCheck(w)
  \/ WriteSidecar(w) \/ PersistRow(w) \/ RemoveSidecar(w) \/ FlushLog(w)
  \/ PostExecutionCheck(w) \/ Unregister(w)

CancelStep(c) ==
  \/ CancelIfQueued(c) \/ RequestCancel(c) \/ CancelOwned(c)
  \/ CancelUnowned(c) \/ CancelFails(c)

CloseStep(p) ==
  \/ CloseRead(p) \/ CloseMark(p) \/ CloseCancelQueued(p)
  \/ CloseBusyCheck(p) \/ CloseDelete(p) \/ CloseForce(p) \/ CloseForget(p)
  \/ CloseFails(p)

BootStep ==
  \/ BootRestore \/ (\E c \in Commands : BootSidecar(c)) \/ BootSidecarsDone
  \/ BootCancelled \/ BootRecover \/ BootStop \/ BootDrain
  \/ (\E c \in Commands : RecoverCleanup(c)) \/ StartWorkers

Next ==
  \/ \E c \in Commands : \/ AdmitCheck(c) \/ EnqueueCommand(c)
                          \/ CancelRead(c) \/ CancelStep(c)
  \/ \E w \in Workers : WorkerStep(w)
  \/ \E p \in Closers, s \in Sessions : HandleCloseSession(p, s)
  \/ \E p \in Closes : CloseStep(p)
  \/ Crash \/ BootStep \/ BootRefuse

Spec == Init /\ [][Next]_vars

-----------------------------------------------------------------------------
(* Fairness: tokio polls every task that can go on, an operator restarts a   *)
(* daemon that died, and a dispatch whose token fired returns.  Nothing is   *)
(* assumed about requests, crashes or I/O failures.                          *)

\* What a worker does by itself, the agent's run left out.
WorkerOwn(w) ==
  \/ ClaimNextCommand(w) \/ ExecuteBegin(w) \/ PushAfterSuccess(w)
  \/ FinalCancelCheck(w) \/ WriteSidecar(w) \/ PersistRow(w)
  \/ RemoveSidecar(w) \/ PostExecutionCheck(w) \/ Unregister(w)

StoppedDispatchEnd(w) ==
  /\ wpc[w] = "dispatched" /\ token[wcmd[w]] = "fired"
  /\ DispatchEnd(w)

Fairness ==
  /\ \A c \in Commands : /\ WF_vars(EnqueueCommand(c))
                          /\ WF_vars(CancelStep(c))
  /\ \A w \in Workers : /\ WF_vars(WorkerOwn(w)) /\ WF_vars(FlushLog(w))
                        /\ WF_vars(StoppedDispatchEnd(w))
  /\ \A p \in Closes : WF_vars(CloseStep(p))
  /\ WF_vars(BootStep)

FairSpec == Spec /\ Fairness

\* What some promises need in addition: an agent left alone finishes.
AgentsFinish == \A w \in Workers : WF_vars(DispatchEnd(w))

-----------------------------------------------------------------------------
(* Properties *)

Phases == {"up", "down", "sidecars", "cancelled", "recover", "stop", "drain",
           "cleanup"}
WorkerPcs == {"idle", "claimed", "dispatched", "push", "check", "sidecar",
              "row", "remove", "post", "closing", "unregister"}

\* Every variable has its type.
DiskType ==
  /\ session \in [Sessions -> {"active", "closing", "closed"}]
  /\ status \in [Commands -> Statuses]
  /\ attempt \in [Commands -> Attempts]
  /\ order \in Seq(Commands)
  /\ marker \subseteq Commands
  /\ sidecar \in [Commands -> Completion \cup {NoSidecar}]
  /\ log \in [Commands -> Seq(Completion)]
  /\ recipe \subseteq Workflows
  /\ workdir \subseteq Sessions
  /\ live \in [Commands -> SUBSET Attempts]
  /\ closeOnFinish \subseteq Runs

WorkerType ==
  /\ wpc \in [Workers -> WorkerPcs]
  /\ wcmd \in [Workers -> Commands \cup {NoCmd}]
  /\ wout \in [Workers -> Terminal \cup {"none"}]
  /\ flush \in [Workers -> {"none", "open", "pending"}]

HandlerType ==
  /\ admit \subseteq Commands
  /\ cancel \in [Commands -> {"idle", "queued", "mark", "fire"}]
  /\ cpc \in [Closes -> {"idle", "read", "mark", "cancel", "busy", "delete",
                        "force", "forget"}]
  /\ csession \in [Closes -> Sessions \cup {NoSession}]

DaemonType ==
  /\ phase \in Phases /\ recovered \subseteq Commands
  /\ inMemory \subseteq Sessions
  /\ token \in [Commands -> {"none", "live", "fired"}]
  /\ crashes \in 0 .. MaxCrashes /\ failures \in 0 .. MaxFailures

TypeOK == DiskType /\ WorkerType /\ HandlerType /\ DaemonType

\* A busy worker has a command, and an outcome once its dispatch returned.
WorkerOK ==
  \A w \in Workers :
    /\ wpc[w] # "idle" => wcmd[w] \in Commands
    /\ wpc[w] \notin {"idle", "claimed", "dispatched"} => wout[w] \in Terminal
    /\ flush[w] = "pending" => wpc[w] \in {"remove", "post"}

\* A running close() has a session.
CloseOK == \A p \in Closes : cpc[p] # "idle" => csession[p] \in Sessions

\* No worker runs before the pool starts, no request before the server does.
PhaseOK ==
  /\ phase # "up" => \A w \in Workers : wpc[w] = "idle"
  /\ phase \notin {"cleanup", "up"} =>
       admit = {} /\ \A c \in Commands : cancel[c] = "idle"

\* A command that is past its queue never gets back there with a marker.
CancelOK ==
  /\ \A c \in admit : status[c] = "none"
  /\ \A w \in Workers : wcmd[w] \in Commands => status[wcmd[w]] # "none"
  /\ \A c \in Commands :
       /\ cancel[c] # "idle" => status[c] # "none"
       /\ cancel[c] \in {"mark", "fire"} => status[c] # "queued"
  /\ \A c \in marker : status[c] \notin {"none", "queued"}
  /\ phase = "recover" => \A c \in marker : status[c] # "running"

\* Two commands of a session never run at the same time, whichever workers
\* claim them and however often the queue is recovered (claim_next_command).
OneRunning ==
  \A c, d \in Commands :
    status[c] = "running" /\ status[d] = "running"
      /\ SessionOf[c] = SessionOf[d] => c = d

\* A cancel request that reached the store is final: no restart puts the
\* command back in the queue, where it would be run again (bootstrap's
\* finalize_interrupted_cancellations before recover_stale_commands).
CancelNeverRequeued == \A c \in marker : status[c] # "queued"

\* The event log and the row are two views of one outcome: an attempt has at
\* most one terminal pair, and the pair of the last attempt says what the
\* terminal row says (publish, append_terminal, finalize_unowned_command).
LogAgreesWithRow ==
  \A c \in Commands : \A i, j \in 1 .. Len(log[c]) :
    /\ log[c][i].attempt = log[c][j].attempt => i = j
    /\ log[c][i].attempt = attempt[c] /\ status[c] \in Terminal
         => log[c][i].status = status[c]

\* As long as no I/O failed, the container of a command's current attempt
\* belongs to the worker dispatching it: a command that was cancelled, ended
\* or put back in the queue across restarts left no container behind under
\* the attempt its row shows (DispatchEnd, bootstrap's requeue and stops).
CurrentContainerOwned ==
  phase \in {"cleanup", "up"} /\ failures = 0 =>
    \A c \in Commands : attempt[c] \in live[c] =>
      \E w \in Workers : wcmd[w] = c /\ wpc[w] = "dispatched"

\* While requests are served, a container belongs to the attempt a worker is
\* running now: bootstrap is to "stop a requeued command's old containers
\* before it runs again" (bootstrap's stop_command_containers).
NoOldContainer ==
  phase \in {"cleanup", "up"} =>
    \A c \in Commands : \A a \in live[c] :
      a = attempt[c] /\ \E w \in Workers : wcmd[w] = c /\ wpc[w] = "dispatched"

\* The outcome that is on disk for the current attempt.
Outcome(c) == IF status[c] \in Terminal THEN status[c]
              ELSE IF status[c] = "running" /\ sidecar[c].attempt = attempt[c]
                   THEN sidecar[c].status ELSE "none"

Lifecycle == INSTANCE CommandLifecycle
               WITH outcome <- [c \in Commands |-> Outcome(c)]

\* Rows, sidecars, handlers, workers and recovery together keep the promise
\* of CommandLifecycle: one outcome per command, never changed, and no second
\* attempt once an outcome is on disk.
ImplementsLifecycle == Lifecycle!Spec

\* A cancel accepted by the store ends the command, across restarts, even if
\* its agent would never finish by itself (the token is registered with the
\* claim and looked up again in execute_command).
CancelEnds == \A c \in Commands : c \in marker ~> status[c] \in Terminal

\* A command requeued after a crash and cancelled in the queue has left the
\* recipe of its first attempt, which nothing retires: pending_cleanup_command
\* keeps the session from being closed because of it.
LeftRecipe(s) == \E c \in recipe : SessionOf[c] = s /\ status[c] \in Terminal

\* A closing session that nobody closes: a client cancelled the plain command
\* it still had in the queue, where cancel_queued_for_session did not get to it
\* (the daemon died first) or a crash put it back; finish_drained_closes had
\* found the session not drained, and the handler of a cancel closes sessions
\* of runs only.  The next DELETE or restart closes it.
Stranded(s) ==
  /\ session[s] = "closing" /\ phase \in {"cleanup", "up"}
  /\ \A p \in Closes : csession[p] # s
  /\ \E c \in Commands \ closeOnFinish :
       /\ SessionOf[c] = s /\ status[c] = "cancelled"
       /\ c \notin marker /\ HasPair(c)

\* A session that is closing becomes closed, also across a crash: the drain's
\* last worker, a cancel handler, the cleanup recovery or the next bootstrap
\* finishes the close (post_execution_check, finish_drained_closes), whether
\* or not the command was a run's that closes its session anyway, except in
\* the two cases above.
ClosingCloses ==
  AgentsFinish => \A s \in Sessions :
    session[s] = "closing" ~>
      (session[s] = "closed" \/ Stranded(s) \/ []LeftRecipe(s))

\* A run that asked for it has its session closed once its command ended:
\* by the worker, the cancel handler, the cleanup recovery or the next
\* bootstrap, whichever of them is left to do so (post_execution_check,
\* cancel_command, reconcile_runs), unless a recipe is left for good.
RunCloses ==
  AgentsFinish => \A c \in Runs :
    c \in closeOnFinish /\ status[c] \in Terminal ~>
      (session[SessionOf[c]] = "closed" \/ []LeftRecipe(SessionOf[c]))

\* Every accepted command ends: also one requeued by a crash whose session a
\* DELETE has closed under it meanwhile, or that is not in memory any more
\* (workers, recovery and closes together).
AcceptedEnds ==
  AgentsFinish =>
    \A c \in Commands : status[c] = "queued" ~> status[c] \in Terminal

\* A closed session holds no command that still waits to run: "Step 1: mark
\* closing before cancelling queued work, closing the command-admission gate
\* before a racing POST can enqueue another job" (close).
ClosedSessionQuiet ==
  \A c \in Commands : session[SessionOf[c]] = "closed" => status[c] # "queued"

=============================================================================
