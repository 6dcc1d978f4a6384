------------------------------ MODULE RunSetup ------------------------------
(***************************************************************************)
(* A session, or the session and the command of a one-shot run (POST       *)
(* /v1/runs), from admission to close: its setup (SessionSetup) beside a   *)
(* cancel of the command, a DELETE of the session, the worker that claims  *)
(* the command, and crashes of the daemon with their recovery.             *)
(*                                                                         *)
(* The command is one without teardown: what a cancelled workflow leaves   *)
(* to clean up, and the log of a command, are CommandQueue's.              *)
(***************************************************************************)
EXTENDS SessionSetup, Naturals

CONSTANT Plans   \* [run, close, stages, fault, cancels, deletes, crashes]

Stages == {"clone", "branch", "merge"}

ASSUME PlanAssumption ==
  \A p \in Plans : /\ p.run \in BOOLEAN /\ p.close \in BOOLEAN /\ p.fault \in BOOLEAN
                   /\ p.stages \in Seq(Stages)
                   /\ p.stages # <<>> => p.stages[1] = "clone"
                   /\ {p.cancels, p.deletes, p.crashes} \subseteq Nat

VARIABLES
  row,         \* status of the run's command, "none" without one
  started,     \* its started_at is set
  asked,       \* its cancel marker is stored
  registered,  \* the setup's token is in `setup_cancels`
  closer,      \* where each caller of ApiSessionLifecycle::close is
  request,     \* the cancel request being handled
  worker,      \* what the worker does with the command
  boot,        \* the step of bootstrap, "up" when the daemon serves
  used         \* [cancels, deletes, crashes] there have been

command == <<row, started, asked>>
requests == <<closer, request, used>>
runVars == <<command, registered, requests, worker, boot>>
vars == <<setupVars, runVars>>

Callers == {"setup", "cancel", "delete", "worker"}
CallPoints == {"idle", "read", "mark", "queued", "busy", "delete", "force", "forget"}
Ended == {"done", "error", "cancelled"}

Init ==
  /\ plan \in Plans
  /\ status = "active" /\ setup = "running" /\ file = "none"
  /\ clone = FALSE /\ memory = FALSE
  /\ task = "admitted" /\ todo = plan.stages /\ outcome = "running"
  /\ fired = FALSE /\ failed = "none"
  /\ row = (IF plan.run THEN "queued" ELSE "none")
  /\ started = FALSE /\ asked = FALSE /\ registered = FALSE
  /\ closer = [c \in Callers |-> "idle"]
  /\ request = "idle" /\ worker = "idle" /\ boot = "up"
  /\ used = [cancels |-> 0, deletes |-> 0, crashes |-> 0]

Serving == boot = "up"

\* fail_if_queued
FailIfQueued == row' = IF row = "queued" THEN "error" ELSE row

-----------------------------------------------------------------------------
(* The setup task around SessionSetup::run *)

\* No await lies between the admission of the row and the spawn.
Register ==
  /\ Serving /\ task = "admitted"
  /\ registered' = TRUE
  /\ task' = IF plan.run THEN "reconcile" ELSE "start"
  /\ UNCHANGED <<plan, disk, memory, todo, outcome, fired, failed,
                 command, requests, worker, boot>>

\* A cancel can be older than the token; a row that cannot be read counts.
ReconcileSetupCancel ==
  /\ task = "reconcile" /\ task' = "start"
  /\ \/ fired' = (fired \/ row = "cancelled") /\ UNCHANGED failed
     \/ Fails("reconcile") /\ fired' = TRUE
  /\ UNCHANGED <<plan, disk, memory, todo, outcome, runVars>>

RunStep(step) == step /\ UNCHANGED runVars

Unregister ==
  /\ task = "over"
  /\ registered' = FALSE
  /\ task' = IF plan.run THEN "result" ELSE "done"
  /\ UNCHANGED <<plan, disk, memory, todo, outcome, fired, failed,
                 command, requests, worker, boot>>

\* The file wins over the row.
SetupReadiness == IF file # "none" THEN file ELSE setup

FinishRunSetup ==
  /\ task = "result"
  /\ \/ /\ SetupReadiness = "ready"
        /\ task' = "look" /\ UNCHANGED <<row, failed>>
     \/ /\ SetupReadiness # "ready"
        /\ \/ FailIfQueued /\ task' = "look" /\ UNCHANGED failed
           \/ Fails("row") /\ task' = "done" /\ UNCHANGED row
  /\ UNCHANGED <<plan, disk, memory, todo, outcome, fired, started, asked,
                 registered, requests, worker, boot>>

CancelledDuringSetup == row = "cancelled" /\ ~started

\* As CloseAfterSetup, for runs that asked for it only
CloseAfterSetupIfAsked ==
  /\ task = "look" /\ task' = "done"
  /\ closer' = IF plan.close /\ row \in Ended
               THEN [closer EXCEPT !["setup"] = "read"] ELSE closer
  /\ UNCHANGED <<plan, disk, memory, todo, outcome, fired, failed,
                 command, registered, request, used, worker, boot>>

CloseAfterSetup ==
  /\ task = "look" /\ task' = "done"
  /\ closer' = IF CancelledDuringSetup \/ (plan.close /\ row \in Ended)
               THEN [closer EXCEPT !["setup"] = "read"] ELSE closer
  /\ UNCHANGED <<plan, disk, memory, todo, outcome, fired, failed,
                 command, registered, request, used, worker, boot>>

-----------------------------------------------------------------------------
(* ApiSessionLifecycle::close, for each of its callers *)

At(c, here, next) == closer[c] = here /\ closer' = [closer EXCEPT ![c] = next]

DeleteRequest ==
  /\ Serving /\ used.deletes < plan.deletes
  /\ At("delete", "idle", "read")
  /\ used' = [used EXCEPT !.deletes = @ + 1]
  /\ UNCHANGED <<setupVars, command, registered, request, worker, boot>>

CloseRead(c) ==
  /\ At(c, "read", CASE status = "closed" -> "idle"
                     [] status = "closing" ->
                          IF row = "running" THEN "idle" ELSE "delete"
                     [] OTHER -> "mark")
  /\ UNCHANGED <<setupVars, command, registered, request, used, worker, boot>>

\* Whatever the status is by now
CloseMark(c) ==
  /\ At(c, "mark", "queued") /\ status' = "closing"
  /\ UNCHANGED <<plan, setup, file, clone, memory, local, fired, failed,
                 command, registered, request, used, worker, boot>>

CloseCancelQueued(c) ==
  /\ At(c, "queued", "busy")
  /\ row' = IF row = "queued" THEN "cancelled" ELSE row
  /\ UNCHANGED <<setupVars, started, asked, registered, request, used, worker, boot>>

CloseBusy(c) ==
  /\ At(c, "busy", IF row = "running" THEN "idle" ELSE "delete")
  /\ UNCHANGED <<setupVars, command, registered, request, used, worker, boot>>

\* As CloseDelete, for the clones of finished setups only
CloseDeleteFinished(c) ==
  /\ At(c, "delete", "force") /\ clone' = (clone /\ ~(Remote /\ setup = "ready"))
  /\ UNCHANGED <<plan, status, setup, file, memory, local, fired, failed,
                 command, registered, request, used, worker, boot>>

CloseDelete(c) ==
  /\ At(c, "delete", "force") /\ clone' = (clone /\ ~Remote)
  /\ UNCHANGED <<plan, status, setup, file, memory, local, fired, failed,
                 command, registered, request, used, worker, boot>>

CloseForce(c) ==
  /\ At(c, "force", "forget") /\ status' = "closed"
  /\ UNCHANGED <<plan, setup, file, clone, memory, local, fired, failed,
                 command, registered, request, used, worker, boot>>

CloseForget(c) ==
  /\ At(c, "forget", "idle") /\ memory' = FALSE
  /\ UNCHANGED <<plan, disk, local, fired, failed,
                 command, registered, request, used, worker, boot>>

\* A store call or the removal of the clone fails, or the client of a DELETE
\* goes away: the close stops where it is.
CloseFails(c) ==
  /\ closer[c] \notin {"idle", "forget"}
  /\ closer' = [closer EXCEPT ![c] = "idle"] /\ Fails("close")
  /\ UNCHANGED <<plan, disk, memory, local, fired,
                 command, registered, request, used, worker, boot>>

CloseStep(c) ==
  \/ CloseRead(c) \/ CloseMark(c) \/ CloseCancelQueued(c) \/ CloseBusy(c)
  \/ CloseDelete(c) \/ CloseForce(c) \/ CloseForget(c) \/ CloseFails(c)

-----------------------------------------------------------------------------
(* cancel_command *)

CancelRead ==
  /\ Serving /\ plan.run /\ used.cancels < plan.cancels
  /\ request = "idle" /\ closer["cancel"] = "idle"
  /\ request' = CASE row = "queued" -> "cancel" [] row = "running" -> "ask"
                  [] OTHER -> "close"
  /\ used' = [used EXCEPT !.cancels = @ + 1]
  /\ UNCHANGED <<setupVars, command, registered, closer, worker, boot>>

CancelIfQueued ==
  /\ request = "cancel"
  /\ \/ row = "queued" /\ row' = "cancelled" /\ request' = "fire"
     \/ row # "queued" /\ request' = "ask" /\ UNCHANGED row
  /\ UNCHANGED <<setupVars, started, asked, registered, closer, used, worker, boot>>

FireSetup ==
  /\ request = "fire" /\ request' = "close"
  /\ fired' = (fired \/ registered)
  /\ UNCHANGED <<plan, disk, memory, local, failed,
                 command, registered, closer, used, worker, boot>>

\* A running command is told to stop. The end of one that is over by now is
\* what the answer tells, and what closes the session.
AskToStop ==
  /\ request = "ask" /\ asked' = TRUE
  /\ \/ request' = "idle"
     \/ row # "running" /\ request' = "close"
  /\ UNCHANGED <<setupVars, row, started, registered, closer, used, worker, boot>>

\* As CloseAfterCancel, without a close
CloseLeftToSetup ==
  /\ request = "close" /\ request' = "idle"
  /\ UNCHANGED <<setupVars, command, registered, closer, used, worker, boot>>

\* While the setup's token is registered the setup closes the session.
CloseAfterCancel ==
  /\ request = "close" /\ request' = "idle"
  /\ closer' = IF ~registered /\ plan.close
               THEN [closer EXCEPT !["cancel"] = "read"] ELSE closer
  /\ UNCHANGED <<setupVars, command, registered, used, worker, boot>>

CancelStep == CancelIfQueued \/ FireSetup \/ AskToStop \/ CloseAfterCancel

-----------------------------------------------------------------------------
(* The worker *)

ClaimNextCommand ==
  /\ Serving /\ worker = "idle" /\ closer["worker"] = "idle"
  /\ row = "queued" /\ setup = "ready"
  /\ row' = "running" /\ started' = TRUE /\ worker' = "claimed"
  /\ UNCHANGED <<setupVars, asked, registered, requests, boot>>

\* A command of a session that is not in memory fails at once.
LookUpSession ==
  /\ worker = "claimed"
  /\ \/ memory /\ worker' = "busy" /\ UNCHANGED row
     \/ ~memory /\ worker' = "post" /\ row' = "error"
  /\ UNCHANGED <<setupVars, started, asked, registered, requests, boot>>

CommandEnds ==
  /\ worker = "busy" /\ worker' = "post"
  /\ row' \in {"done", "error"} \cup (IF asked THEN {"cancelled"} ELSE {})
  /\ UNCHANGED <<setupVars, started, asked, registered, requests, boot>>

PostExecutionCheck ==
  /\ worker = "post" /\ worker' = "idle"
  /\ closer' = IF status = "closing" \/ plan.close
               THEN [closer EXCEPT !["worker"] = "read"] ELSE closer
  /\ UNCHANGED <<setupVars, command, registered, request, used, boot>>

-----------------------------------------------------------------------------
(* A crash, and ApiServerRuntime::bootstrap *)

Crash ==
  /\ used.crashes < plan.crashes /\ task # "admitted"
  /\ used' = [used EXCEPT !.crashes = @ + 1]
  /\ memory' = FALSE /\ fired' = FALSE /\ registered' = FALSE
  /\ task' = "done" /\ todo' = <<>> /\ outcome' = "running"
  /\ closer' = [c \in Callers |-> "idle"]
  /\ request' = "idle" /\ worker' = "idle" /\ boot' = "restore"
  /\ UNCHANGED <<plan, disk, failed, command>>

Boot(here, next) ==
  /\ boot = here /\ boot' = next
  /\ UNCHANGED <<plan, local, fired, registered, requests, worker>>

\* An open session comes back, unless its clone is gone.
BootRestore ==
  /\ Boot("restore", IF setup = "running" THEN "mark" ELSE "recover")
  /\ \/ /\ status # "closed" /\ (Remote => clone)
        /\ memory' = TRUE /\ UNCHANGED status
     \/ /\ status # "closed" /\ Remote /\ ~clone
        /\ status' = "closed" /\ UNCHANGED memory
     \/ /\ status = "closed" /\ UNCHANGED <<status, memory>>
  /\ UNCHANGED <<setup, file, clone, failed, command>>

\* The setup of a session that was being set up has failed: its row,
BootMarkFailed ==
  /\ Boot("mark", "file")
  /\ \/ setup' = "failed" /\ UNCHANGED failed
     \/ Fails("boot") /\ UNCHANGED setup
  /\ UNCHANGED <<status, file, clone, memory, command>>

BootSaveSetupState ==
  /\ Boot("file", IF plan.run THEN "fail" ELSE "clean")
  /\ \/ file' = "failed" /\ UNCHANGED failed
     \/ Fails("boot") /\ UNCHANGED file
  /\ UNCHANGED <<status, setup, clone, memory, command>>

\* its command,
BootFailCommand ==
  /\ Boot("fail", IF plan.close THEN "close" ELSE "clean")
  /\ \/ FailIfQueued /\ UNCHANGED failed
     \/ Fails("row") /\ UNCHANGED row
  /\ UNCHANGED <<disk, memory, started, asked>>

\* its session,
BootCloseSession ==
  /\ Boot("close", "clean") /\ memory' = FALSE
  /\ \/ status' = "closed" /\ UNCHANGED failed
     \/ Fails("boot") /\ UNCHANGED status
  /\ UNCHANGED <<setup, file, clone, command>>

\* and its clone.
BootDeleteClone ==
  /\ Boot("clean", "recover")
  /\ \/ clone' = (clone /\ ~Remote) /\ UNCHANGED failed
     \/ Fails("clean") /\ UNCHANGED clone
  /\ UNCHANGED <<status, setup, file, memory, command>>

\* finalize_interrupted_cancellations, then recover_stale_commands
BootRecoverCommand ==
  /\ Boot("recover", IF plan.run /\ status # "closed" THEN "reconcile" ELSE "drain")
  /\ row' = CASE row \in {"queued", "running"} /\ asked -> "cancelled"
              [] row = "running" -> "queued"
              [] OTHER -> row
  /\ started' = (started /\ row' # "queued")
  /\ UNCHANGED <<disk, memory, asked, failed>>

\* As BootReconcileRun, for commands that are over only
BootReconcileEnded ==
  /\ Boot("reconcile", IF plan.close /\ row \in Ended THEN "delete_run" ELSE "drain")
  /\ UNCHANGED <<disk, memory, command, failed>>

\* reconcile_runs, which looks at open sessions only
BootReconcileRun ==
  /\ \/ /\ setup = "failed"
        /\ \/ FailIfQueued /\ UNCHANGED failed
           \/ Fails("row") /\ UNCHANGED row
     \/ setup # "failed" /\ UNCHANGED <<row, failed>>
  /\ Boot("reconcile", IF plan.close /\ row' \in Ended THEN "delete_run" ELSE "drain")
  /\ UNCHANGED <<disk, memory, started, asked>>

\* finish_drained_closes
BootDrain ==
  /\ Boot("drain", IF status = "closing" /\ row \notin {"queued", "running"}
                   THEN "delete_drained" ELSE "up")
  /\ UNCHANGED <<disk, memory, command, failed>>

\* close_finished_session, for both; a clone that stays keeps its session.
BootCloseDelete(here, force, next) ==
  /\ \/ Boot(here, force) /\ clone' = (clone /\ ~Remote) /\ UNCHANGED failed
     \/ Boot(here, next) /\ Remote /\ Fails("close") /\ UNCHANGED clone
  /\ UNCHANGED <<status, setup, file, memory, command>>

BootCloseForce(here, next) ==
  /\ Boot(here, next)
  /\ \/ status' = "closed" /\ memory' = FALSE /\ UNCHANGED failed
     \/ Fails("close") /\ UNCHANGED <<status, memory>>
  /\ UNCHANGED <<setup, file, clone, command>>

BootStep ==
  \/ BootRestore \/ BootMarkFailed \/ BootSaveSetupState \/ BootFailCommand
  \/ BootCloseSession \/ BootDeleteClone \/ BootRecoverCommand \/ BootReconcileRun
  \/ BootDrain
  \/ BootCloseDelete("delete_run", "force_run", "drain")
  \/ BootCloseForce("force_run", "drain")
  \/ BootCloseDelete("delete_drained", "force_drained", "up")
  \/ BootCloseForce("force_drained", "up")

-----------------------------------------------------------------------------
SetupTask ==
  \/ Register \/ ReconcileSetupCancel \/ RunStep(SetupStep)
  \/ Unregister \/ FinishRunSetup \/ CloseAfterSetup

Next ==
  \/ SetupTask \/ RunStep(CloneAnswers)
  \/ DeleteRequest \/ \E c \in Callers : CloseStep(c)
  \/ CancelRead \/ CancelStep
  \/ ClaimNextCommand \/ LookUpSession \/ CommandEnds \/ PostExecutionCheck
  \/ Crash \/ BootStep

Spec == Init /\ [][Next]_vars

\* Tasks, handlers, the worker and bootstrap run on. Nothing makes an origin
\* answer, an agent finish that nobody asked to stop, a client send a request,
\* or the daemon crash.
FairSpec ==
  /\ Spec
  /\ WF_vars(SetupTask)
  /\ \A c \in Callers : WF_vars(CloseStep(c))
  /\ WF_vars(CancelStep)
  /\ WF_vars(ClaimNextCommand) /\ WF_vars(LookUpSession) /\ WF_vars(PostExecutionCheck)
  /\ WF_vars(CommandEnds /\ asked)
  /\ WF_vars(BootStep)

OriginAnswers == WF_vars(RunStep(CloneAnswers))
AgentsFinish == WF_vars(CommandEnds)

-----------------------------------------------------------------------------
(* Properties *)

\* Types, and where the setup task and the local state of its stages agree
TypeOK ==
  /\ plan \in Plans
  /\ status \in {"active", "closing", "closed"}
  /\ setup \in {"running", "ready", "failed"} /\ file \in {"none", "ready", "failed"}
  /\ clone \in BOOLEAN /\ memory \in BOOLEAN /\ fired \in BOOLEAN
  /\ started \in BOOLEAN /\ asked \in BOOLEAN /\ registered \in BOOLEAN
  /\ task \in {"admitted", "reconcile", "start", "stage", "cloning", "open", "ready",
              "drop", "record", "save", "over", "result", "look", "done"}
  /\ todo \in Seq(Stages) /\ (task = "stage" => todo # <<>>)
  /\ outcome \in {"running", "ready", "failed"}
  /\ (task \in {"save", "over"} => outcome # "running")
  /\ failed \in {"none", "drop", "persist", "save", "reconcile", "row", "close",
                "boot", "clean"}
  /\ row \in {"none", "queued", "running"} \cup Ended
  /\ closer \in [Callers -> CallPoints]
  /\ request \in {"idle", "cancel", "fire", "ask", "close"}
  /\ worker \in {"idle", "claimed", "busy", "post"}
  /\ boot \in {"up", "restore", "mark", "file", "fail", "close", "clean", "recover",
              "reconcile", "drain", "delete_run", "force_run", "delete_drained",
              "force_drained"}
  /\ used \in [{"cancels", "deletes", "crashes"} -> Nat]

\* The daemon died after DeleteClone and PersistStatus and before the command's
\* end: restore closes the session, whose clone is gone, and neither the
\* interrupted setups nor the open runs include it any more.
Orphaned == status = "closed" /\ setup = "failed" /\ row = "queued" /\ boot = "up"

\* Only the write of a ready setup failed; the next restart looks at it again.
ReadyLost == failed = "persist" /\ setup = "running" /\ file = "ready"

\* The command of a run does not wait in the queue for ever, whether its setup
\* fails, is cancelled or dies with the daemon (docs/09-api-and-remote-mode.md, "Setup
\* failure"). FinishRunSetup, the interrupted setups of bootstrap and
\* reconcile_runs share that work; Orphaned and ReadyLost slip between them.
RunEnds ==
  OriginAnswers /\ AgentsFinish =>
    (row = "queued" ~> row \in Ended \/ Orphaned \/ ReadyLost \/ failed = "row")

\* A cancelled setup comes to its end even if the origin never answers.
CancelEndsSetup == fired ~> task = "done"

\* The session of a close_on_finish run is closed once its command is over,
\* however the cancel, the end of the setup, the worker and a restart meet: each
\* of them may be the one that leaves the close to another. A failing store call
\* leaves it to the next restart or DELETE.
CloseOnFinish ==
  plan.close /\ row \in Ended ~> status = "closed" \/ failed \in {"close", "row"}

Gone == status = "closed" /\ ~clone /\ ~memory

\* A DELETE does not fire the setup's token: the setup goes on in a session that
\* is closed, or whose clone is just deleted, and what it makes then stays.
ClosedUnderSetup ==
  /\ registered
  /\ status = "closed" \/ \E c \in Callers : closer[c] \in {"force", "forget"}

\* A run cancelled during its setup leaves no session and no clone, whatever its
\* close_on_finish says ("Cancelling during setup"). A restart knows only
\* close_on_finish, so that it is promised to daemons that live.
CancelledSetupCloses ==
  fired /\ registered /\ row = "cancelled"
    ~> Gone \/ ClosedUnderSetup \/ failed # "none" \/ used.crashes > 0

\* A second crash, after bootstrap closed the session of an interrupted setup
\* and before it deleted the clone: nothing looks at closed sessions again.
ClosedFirst == boot = "restore" /\ status = "closed" /\ setup = "failed" /\ clone

\* A session that is closed for good leaves neither its clone nor its entry in
\* memory behind, whoever closes it and in whatever order the steps of several
\* closes come.
ClosedLeavesNothing ==
  <>[](status = "closed") =>
    <>[]Gone \/ <>ClosedUnderSetup \/ <>ClosedFirst \/ <>(failed # "none")
=============================================================================
