--------------------------- MODULE RunSetupProofs ---------------------------
(***************************************************************************)
(* Proofs about RunSetup, for all plans: any list of stages, any number of *)
(* cancels, DELETEs and crashes, and one failing call anywhere.            *)
(***************************************************************************)
EXTENDS RunSetup, TLAPS

-----------------------------------------------------------------------------
(* The inductive invariant *)

\* TypeOK in two parts: the truth values, and the rest
Flags ==
  /\ clone \in BOOLEAN /\ memory \in BOOLEAN /\ fired \in BOOLEAN
  /\ started \in BOOLEAN /\ asked \in BOOLEAN /\ registered \in BOOLEAN

Sorts ==
  /\ plan \in Plans
  /\ status \in {"active", "closing", "closed"}
  /\ setup \in {"running", "ready", "failed"} /\ file \in {"none", "ready", "failed"}
  /\ task \in {"admitted", "reconcile", "start", "stage", "cloning", "open", "ready",
              "drop", "record", "save", "over", "result", "look", "done"}
  /\ todo \in Seq(Stages) /\ (task = "stage" => todo # <<>>)
  /\ outcome \in {"running", "ready", "failed"}
  /\ failed \in {"none", "drop", "persist", "save", "reconcile", "row", "close",
                "boot", "clean"}
  /\ row \in {"none", "queued", "running"} \cup Ended
  /\ closer \in [Callers -> CallPoints]
  /\ request \in {"idle", "cancel", "fire", "ask", "close"}
  /\ worker \in {"idle", "claimed", "busy", "post"}
  /\ boot \in {"up", "restore", "mark", "file", "fail", "close", "clean", "recover",
              "reconcile", "drain", "delete_run", "force_run", "delete_drained",
              "force_drained"}
  /\ used \in [{"cancels", "deletes", "crashes"} -> Nat]

\* Where the setup task is, what it has found; who owns a running row; and a
\* restart finds nobody at work.
Placed ==
  /\ task = "cloning" => todo # <<>>
  /\ task \in {"drop", "record", "save", "over", "result", "look"} => outcome # "running"
  /\ worker \in {"claimed", "busy"} => row = "running"
  /\ boot # "up" => task = "done" /\ worker = "idle"

\* The end of a setup is recorded twice, in its row and then in setup_state.json,
\* and read from either: a worker claims by the row, finish_run_setup goes by the
\* file. The file never has the setup failed where the row has it ready, and has
\* it ready where the row has not only if the row could not be written.
RecordsAgree ==
  /\ file = "failed" => setup # "ready"
  /\ file = "ready" => setup = "ready" \/ failed = "persist"

\* What the records are while they are being written
Recorded ==
  /\ RecordsAgree
  /\ task \notin {"save", "over", "result", "look", "done"} => setup = "running" /\ file = "none"
  /\ task = "save" => \/ file = "none" /\ setup = outcome
                      \/ file = "none" /\ setup = "running" /\ failed = "persist"
  /\ boot = "mark" => setup = "running"
  /\ boot = "file" => setup # "ready"

Rest == Sorts /\ Placed /\ Recorded

IInv == Flags /\ Rest

LEMMA IInvTypeOK == IInv => TypeOK
  BY DEF IInv, Flags, Rest, Sorts, Placed, TypeOK

\* What the end of a command decides is final.
OutcomeStays == [][(row \in Ended) => row' = row]_vars

-----------------------------------------------------------------------------
(* The initial states and the setup task *)

LEMMA InitSafe == Init => Rest
  BY PlanAssumption
  DEF Init, Rest, Sorts, Placed, Recorded, RecordsAgree, Ended, Callers, CallPoints, Stages

\* The rest of a list of stages that is not empty is a list of stages.
LEMMA StagesLeft ==
  ASSUME NEW s \in Seq(Stages), s # <<>>
  PROVE  Tail(s) \in Seq(Stages)
  OBVIOUS

\* The end of one stage, with these stages left
LEMMA AdvanceSafe ==
  ASSUME NEW left \in Seq(Stages), Rest, task \in {"start", "stage", "cloning"},
         Advance(left), UNCHANGED <<plan, disk, memory, fired, failed>>, UNCHANGED runVars
  PROVE  Rest'
<1> USE DEF Rest, Sorts, Placed, Recorded, RecordsAgree, runVars, command, requests, disk
<1>1. CASE fired
  BY <1>1 DEF Advance, MarkFailed
<1>2. CASE ~fired
  BY <1>2 DEF Advance
<1> QED
  BY <1>1, <1>2

\* Every step of SessionSetup::run
LEMMA SetupStepSafe == Rest /\ RunStep(SetupStep) => Rest'
<1> SUFFICES ASSUME Rest, SetupStep, UNCHANGED runVars PROVE Rest'
  BY DEF RunStep
<1> USE DEF Rest, Sorts, Placed, Recorded, RecordsAgree, runVars, command, requests,
            disk, local, setupVars, MarkFailed
<1>1. CASE Begin
  BY <1>1, AdvanceSafe DEF Begin
<1>2. CASE CloneStarts
  BY <1>2 DEF CloneStarts
<1>3. CASE CloneKilled
  BY <1>3, AdvanceSafe DEF CloneKilled
<1>4. CASE StageEnds
  <2>1. Tail(todo) \in Seq(Stages)
    BY <1>4, StagesLeft DEF StageEnds
  <2>2. CASE Advance(Tail(todo))
    BY <1>4, <2>1, <2>2, AdvanceSafe DEF StageEnds
  <2>3. CASE MarkFailed("drop") /\ UNCHANGED todo
    BY <1>4, <2>3 DEF StageEnds
  <2> QED
    BY <1>4, <2>2, <2>3 DEF StageEnds
<1>5. CASE OpenSession
  BY <1>5 DEF OpenSession
<1>6. CASE ReadyCannotStart
  BY <1>6 DEF ReadyCannotStart
<1>7. CASE ReadyEnds
  BY <1>7 DEF ReadyEnds
<1>8. CASE DeleteClone
  BY <1>8 DEF DeleteClone, Fails
<1>9. CASE PersistStatus
  BY <1>9 DEF PersistStatus, Fails
<1>10. CASE SaveSetupState
  BY <1>10 DEF SaveSetupState, Fails
<1> QED
  BY <1>1, <1>2, <1>3, <1>4, <1>5, <1>6, <1>7, <1>8, <1>9, <1>10 DEF SetupStep

LEMMA SetupTaskSafe == Rest /\ (SetupTask \/ RunStep(CloneAnswers)) => Rest'
<1> SUFFICES ASSUME Rest, SetupTask \/ RunStep(CloneAnswers) PROVE Rest'
  OBVIOUS
<1> USE DEF Rest, Sorts, Placed, Recorded, RecordsAgree, runVars, command, requests,
            disk, local, setupVars
<1>1. CASE Register
  BY <1>1 DEF Register, Serving
<1>2. CASE ReconcileSetupCancel
  BY <1>2 DEF ReconcileSetupCancel, Fails
<1>3. CASE RunStep(SetupStep)
  BY <1>3, SetupStepSafe
<1>4. CASE Unregister
  BY <1>4 DEF Unregister
<1>5. CASE FinishRunSetup
  BY <1>5 DEF FinishRunSetup, FailIfQueued, Fails, Ended
<1>6. CASE CloseAfterSetup
  BY <1>6 DEF CloseAfterSetup, Callers, CallPoints
<1>7. CASE RunStep(CloneAnswers)
  <2>1. Tail(todo) \in Seq(Stages)
    BY <1>7, StagesLeft DEF RunStep, CloneAnswers
  <2>2. CASE Advance(Tail(todo))
    BY <1>7, <2>1, <2>2, AdvanceSafe DEF RunStep, CloneAnswers
  <2>3. CASE MarkFailed("drop") /\ UNCHANGED todo
    BY <1>7, <2>3 DEF RunStep, CloneAnswers, MarkFailed
  <2> QED
    BY <1>7, <2>2, <2>3 DEF RunStep, CloneAnswers
<1> QED
  BY <1>1, <1>2, <1>3, <1>4, <1>5, <1>6, <1>7 DEF SetupTask

-----------------------------------------------------------------------------
(* Closes, cancels and the worker *)

LEMMA CloseSafe == \A c \in Callers : Rest /\ CloseStep(c) => Rest'
<1> SUFFICES ASSUME NEW c \in Callers, Rest, CloseStep(c) PROVE Rest'
  OBVIOUS
<1> USE DEF Rest, Sorts, Placed, Recorded, RecordsAgree, command, requests,
            disk, local, setupVars, At, CallPoints
<1>1. CASE CloseRead(c)
  BY <1>1 DEF CloseRead
<1>2. CASE CloseMark(c)
  BY <1>2 DEF CloseMark
<1>3. CASE CloseCancelQueued(c)
  BY <1>3 DEF CloseCancelQueued, Ended
<1>4. CASE CloseBusy(c)
  BY <1>4 DEF CloseBusy
<1>5. CASE CloseDelete(c)
  BY <1>5 DEF CloseDelete
<1>6. CASE CloseForce(c)
  BY <1>6 DEF CloseForce
<1>7. CASE CloseForget(c)
  BY <1>7 DEF CloseForget
<1>8. CASE CloseFails(c)
  BY <1>8 DEF CloseFails, Fails
<1> QED
  BY <1>1, <1>2, <1>3, <1>4, <1>5, <1>6, <1>7, <1>8 DEF CloseStep

LEMMA RequestSafe == Rest /\ (DeleteRequest \/ CancelRead \/ CancelStep) => Rest'
<1> SUFFICES ASSUME Rest, DeleteRequest \/ CancelRead \/ CancelStep PROVE Rest'
  OBVIOUS
<1> USE DEF Rest, Sorts, Placed, Recorded, RecordsAgree, command, requests,
            disk, local, setupVars, CallPoints, Callers
<1>1. CASE DeleteRequest
  BY <1>1 DEF DeleteRequest, At, Serving
<1>2. CASE CancelRead
  BY <1>2 DEF CancelRead, Serving
<1>3. CASE CancelIfQueued
  BY <1>3 DEF CancelIfQueued, Ended
<1>4. CASE FireSetup
  BY <1>4 DEF FireSetup
<1>5. CASE AskToStop
  BY <1>5 DEF AskToStop
<1>6. CASE CloseAfterCancel
  BY <1>6 DEF CloseAfterCancel
<1> QED
  BY <1>1, <1>2, <1>3, <1>4, <1>5, <1>6 DEF CancelStep

LEMMA WorkerSafe ==
  Rest /\ (ClaimNextCommand \/ LookUpSession \/ CommandEnds \/ PostExecutionCheck) => Rest'
<1> SUFFICES ASSUME Rest,
                    ClaimNextCommand \/ LookUpSession \/ CommandEnds \/ PostExecutionCheck
             PROVE  Rest'
  OBVIOUS
<1> USE DEF Rest, Sorts, Placed, Recorded, RecordsAgree, command, requests,
            disk, local, setupVars
<1>1. CASE ClaimNextCommand
  BY <1>1 DEF ClaimNextCommand, Serving
<1>2. CASE LookUpSession
  BY <1>2 DEF LookUpSession, Ended
<1>3. CASE CommandEnds
  BY <1>3 DEF CommandEnds, Ended
<1>4. CASE PostExecutionCheck
  BY <1>4 DEF PostExecutionCheck, Callers, CallPoints
<1> QED
  BY <1>1, <1>2, <1>3, <1>4

-----------------------------------------------------------------------------
(* A crash and bootstrap *)

LEMMA CrashSafe == Rest /\ Crash => Rest'
  BY DEF Rest, Sorts, Placed, Recorded, RecordsAgree, Crash, command, disk,
         Callers, CallPoints, Stages

LEMMA BootSafe == Rest /\ BootStep => Rest'
<1> SUFFICES ASSUME Rest, BootStep PROVE Rest'
  OBVIOUS
<1> USE DEF Rest, Sorts, Placed, Recorded, RecordsAgree, command, requests,
            disk, local, Boot, Fails
<1>1. CASE BootRestore
  BY <1>1 DEF BootRestore
<1>2. CASE BootMarkFailed
  BY <1>2 DEF BootMarkFailed
<1>3. CASE BootSaveSetupState
  BY <1>3 DEF BootSaveSetupState
<1>4. CASE BootFailCommand
  BY <1>4 DEF BootFailCommand, FailIfQueued, Ended
<1>5. CASE BootCloseSession
  BY <1>5 DEF BootCloseSession
<1>6. CASE BootDeleteClone
  BY <1>6 DEF BootDeleteClone
<1>7. CASE BootRecoverCommand
  BY <1>7 DEF BootRecoverCommand, Ended
<1>8. CASE BootReconcileRun
  BY <1>8 DEF BootReconcileRun, FailIfQueued, Ended
<1>9. CASE BootDrain
  BY <1>9 DEF BootDrain
<1>10. CASE BootCloseDelete("delete_run", "force_run", "drain")
  BY <1>10 DEF BootCloseDelete
<1>11. CASE BootCloseForce("force_run", "drain")
  BY <1>11 DEF BootCloseForce
<1>12. CASE BootCloseDelete("delete_drained", "force_drained", "up")
  BY <1>12 DEF BootCloseDelete
<1>13. CASE BootCloseForce("force_drained", "up")
  BY <1>13 DEF BootCloseForce
<1> QED
  BY <1>1, <1>2, <1>3, <1>4, <1>5, <1>6, <1>7, <1>8, <1>9, <1>10, <1>11, <1>12, <1>13
  DEF BootStep

LEMMA RestSafe == Rest /\ [Next]_vars => Rest'
<1>1. Rest /\ UNCHANGED vars => Rest'
  BY DEF Rest, Sorts, Placed, Recorded, RecordsAgree, vars, setupVars, runVars,
         disk, local, command, requests
<1> QED
  BY <1>1, SetupTaskSafe, CloseSafe, RequestSafe, WorkerSafe, CrashSafe, BootSafe DEF Next

-----------------------------------------------------------------------------
(* The truth values *)

LEMMA InitFlags == Init => Flags
  BY Zenon DEF Init, Flags

LEMMA FlagsSafe == Flags /\ [Next]_vars => Flags'
<1> SUFFICES ASSUME Flags, [Next]_vars PROVE Flags'
  OBVIOUS
<1> USE DEF Flags, disk, local, setupVars, runVars, command, requests
<1>1. CASE SetupTask
  <2>1. CASE Register
    BY <2>1, Zenon DEF Register
  <2>2. CASE ReconcileSetupCancel
    BY <2>2, Zenon DEF ReconcileSetupCancel
  <2>3. CASE RunStep(SetupStep)
    <3>1. UNCHANGED runVars /\ SetupStep
      BY <2>3, Zenon DEF RunStep
    <3>2. CASE Begin \/ CloneKilled \/ StageEnds \/ ReadyCannotStart \/ ReadyEnds
      BY <3>1, <3>2, Zenon DEF Begin, CloneKilled, StageEnds, ReadyCannotStart, ReadyEnds
    <3>3. CASE CloneStarts \/ OpenSession
      BY <3>1, <3>3, Zenon DEF CloneStarts, OpenSession
    <3>4. CASE DeleteClone \/ PersistStatus \/ SaveSetupState
      BY <3>1, <3>4, Zenon DEF DeleteClone, PersistStatus, SaveSetupState
    <3> QED
      BY <3>1, <3>2, <3>3, <3>4, Zenon DEF SetupStep
  <2>4. CASE Unregister
    BY <2>4, Zenon DEF Unregister
  <2>5. CASE FinishRunSetup \/ CloseAfterSetup
    BY <2>5, Zenon DEF FinishRunSetup, CloseAfterSetup
  <2> QED
    BY <1>1, <2>1, <2>2, <2>3, <2>4, <2>5, Zenon DEF SetupTask
<1>2. CASE RunStep(CloneAnswers)
  BY <1>2, Zenon DEF RunStep, CloneAnswers
<1>3. CASE DeleteRequest \/ CancelRead
  BY <1>3, Zenon DEF DeleteRequest, CancelRead
<1>4. ASSUME NEW c \in Callers, CloseStep(c) PROVE Flags'
  <2>1. CASE CloseRead(c) \/ CloseMark(c) \/ CloseCancelQueued(c) \/ CloseBusy(c)
    BY <2>1, Zenon DEF CloseRead, CloseMark, CloseCancelQueued, CloseBusy
  <2>2. CASE CloseDelete(c) \/ CloseForce(c) \/ CloseForget(c) \/ CloseFails(c)
    BY <2>2, Zenon DEF CloseDelete, CloseForce, CloseForget, CloseFails
  <2> QED
    BY <1>4, <2>1, <2>2, Zenon DEF CloseStep
<1>5. CASE CancelStep
  BY <1>5, Zenon DEF CancelStep, CancelIfQueued, FireSetup, AskToStop, CloseAfterCancel
<1>6. CASE ClaimNextCommand \/ LookUpSession \/ CommandEnds \/ PostExecutionCheck
  BY <1>6, Zenon DEF ClaimNextCommand, LookUpSession, CommandEnds, PostExecutionCheck
<1>7. CASE Crash
  BY <1>7, Zenon DEF Crash
<1>8. CASE BootStep
  <2> USE DEF Boot
  <2>1. CASE BootRestore \/ BootMarkFailed \/ BootSaveSetupState
    BY <2>1, Zenon DEF BootRestore, BootMarkFailed, BootSaveSetupState
  <2>2. CASE BootFailCommand \/ BootCloseSession \/ BootDeleteClone
    BY <2>2, Zenon DEF BootFailCommand, BootCloseSession, BootDeleteClone
  <2>3. CASE BootRecoverCommand \/ BootReconcileRun \/ BootDrain
    BY <2>3, Zenon DEF BootRecoverCommand, BootReconcileRun, BootDrain
  <2>4. ASSUME NEW a, NEW b, NEW d, BootCloseDelete(a, b, d) PROVE Flags'
    BY <2>4, Zenon DEF BootCloseDelete
  <2>5. ASSUME NEW a, NEW b, BootCloseForce(a, b) PROVE Flags'
    BY <2>5, Zenon DEF BootCloseForce
  <2> QED
    BY <1>8, <2>1, <2>2, <2>3, <2>4, <2>5, Zenon DEF BootStep
<1>9. CASE UNCHANGED vars
  BY <1>9, Zenon DEF vars
<1> QED
  BY <1>1, <1>2, <1>3, <1>4, <1>5, <1>6, <1>7, <1>8, <1>9, Zenon DEF Next

-----------------------------------------------------------------------------
(* The theorems *)

\* What every reachable state of a session's setup satisfies, whatever crashes,
\* cancels, DELETEs and the one failing call do.
THEOREM InductiveInvariant == Spec => []IInv
<1>1. Init => IInv
  BY InitSafe, InitFlags DEF IInv
<1>2. IInv /\ [Next]_vars => IInv'
  BY RestSafe, FlagsSafe DEF IInv
<1> QED
  BY <1>1, <1>2, PTL DEF Spec

\* Every variable keeps its type; in particular a setup that is being recorded
\* has an outcome, and a stage that is run is there (SessionSetup::run).
THEOREM TypeCorrect == Spec => []TypeOK
  BY InductiveInvariant, IInvTypeOK, PTL

\* setup_status and setup_state.json do not contradict each other, whichever of
\* the two writes fails or is cut off by a crash (persist_status,
\* save_setup_state, the interrupted setups of bootstrap).
THEOREM SetupRecordsAgree == Spec => []RecordsAgree
  BY InductiveInvariant, PTL DEF IInv, Rest, Recorded

\* Once the command of a run has ended, neither its setup, a cancel, a close, its
\* worker nor a restart changes its status (fail_if_queued, cancel_if_queued,
\* cancel_queued_for_session, recover_stale_commands).
THEOREM CommandEndsOnce == Spec => OutcomeStays
<1>1. ASSUME IInv, [Next]_vars, row \in Ended PROVE row' = row
  <2> USE <1>1 DEF IInv, Rest, Placed, Ended, command, requests, disk, local
  <2>1. CASE SetupTask
    BY <2>1 DEF SetupTask, Register, ReconcileSetupCancel, RunStep, Unregister,
                FinishRunSetup, FailIfQueued, CloseAfterSetup, runVars
  <2>2. CASE RunStep(CloneAnswers) \/ DeleteRequest \/ CancelRead
    BY <2>2 DEF RunStep, runVars, DeleteRequest, CancelRead
  <2>3. CASE \E c \in Callers : CloseStep(c)
    BY <2>3 DEF CloseStep, CloseRead, CloseMark, CloseCancelQueued, CloseBusy, CloseDelete,
                CloseForce, CloseForget, CloseFails
  <2>4. CASE CancelStep
    BY <2>4 DEF CancelStep, CancelIfQueued, FireSetup, AskToStop, CloseAfterCancel
  <2>5. CASE ClaimNextCommand \/ LookUpSession \/ CommandEnds \/ PostExecutionCheck
    BY <2>5 DEF ClaimNextCommand, LookUpSession, CommandEnds, PostExecutionCheck
  <2>6. CASE Crash
    BY <2>6 DEF Crash
  <2>7. CASE BootStep
    BY <2>7 DEF BootStep, BootRestore, BootMarkFailed, BootSaveSetupState, BootFailCommand,
                BootCloseSession, BootDeleteClone, BootRecoverCommand, BootReconcileRun,
                BootDrain, BootCloseDelete, BootCloseForce, FailIfQueued
  <2>8. CASE UNCHANGED vars
    BY <2>8 DEF vars, runVars
  <2> QED
    BY <2>1, <2>2, <2>3, <2>4, <2>5, <2>6, <2>7, <2>8 DEF Next
<1> QED
  BY <1>1, InductiveInvariant, PTL DEF Spec, OutcomeStays
=============================================================================
