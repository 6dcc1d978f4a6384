------------------------- MODULE CommandQueueProofs -------------------------
(***************************************************************************)
(* The invariants of CommandQueue and its refinement of CommandLifecycle,   *)
(* for every set of commands, sessions, workers and handlers and every      *)
(* number of crashes and failures.                                          *)
(*                                                                          *)
(* IInv is the inductive invariant of the first half: types, one running    *)
(* command, the shape of workers and handlers.  Its parts are preserved one *)
(* by one: the lemma PartStep has one step per action of Next.              *)
(*                                                                          *)
(* OutcomeInv, of the second half, adds who may write a command's row, and  *)
(* what the sidecar, the log and the containers of its current attempt say  *)
(* while the daemon runs, is down, or recovers: the row, the sidecar, the   *)
(* event log and the containers agree on one outcome.  Each part has its    *)
(* own lemma.                                                               *)
(***************************************************************************)
EXTENDS CommandQueue, TLAPS

\* The inductive invariant: types, the shape of workers and handlers in each
\* phase of the daemon, and the two safety properties.
IInv == TypeOK /\ WorkerOK /\ CloseOK /\ PhaseOK /\ CancelOK /\ OneRunning

-----------------------------------------------------------------------------
(* Completions, sidecars and terminal events *)

\* An attempt and its outcome make a completion (StoredCompletion::sidecar).
LEMMA CompletionType ==
  ASSUME NEW a \in Attempts, NEW st \in Terminal
  PROVE  [attempt |-> a, status |-> st] \in Completion
BY DEF Completion

\* Adding the pair of an attempt to an event log gives an event log.
LEMMA PairType ==
  ASSUME NEW l \in Seq(Completion), NEW a \in Attempts, NEW st \in Terminal
  PROVE  Append(l, [attempt |-> a, status |-> st]) \in Seq(Completion)
<1> DEFINE x == [attempt |-> a, status |-> st]
<1>1. x \in Completion
  BY CompletionType
<1> HIDE DEF x
<1>2. Append(l, x) \in Seq(Completion)
  BY <1>1
<1> QED
  BY <1>2 DEF x

\* append_terminal keeps the type of the log, whether or not it adds a pair.
LEMMA AppendTerminalType ==
  ASSUME DiskType, NEW c \in Commands, NEW st \in Terminal
  PROVE  AppendTerminal(log, c, st) \in Seq(Completion)
<1>1. log[c] \in Seq(Completion) /\ attempt[c] \in Attempts
  BY DEF DiskType
<1>2. Append(log[c], [attempt |-> attempt[c], status |-> st]) \in Seq(Completion)
  BY <1>1, PairType
<1> QED
  BY <1>1, <1>2 DEF AppendTerminal

\* A sidecar that names the current attempt holds an outcome: attempts start
\* at 1, so the absent sidecar names none.
LEMMA SidecarOutcome ==
  ASSUME DiskType, NEW c \in Commands, sidecar[c].attempt = attempt[c]
  PROVE  sidecar[c].status \in Terminal
<1>1. sidecar[c] \in Completion \cup {NoSidecar} /\ attempt[c] \in Nat \ {0}
  BY DEF DiskType, Attempts
<1>2. sidecar[c] # NoSidecar
  BY <1>1 DEF NoSidecar
<1> QED
  BY <1>1, <1>2 DEF Completion

\* Writing one value of a table keeps the table's type.
LEMMA WriteKeepsType ==
  ASSUME NEW S, NEW T, NEW f \in [S -> T], NEW x, NEW v \in T
  PROVE  [f EXCEPT ![x] = v] \in [S -> T]
OBVIOUS

\* Ending a command that exists cannot put a marked command in the queue.
LEMMA EndKeepsCancelOK ==
  ASSUME TypeOK, CancelOK, NEW c \in Commands, status[c] # "none",
         NEW st \in Terminal, status' = [status EXCEPT ![c] = st],
         cancel' = cancel \/ cancel' = [cancel EXCEPT ![c] = "idle"],
         UNCHANGED <<marker, admit, wcmd, phase>>
  PROVE  CancelOK'
BY DEF TypeOK, DiskType, HandlerType, CancelOK, Terminal

\* Reading whether to close a session works or is a counted failure.
LEMMA ReadCounted ==
  ASSUME NEW c, NEW closes, ReadsClose(c, closes)
  PROVE  Works \/ Fails
BY Zenon DEF ReadsClose

-----------------------------------------------------------------------------
(* Every step preserves every part of IInv *)

\* What the steps write to the database, the files and the containers keeps
\* their types; a sidecar or a terminal event takes a worker's outcome, which
\* WorkerOK says it has.
LEMMA DiskTypeStep ==
  ASSUME IInv, [Next]_vars
  PROVE  DiskType'
<1> USE QueueAssumption DEF IInv, TypeOK, DiskType, Terminal, Statuses,
        disk, worker, daemon, handlers, bounds
<1>1. CASE UNCHANGED disk
  BY <1>1
<1>2. ASSUME NEW c \in Commands,
             AdmitCheck(c) \/ CancelRead(c) \/ CancelOwned(c) \/
             CancelFails(c)
      PROVE  UNCHANGED disk
  BY <1>2 DEF AdmitCheck, CancelRead, CancelOwned, CancelFails
<1>3. ASSUME NEW w \in Workers,
             PushAfterSuccess(w) \/ PostExecutionCheck(w) \/ Unregister(w)
      PROVE  UNCHANGED disk
  BY <1>3 DEF PushAfterSuccess, PostExecutionCheck, Unregister
<1>4. ASSUME NEW p \in Closes,
             CloseRead(p) \/ CloseBusyCheck(p) \/ CloseForget(p) \/
             CloseFails(p)
      PROVE  UNCHANGED disk
  BY <1>4 DEF CloseRead, CloseBusyCheck, CloseForget, CloseFails
<1>5. ASSUME Crash \/ BootSidecarsDone \/ BootRefuse \/ StartWorkers
      PROVE  UNCHANGED disk
  BY <1>5 DEF Crash, BootSidecarsDone, BootRefuse, StartWorkers
<1>6. ASSUME NEW c \in Commands, EnqueueCommand(c)
      PROVE  DiskType'
  <2>1. Append(order, c) \in Seq(Commands)
    OBVIOUS
  <2>2. order' \in Seq(Commands)
    BY <1>6, <2>1 DEF EnqueueCommand
  <2> QED
    BY <1>6, <2>2 DEF EnqueueCommand
<1>7. ASSUME NEW w \in Workers, ClaimNextCommand(w)
      PROVE  DiskType'
  BY <1>7 DEF ClaimNextCommand, IsNext, Claimable
<1>8. ASSUME NEW w \in Workers, ExecuteBegin(w)
      PROVE  DiskType'
  <2>1. wcmd[w] \in Commands
    BY <1>8 DEF ExecuteBegin, WorkerOK
  <2>2. live' = live \/ live' = [live EXCEPT ![wcmd[w]] =
                                    @ \cup {attempt[wcmd[w]]}]
    BY <1>8 DEF ExecuteBegin, FailEarly, StartDispatch
  <2>3. live[wcmd[w]] \cup {attempt[wcmd[w]]} \in SUBSET Attempts
    BY <2>1
  <2>4. live' \in [Commands -> SUBSET Attempts]
    <3>1. live \in [Commands -> SUBSET Attempts]
      OBVIOUS
    <3> QED
      BY ONLY <2>2, <2>3, <3>1, WriteKeepsType
  <2> QED
    BY <1>8, <2>4 DEF ExecuteBegin
<1>9. ASSUME NEW w \in Workers, RecordCancelCleanup(w)
      PROVE  DiskType'
  BY <1>9 DEF RecordCancelCleanup
<1>10. ASSUME NEW w \in Workers, DispatchEnd(w)
      PROVE  DiskType'
  BY <1>10 DEF DispatchEnd
<1>11. ASSUME NEW w \in Workers, FinalCancelCheck(w)
      PROVE  DiskType'
  BY <1>11 DEF FinalCancelCheck, Works, Fails
<1>12. ASSUME NEW w \in Workers, WriteSidecar(w)
      PROVE  DiskType'
  <2>1. wcmd[w] \in Commands /\ wout[w] \in Terminal
    BY <1>12 DEF WriteSidecar, WorkerOK
  <2>2. attempt[wcmd[w]] \in Attempts
    BY <2>1
  <2>3. [attempt |-> attempt[wcmd[w]], status |-> wout[w]] \in Completion
    BY <2>1, <2>2, CompletionType
  <2>4. \/ sidecar' = sidecar
        \/ sidecar' = [sidecar EXCEPT ![wcmd[w]] =
                         [attempt |-> attempt[wcmd[w]], status |-> wout[w]]]
    BY <1>12 DEF WriteSidecar
  <2>5. sidecar' \in [Commands -> Completion \cup {NoSidecar}]
    <3>1. sidecar \in [Commands -> Completion \cup {NoSidecar}]
      OBVIOUS
    <3> QED
      BY ONLY <2>3, <2>4, <3>1, WriteKeepsType
  <2> QED
    BY <1>12, <2>5 DEF WriteSidecar
<1>13. ASSUME NEW w \in Workers, PersistRow(w)
      PROVE  DiskType'
  <2>1. wout[w] \in Terminal
    BY <1>13 DEF PersistRow, WorkerOK
  <2>2. status' \in [Commands -> Statuses]
    BY <1>13, <2>1 DEF PersistRow
  <2> QED
    BY <1>13, <2>2 DEF PersistRow
<1>14. ASSUME NEW w \in Workers, RemoveSidecar(w)
      PROVE  DiskType'
  BY <1>14 DEF RemoveSidecar, Works, Fails
<1>15. ASSUME NEW w \in Workers, FlushLog(w)
      PROVE  DiskType'
  <2>1. wcmd[w] \in Commands /\ wout[w] \in Terminal
    BY <1>15 DEF FlushLog, WorkerOK
  <2>2. attempt[wcmd[w]] \in Attempts /\ log[wcmd[w]] \in Seq(Completion)
    BY <2>1
  <2>3. Append(log[wcmd[w]], [attempt |-> attempt[wcmd[w]],
                              status |-> wout[w]]) \in Seq(Completion)
    BY <2>1, <2>2, PairType
  <2>4. log' \in [Commands -> Seq(Completion)]
    BY <1>15, <2>1, <2>3 DEF FlushLog
  <2> QED
    BY <1>15, <2>4 DEF FlushLog
<1>16. ASSUME NEW c \in Commands, CancelIfQueued(c)
      PROVE  DiskType'
  <2>1. AppendTerminal(log, c, "cancelled") \in Seq(Completion)
    BY AppendTerminalType
  <2>2. /\ UNCHANGED status \/ status' = [status EXCEPT ![c] = "cancelled"]
        /\ \/ UNCHANGED log
           \/ log' = [log EXCEPT ![c] = AppendTerminal(log, c, "cancelled")]
    BY <1>16, Zenon DEF CancelIfQueued
  <2>3. UNCHANGED <<session, attempt, order, marker, sidecar, recipe, workdir,
                    live, closeOnFinish>>
    BY <1>16, Zenon DEF CancelIfQueued
  <2>4. status' \in [Commands -> Statuses]
    BY <2>2
  <2>5. log' \in [Commands -> Seq(Completion)]
    <3>1. CASE UNCHANGED log
      BY <3>1
    <3>2. CASE log' = [log EXCEPT ![c] = AppendTerminal(log, c, "cancelled")]
      BY <2>1, <3>2
    <3> QED
      BY <2>2, <3>1, <3>2
  <2> QED
    BY <2>3, <2>4, <2>5
<1>17. ASSUME NEW c \in Commands, RequestCancel(c)
      PROVE  DiskType'
  BY <1>17 DEF RequestCancel, Goto
<1>18. ASSUME NEW c \in Commands, CancelUnowned(c)
      PROVE  DiskType'
  <2>1. \A st \in Terminal : AppendTerminal(log, c, st) \in Seq(Completion)
    BY AppendTerminalType
  <2>2. sidecar[c].attempt = attempt[c] => sidecar[c].status \in Terminal
    BY SidecarOutcome
  <2>3. status' \in [Commands -> Statuses]
    BY <1>18, <2>2 DEF CancelUnowned
  <2>4. sidecar' \in [Commands -> Completion \cup {NoSidecar}]
    BY <1>18 DEF CancelUnowned
  <2>5. log' \in [Commands -> Seq(Completion)]
    <3>1. CASE UNCHANGED log
      BY <3>1
    <3>2. CASE \E st \in Terminal :
                 log' = [log EXCEPT ![c] = AppendTerminal(log, c, st)]
      BY <2>1, <3>2
    <3>3. UNCHANGED log \/ \E st \in Terminal :
                 log' = [log EXCEPT ![c] = AppendTerminal(log, c, st)]
      BY <1>18, <2>2 DEF CancelUnowned
    <3> QED
      BY <3>1, <3>2, <3>3
  <2> QED
    BY <1>18, <2>3, <2>4, <2>5 DEF CancelUnowned
<1>19. ASSUME NEW p \in Closers, NEW s \in Sessions, HandleCloseSession(p, s)
      PROVE  DiskType'
  BY <1>19 DEF HandleCloseSession, CGoto
<1>20. ASSUME NEW p \in Closes, CloseMark(p)
      PROVE  DiskType'
  BY <1>20 DEF CloseMark, CGoto
<1>21. ASSUME NEW p \in Closes, CloseCancelQueued(p)
      PROVE  DiskType'
  BY <1>21 DEF CloseCancelQueued, CGoto
<1>22. ASSUME NEW p \in Closes, CloseDelete(p)
      PROVE  DiskType'
  BY <1>22 DEF CloseDelete, CGoto
<1>23. ASSUME NEW p \in Closes, CloseForce(p)
      PROVE  DiskType'
  BY <1>23 DEF CloseForce, CGoto
<1>24. CASE BootRestore
  BY <1>24 DEF BootRestore
<1>25. ASSUME NEW c \in Commands, BootSidecar(c)
      PROVE  DiskType'
  <2>1. \A st \in Terminal : AppendTerminal(log, c, st) \in Seq(Completion)
    BY AppendTerminalType
  <2>2. sidecar[c].attempt = attempt[c] => sidecar[c].status \in Terminal
    BY SidecarOutcome
  <2>3. status' \in [Commands -> Statuses]
    BY <1>25, <2>2 DEF BootSidecar
  <2>4. sidecar' \in [Commands -> Completion \cup {NoSidecar}]
    BY <1>25 DEF BootSidecar
  <2>5. \/ log' = log
        \/ \E st \in Terminal :
             log' = [log EXCEPT ![c] = AppendTerminal(log, c, st)]
    BY <1>25, <2>2 DEF BootSidecar
  <2>6. log' \in [Commands -> Seq(Completion)]
    <3>1. log \in [Commands -> Seq(Completion)]
      OBVIOUS
    <3>2. ASSUME NEW st \in Terminal, log' = [log EXCEPT ![c] = AppendTerminal(log, c, st)]
          PROVE  log' \in [Commands -> Seq(Completion)]
      <4> DEFINE v == AppendTerminal(log, c, st)
      <4>1. v \in Seq(Completion)
        BY <2>1
      <4>2. log' = [log EXCEPT ![c] = v]
        BY <3>2
      <4> HIDE DEF v
      <4> QED
        BY <3>1, <4>1, <4>2, WriteKeepsType
    <3> QED
      BY <2>5, <3>1, <3>2
  <2> QED
    BY <1>25, <2>3, <2>4, <2>6 DEF BootSidecar
<1>26. CASE BootCancelled
  <2>1. \A c \in Commands : AppendTerminal(log, c, "cancelled") \in Seq(Completion)
    BY AppendTerminalType
  <2> QED
    BY <1>26, <2>1 DEF BootCancelled
<1>27. CASE BootRecover
  <2>1. \A c \in Commands : attempt[c] \in Attempts /\ attempt[c] + 1 \in Attempts
    BY DEF Attempts
  <2>2. attempt' \in [Commands -> Attempts]
    <3>1. \/ attempt' = attempt
          \/ attempt' = [c \in Commands |->
                           IF status[c] = "running" THEN attempt[c] + 1 ELSE attempt[c]]
      BY <1>27 DEF BootRecover
    <3> QED
      BY <2>1, <3>1
  <2>3. status' \in [Commands -> Statuses]
    BY <1>27 DEF BootRecover
  <2> QED
    BY <1>27, <2>2, <2>3 DEF BootRecover
<1>28. CASE BootStop
  BY <1>28 DEF BootStop
<1>29. CASE BootDrain
  <2>1. \A c \in Commands, st \in Terminal :
           AppendTerminal(log, c, st) \in Seq(Completion)
    BY AppendTerminalType
  <2>2. log' \in [Commands -> Seq(Completion)]
    BY <1>29, <2>1 DEF BootDrain
  <2> QED
    BY <1>29, <2>2 DEF BootDrain
<1>30. ASSUME NEW c \in Commands, RecoverCleanup(c)
      PROVE  DiskType'
  BY <1>30 DEF RecoverCleanup, CGoto, NeedsCleanup
<1> QED
  BY <1>1, <1>2, <1>3, <1>4, <1>5, <1>6, <1>7, <1>8, <1>9, <1>10, <1>11,
     <1>12, <1>13, <1>14, <1>15, <1>16, <1>17, <1>18, <1>19, <1>20, <1>21,
     <1>22, <1>23, <1>24, <1>25, <1>26, <1>27, <1>28, <1>29, <1>30
     DEF Next, WorkerStep, CancelStep, CloseStep, BootStep, vars

\* Workers stay in the control points of execute_command.
LEMMA WorkerTypeStep ==
  ASSUME IInv, [Next]_vars
  PROVE  WorkerType'
<1> USE QueueAssumption DEF IInv, TypeOK, WorkerType, WorkerPcs, Terminal,
        disk, worker, daemon, handlers, bounds
<1>1. CASE UNCHANGED worker
  BY <1>1
<1>2. ASSUME NEW c \in Commands,
             AdmitCheck(c) \/ EnqueueCommand(c) \/ CancelRead(c) \/
             CancelIfQueued(c) \/ RequestCancel(c) \/ CancelOwned(c) \/
             CancelUnowned(c) \/ CancelFails(c) \/ BootSidecar(c) \/
             RecoverCleanup(c)
      PROVE  UNCHANGED worker
  BY <1>2 DEF AdmitCheck, EnqueueCommand, CancelRead, CancelIfQueued,
     RequestCancel, CancelOwned, CancelUnowned, CancelFails, BootSidecar,
     RecoverCleanup
<1>3. ASSUME NEW w \in Workers,
             RecordCancelCleanup(w)
      PROVE  UNCHANGED worker
  BY <1>3 DEF RecordCancelCleanup
<1>4. ASSUME NEW p \in Closes,
             CloseRead(p) \/ CloseMark(p) \/ CloseCancelQueued(p) \/
             CloseBusyCheck(p) \/ CloseDelete(p) \/ CloseForce(p) \/
             CloseForget(p) \/ CloseFails(p)
      PROVE  UNCHANGED worker
  BY <1>4 DEF CloseRead, CloseMark, CloseCancelQueued, CloseBusyCheck,
     CloseDelete, CloseForce, CloseForget, CloseFails
<1>5. ASSUME BootRestore \/ BootSidecarsDone \/ BootCancelled \/
             BootRecover \/ BootStop \/ BootDrain \/ StartWorkers
      PROVE  UNCHANGED worker
  BY <1>5 DEF BootRestore, BootSidecarsDone, BootCancelled, BootRecover,
     BootStop, BootDrain, StartWorkers
<1>6. ASSUME NEW w \in Workers, ClaimNextCommand(w)
      PROVE  WorkerType'
  BY <1>6 DEF ClaimNextCommand, IsNext, Claimable
<1>7. ASSUME NEW w \in Workers, ExecuteBegin(w)
      PROVE  WorkerType'
  BY <1>7 DEF ExecuteBegin, FailEarly, StartDispatch, Works, Fails
<1>8. ASSUME NEW w \in Workers, DispatchEnd(w)
      PROVE  WorkerType'
  BY <1>8 DEF DispatchEnd
<1>9. ASSUME NEW w \in Workers, PushAfterSuccess(w)
      PROVE  WorkerType'
  BY <1>9 DEF PushAfterSuccess, Works, Fails
<1>10. ASSUME NEW w \in Workers, FinalCancelCheck(w)
      PROVE  WorkerType'
  BY <1>10 DEF FinalCancelCheck, Works, Fails
<1>11. ASSUME NEW w \in Workers, WriteSidecar(w)
      PROVE  WorkerType'
  BY <1>11 DEF WriteSidecar, Works, Fails
<1>12. ASSUME NEW w \in Workers, PersistRow(w)
      PROVE  WorkerType'
  BY <1>12 DEF PersistRow, Works, Fails
<1>13. ASSUME NEW w \in Workers, RemoveSidecar(w)
      PROVE  WorkerType'
  BY <1>13 DEF RemoveSidecar, Works, Fails
<1>14. ASSUME NEW w \in Workers, FlushLog(w)
      PROVE  WorkerType'
  BY <1>14 DEF FlushLog, Works, Fails
<1>15. ASSUME NEW w \in Workers, PostExecutionCheck(w)
      PROVE  WorkerType'
  BY <1>15 DEF PostExecutionCheck, ClosesOrReturns
<1>16. ASSUME NEW w \in Workers, Unregister(w)
      PROVE  WorkerType'
  BY <1>16 DEF Unregister
<1>17. ASSUME NEW p \in Closers, NEW s \in Sessions, HandleCloseSession(p, s)
      PROVE  WorkerType'
  BY <1>17 DEF HandleCloseSession, CGoto
<1>18. CASE Crash
  BY <1>18 DEF Crash, LoseDaemon
<1>19. CASE BootRefuse
  BY <1>19 DEF BootRefuse, LoseDaemon, Fails
<1> QED
  BY <1>1, <1>2, <1>3, <1>4, <1>5, <1>6, <1>7, <1>8, <1>9, <1>10, <1>11,
     <1>12, <1>13, <1>14, <1>15, <1>16, <1>17, <1>18, <1>19
     DEF Next, WorkerStep, CancelStep, CloseStep, BootStep, vars

\* Handlers stay in their control points.
LEMMA HandlerTypeStep ==
  ASSUME IInv, [Next]_vars
  PROVE  HandlerType'
<1> USE QueueAssumption DEF IInv, TypeOK, HandlerType, WorkerType,
        WorkerOK, Closes, disk, worker, daemon, handlers, bounds
<1>1. CASE UNCHANGED handlers
  BY <1>1
<1>2. ASSUME NEW w \in Workers,
             ClaimNextCommand(w) \/ ExecuteBegin(w) \/
             RecordCancelCleanup(w) \/ DispatchEnd(w) \/
             PushAfterSuccess(w) \/ FinalCancelCheck(w) \/ WriteSidecar(w)
             \/ PersistRow(w) \/ RemoveSidecar(w) \/ FlushLog(w) \/
             Unregister(w)
      PROVE  UNCHANGED handlers
  BY <1>2 DEF ClaimNextCommand, ExecuteBegin, RecordCancelCleanup,
     DispatchEnd, PushAfterSuccess, FinalCancelCheck, WriteSidecar,
     PersistRow, RemoveSidecar, FlushLog, Unregister
<1>3. ASSUME BootRestore \/ BootSidecarsDone \/ BootCancelled \/
             BootRecover \/ BootStop \/ BootDrain \/ StartWorkers
      PROVE  UNCHANGED handlers
  BY <1>3 DEF BootRestore, BootSidecarsDone, BootCancelled, BootRecover,
     BootStop, BootDrain, StartWorkers
<1>4. ASSUME NEW c \in Commands,
             BootSidecar(c)
      PROVE  UNCHANGED handlers
  BY <1>4 DEF BootSidecar
<1>5. ASSUME NEW c \in Commands, AdmitCheck(c)
      PROVE  HandlerType'
  BY <1>5 DEF AdmitCheck
<1>6. ASSUME NEW c \in Commands, EnqueueCommand(c)
      PROVE  HandlerType'
  BY <1>6 DEF EnqueueCommand, Works, Fails
<1>7. ASSUME NEW w \in Workers, PostExecutionCheck(w)
      PROVE  HandlerType'
  BY <1>7 DEF PostExecutionCheck, ClosesOrReturns
<1>8. ASSUME NEW c \in Commands, CancelRead(c)
      PROVE  HandlerType'
  BY <1>8 DEF CancelRead, Goto, CancelEnded
<1>9. ASSUME NEW c \in Commands, CancelIfQueued(c)
      PROVE  HandlerType'
  BY <1>9 DEF CancelIfQueued, Goto, CancelEnded, CancelStops, Works, Fails
<1>10. ASSUME NEW c \in Commands, RequestCancel(c)
      PROVE  HandlerType'
  BY <1>10 DEF RequestCancel, Goto
<1>11. ASSUME NEW c \in Commands, CancelOwned(c)
      PROVE  HandlerType'
  BY <1>11 DEF CancelOwned, Goto
<1>12. ASSUME NEW c \in Commands, CancelUnowned(c)
      PROVE  HandlerType'
  BY <1>12 DEF CancelUnowned, Goto, CancelEnded, CancelStops, Works, Fails
<1>13. ASSUME NEW c \in Commands, CancelFails(c)
      PROVE  HandlerType'
  BY <1>13 DEF CancelFails, Goto, CancelStops, Fails
<1>14. ASSUME NEW p \in Closers, NEW s \in Sessions, HandleCloseSession(p, s)
      PROVE  HandlerType'
  BY <1>14 DEF HandleCloseSession, CGoto
<1>15. ASSUME NEW p \in Closes, CloseRead(p)
      PROVE  HandlerType'
  BY <1>15 DEF CloseRead, CGoto, CReturn
<1>16. ASSUME NEW p \in Closes, CloseMark(p)
      PROVE  HandlerType'
  BY <1>16 DEF CloseMark, CGoto
<1>17. ASSUME NEW p \in Closes, CloseCancelQueued(p)
      PROVE  HandlerType'
  BY <1>17 DEF CloseCancelQueued, CGoto
<1>18. ASSUME NEW p \in Closes, CloseBusyCheck(p)
      PROVE  HandlerType'
  BY <1>18 DEF CloseBusyCheck, CGoto, CReturn
<1>19. ASSUME NEW p \in Closes, CloseDelete(p)
      PROVE  HandlerType'
  BY <1>19 DEF CloseDelete, CGoto
<1>20. ASSUME NEW p \in Closes, CloseForce(p)
      PROVE  HandlerType'
  BY <1>20 DEF CloseForce, CGoto
<1>21. ASSUME NEW p \in Closes, CloseForget(p)
      PROVE  HandlerType'
  BY <1>21 DEF CloseForget, CReturn
<1>22. ASSUME NEW p \in Closes, CloseFails(p)
      PROVE  HandlerType'
  BY <1>22 DEF CloseFails, CReturn, Fails
<1>23. CASE Crash
  BY <1>23 DEF Crash, LoseDaemon
<1>24. CASE BootRefuse
  BY <1>24 DEF BootRefuse, LoseDaemon, Fails
<1>25. ASSUME NEW c \in Commands, RecoverCleanup(c)
      PROVE  HandlerType'
  BY <1>25 DEF RecoverCleanup, CGoto, NeedsCleanup
<1> QED
  BY <1>1, <1>2, <1>3, <1>4, <1>5, <1>6, <1>7, <1>8, <1>9, <1>10, <1>11,
     <1>12, <1>13, <1>14, <1>15, <1>16, <1>17, <1>18, <1>19, <1>20, <1>21,
     <1>22, <1>23, <1>24, <1>25
     DEF Next, WorkerStep, CancelStep, CloseStep, BootStep, vars

\* The daemon's own state and the two bounds keep their types.
LEMMA DaemonTypeStep ==
  ASSUME IInv, [Next]_vars
  PROVE  DaemonType'
<1> USE QueueAssumption DEF IInv, TypeOK, DaemonType, DiskType,
        HandlerType, WorkerType, Phases, disk, worker, daemon, handlers,
        bounds
<1>1. CASE UNCHANGED <<daemon, bounds>>
  BY <1>1
<1>2. ASSUME NEW c \in Commands,
             AdmitCheck(c) \/ CancelRead(c) \/ RequestCancel(c)
      PROVE  UNCHANGED <<daemon, bounds>>
  BY <1>2 DEF AdmitCheck, CancelRead, RequestCancel
<1>3. ASSUME NEW w \in Workers, RecordCancelCleanup(w) \/ DispatchEnd(w)
      PROVE  UNCHANGED <<daemon, bounds>>
  BY <1>3 DEF RecordCancelCleanup, DispatchEnd
<1>4. ASSUME NEW p \in Closes,
             CloseRead(p) \/ CloseMark(p) \/ CloseCancelQueued(p) \/
             CloseBusyCheck(p) \/ CloseDelete(p) \/ CloseForce(p)
      PROVE  UNCHANGED <<daemon, bounds>>
  BY <1>4 DEF CloseRead, CloseMark, CloseCancelQueued, CloseBusyCheck,
     CloseDelete, CloseForce
<1>5. ASSUME NEW c \in Commands, EnqueueCommand(c)
      PROVE  DaemonType'
  BY <1>5 DEF EnqueueCommand, Works, Fails
<1>6. ASSUME NEW w \in Workers, ClaimNextCommand(w)
      PROVE  DaemonType'
  BY <1>6 DEF ClaimNextCommand, IsNext, Claimable
<1>7. ASSUME NEW w \in Workers, ExecuteBegin(w)
      PROVE  DaemonType'
  <2>1. \/ UNCHANGED token
        \/ token' = [token EXCEPT ![wcmd[w]] =
                                  IF wcmd[w] \in marker THEN "fired" ELSE @]
    BY <1>7, Zenon DEF ExecuteBegin
  <2>2. token' \in [Commands -> {"none", "live", "fired"}]
    <3>1. CASE UNCHANGED token
      BY <3>1
    <3>2. CASE token' = [token EXCEPT ![wcmd[w]] =
                                  IF wcmd[w] \in marker THEN "fired" ELSE @]
      BY <3>2
    <3> QED
      BY <2>1, <3>1, <3>2
  <2>3. failures' \in 0 .. MaxFailures
    BY <1>7 DEF ExecuteBegin, Works, Fails
  <2> QED
    BY <1>7, <2>2, <2>3 DEF ExecuteBegin
<1>8. ASSUME NEW w \in Workers, PushAfterSuccess(w)
      PROVE  DaemonType'
  BY <1>8 DEF PushAfterSuccess, Works, Fails
<1>9. ASSUME NEW w \in Workers, FinalCancelCheck(w)
      PROVE  DaemonType'
  BY <1>9 DEF FinalCancelCheck, Works, Fails
<1>10. ASSUME NEW w \in Workers, WriteSidecar(w)
      PROVE  DaemonType'
  BY <1>10 DEF WriteSidecar, Works, Fails
<1>11. ASSUME NEW w \in Workers, PersistRow(w)
      PROVE  DaemonType'
  BY <1>11 DEF PersistRow, Works, Fails
<1>12. ASSUME NEW w \in Workers, RemoveSidecar(w)
      PROVE  DaemonType'
  BY <1>12 DEF RemoveSidecar, Works, Fails
<1>13. ASSUME NEW w \in Workers, FlushLog(w)
      PROVE  DaemonType'
  BY <1>13 DEF FlushLog, Works, Fails
<1>14. ASSUME NEW w \in Workers, Unregister(w)
      PROVE  DaemonType'
  BY <1>14 DEF Unregister
<1>15. ASSUME NEW c \in Commands, CancelIfQueued(c)
      PROVE  DaemonType'
  BY <1>15 DEF CancelIfQueued, Goto, CancelEnded, CancelStops, Works,
     Fails
<1>16. ASSUME NEW c \in Commands, CancelOwned(c)
      PROVE  DaemonType'
  BY <1>16 DEF CancelOwned, Goto
<1>17. ASSUME NEW c \in Commands, CancelUnowned(c)
      PROVE  DaemonType'
  BY <1>17 DEF CancelUnowned, Goto, CancelEnded, CancelStops, Works, Fails
<1>18. ASSUME NEW c \in Commands, CancelFails(c)
      PROVE  DaemonType'
  BY <1>18 DEF CancelFails, Goto, CancelStops, Fails
<1>19. ASSUME NEW p \in Closers, NEW s \in Sessions, HandleCloseSession(p, s)
      PROVE  DaemonType'
  BY <1>19 DEF HandleCloseSession, CGoto
<1>20. ASSUME NEW p \in Closes, CloseForget(p)
      PROVE  DaemonType'
  BY <1>20 DEF CloseForget, CReturn
<1>21. ASSUME NEW p \in Closes, CloseFails(p)
      PROVE  DaemonType'
  BY <1>21 DEF CloseFails, CReturn, Fails
<1>22. CASE Crash
  BY <1>22 DEF Crash, LoseDaemon
<1>23. CASE BootRestore
  BY <1>23 DEF BootRestore
<1>24. ASSUME NEW c \in Commands, BootSidecar(c)
      PROVE  DaemonType'
  BY <1>24 DEF BootSidecar, Works, Fails
<1>25. CASE BootSidecarsDone
  BY <1>25 DEF BootSidecarsDone
<1>26. CASE BootCancelled
  BY <1>26 DEF BootCancelled, Works, Fails
<1>27. CASE BootRecover
  BY <1>27 DEF BootRecover, Works, Fails
<1>28. CASE BootStop
  BY <1>28 DEF BootStop
<1>29. CASE BootRefuse
  BY <1>29 DEF BootRefuse, LoseDaemon, Fails
<1>30. CASE BootDrain
  BY <1>30 DEF BootDrain, Works, Fails
<1>31. CASE StartWorkers
  BY <1>31 DEF StartWorkers
<1>32. ASSUME NEW w \in Workers, PostExecutionCheck(w)
       PROVE  DaemonType'
  <2>1. Works \/ Fails
    BY <1>32, ReadCounted DEF PostExecutionCheck
  <2> QED
    BY <1>32, <2>1 DEF PostExecutionCheck, Works, Fails
<1>33. ASSUME NEW c \in Commands, RecoverCleanup(c)
       PROVE  DaemonType'
  <2>1. Works \/ Fails
    BY <1>33, ReadCounted DEF RecoverCleanup
  <2> QED
    BY <1>33, <2>1 DEF RecoverCleanup, Works, Fails
<1> QED
  BY <1>1, <1>2, <1>3, <1>4, <1>5, <1>6, <1>7, <1>8, <1>9, <1>10, <1>11,
     <1>12, <1>13, <1>14, <1>15, <1>16, <1>17, <1>18, <1>19, <1>20, <1>21,
     <1>22, <1>23, <1>24, <1>25, <1>26, <1>27, <1>28, <1>29, <1>30, <1>31,
     <1>32, <1>33
     DEF Next, WorkerStep, CancelStep, CloseStep, BootStep, vars

\* A worker that publishes has a command and an outcome.
LEMMA WorkerOKStep ==
  ASSUME IInv, [Next]_vars
  PROVE  WorkerOK'
<1> USE QueueAssumption DEF IInv, TypeOK, WorkerType, WorkerPcs, WorkerOK,
        Terminal, disk, worker, daemon, handlers, bounds
<1>1. CASE UNCHANGED worker
  BY <1>1
<1>2. ASSUME NEW c \in Commands,
             AdmitCheck(c) \/ EnqueueCommand(c) \/ CancelRead(c) \/
             CancelIfQueued(c) \/ RequestCancel(c) \/ CancelOwned(c) \/
             CancelUnowned(c) \/ CancelFails(c) \/ BootSidecar(c) \/
             RecoverCleanup(c)
      PROVE  UNCHANGED worker
  BY <1>2 DEF AdmitCheck, EnqueueCommand, CancelRead, CancelIfQueued,
     RequestCancel, CancelOwned, CancelUnowned, CancelFails, BootSidecar,
     RecoverCleanup
<1>3. ASSUME NEW w \in Workers,
             RecordCancelCleanup(w)
      PROVE  UNCHANGED worker
  BY <1>3 DEF RecordCancelCleanup
<1>4. ASSUME NEW p \in Closes,
             CloseRead(p) \/ CloseMark(p) \/ CloseCancelQueued(p) \/
             CloseBusyCheck(p) \/ CloseDelete(p) \/ CloseForce(p) \/
             CloseForget(p) \/ CloseFails(p)
      PROVE  UNCHANGED worker
  BY <1>4 DEF CloseRead, CloseMark, CloseCancelQueued, CloseBusyCheck,
     CloseDelete, CloseForce, CloseForget, CloseFails
<1>5. ASSUME BootRestore \/ BootSidecarsDone \/ BootCancelled \/
             BootRecover \/ BootStop \/ BootDrain \/ StartWorkers
      PROVE  UNCHANGED worker
  BY <1>5 DEF BootRestore, BootSidecarsDone, BootCancelled, BootRecover,
     BootStop, BootDrain, StartWorkers
<1>6. ASSUME NEW w \in Workers, ClaimNextCommand(w)
      PROVE  WorkerOK'
  BY <1>6 DEF ClaimNextCommand, IsNext, Claimable
<1>7. ASSUME NEW w \in Workers, ExecuteBegin(w)
      PROVE  WorkerOK'
  BY <1>7 DEF ExecuteBegin, FailEarly, StartDispatch, Works, Fails
<1>8. ASSUME NEW w \in Workers, DispatchEnd(w)
      PROVE  WorkerOK'
  BY <1>8 DEF DispatchEnd
<1>9. ASSUME NEW w \in Workers, PushAfterSuccess(w)
      PROVE  WorkerOK'
  BY <1>9 DEF PushAfterSuccess, Works, Fails
<1>10. ASSUME NEW w \in Workers, FinalCancelCheck(w)
      PROVE  WorkerOK'
  BY <1>10 DEF FinalCancelCheck, Works, Fails
<1>11. ASSUME NEW w \in Workers, WriteSidecar(w)
      PROVE  WorkerOK'
  BY <1>11 DEF WriteSidecar, Works, Fails
<1>12. ASSUME NEW w \in Workers, PersistRow(w)
      PROVE  WorkerOK'
  BY <1>12 DEF PersistRow, Works, Fails
<1>13. ASSUME NEW w \in Workers, RemoveSidecar(w)
      PROVE  WorkerOK'
  BY <1>13 DEF RemoveSidecar, Works, Fails
<1>14. ASSUME NEW w \in Workers, FlushLog(w)
      PROVE  WorkerOK'
  BY <1>14 DEF FlushLog, Works, Fails
<1>15. ASSUME NEW w \in Workers, PostExecutionCheck(w)
      PROVE  WorkerOK'
  BY <1>15 DEF PostExecutionCheck, ClosesOrReturns
<1>16. ASSUME NEW w \in Workers, Unregister(w)
      PROVE  WorkerOK'
  BY <1>16 DEF Unregister
<1>17. ASSUME NEW p \in Closers, NEW s \in Sessions, HandleCloseSession(p, s)
      PROVE  WorkerOK'
  BY <1>17 DEF HandleCloseSession, CGoto
<1>18. CASE Crash
  BY <1>18 DEF Crash, LoseDaemon
<1>19. CASE BootRefuse
  BY <1>19 DEF BootRefuse, LoseDaemon, Fails
<1> QED
  BY <1>1, <1>2, <1>3, <1>4, <1>5, <1>6, <1>7, <1>8, <1>9, <1>10, <1>11,
     <1>12, <1>13, <1>14, <1>15, <1>16, <1>17, <1>18, <1>19
     DEF Next, WorkerStep, CancelStep, CloseStep, BootStep, vars

\* A running close() has a session.
LEMMA CloseOKStep ==
  ASSUME IInv, [Next]_vars
  PROVE  CloseOK'
<1> USE QueueAssumption DEF IInv, TypeOK, HandlerType, WorkerType,
        WorkerOK, Closes, CloseOK, disk, worker, daemon, handlers, bounds
<1>1. CASE UNCHANGED <<cpc, csession>>
  BY <1>1
<1>2. ASSUME NEW c \in Commands,
             AdmitCheck(c) \/ EnqueueCommand(c) \/ RequestCancel(c) \/
             CancelOwned(c) \/ BootSidecar(c)
      PROVE  UNCHANGED <<cpc, csession>>
  BY <1>2 DEF AdmitCheck, EnqueueCommand, RequestCancel, CancelOwned,
     BootSidecar
<1>3. ASSUME NEW w \in Workers,
             ClaimNextCommand(w) \/ ExecuteBegin(w) \/
             RecordCancelCleanup(w) \/ DispatchEnd(w) \/
             PushAfterSuccess(w) \/ FinalCancelCheck(w) \/ WriteSidecar(w)
             \/ PersistRow(w) \/ RemoveSidecar(w) \/ FlushLog(w) \/
             Unregister(w)
      PROVE  UNCHANGED <<cpc, csession>>
  BY <1>3 DEF ClaimNextCommand, ExecuteBegin, RecordCancelCleanup,
     DispatchEnd, PushAfterSuccess, FinalCancelCheck, WriteSidecar,
     PersistRow, RemoveSidecar, FlushLog, Unregister
<1>4. ASSUME BootRestore \/ BootSidecarsDone \/ BootCancelled \/
             BootRecover \/ BootStop \/ BootDrain \/ StartWorkers
      PROVE  UNCHANGED <<cpc, csession>>
  BY <1>4 DEF BootRestore, BootSidecarsDone, BootCancelled, BootRecover,
     BootStop, BootDrain, StartWorkers
<1>5. ASSUME NEW w \in Workers, PostExecutionCheck(w)
      PROVE  CloseOK'
  BY <1>5 DEF PostExecutionCheck, ClosesOrReturns
<1>6. ASSUME NEW c \in Commands, CancelRead(c)
      PROVE  CloseOK'
  BY <1>6 DEF CancelRead, Goto, CancelEnded
<1>7. ASSUME NEW c \in Commands, CancelIfQueued(c)
      PROVE  CloseOK'
  BY <1>7 DEF CancelIfQueued, Goto, CancelEnded, CancelStops, Works, Fails
<1>8. ASSUME NEW c \in Commands, CancelUnowned(c)
      PROVE  CloseOK'
  BY <1>8 DEF CancelUnowned, Goto, CancelEnded, CancelStops, Works, Fails
<1>9. ASSUME NEW c \in Commands, CancelFails(c)
      PROVE  CloseOK'
  BY <1>9 DEF CancelFails, Goto, CancelStops, Fails
<1>10. ASSUME NEW p \in Closers, NEW s \in Sessions, HandleCloseSession(p, s)
      PROVE  CloseOK'
  BY <1>10 DEF HandleCloseSession, CGoto
<1>11. ASSUME NEW p \in Closes, CloseRead(p)
      PROVE  CloseOK'
  BY <1>11 DEF CloseRead, CGoto, CReturn
<1>12. ASSUME NEW p \in Closes, CloseMark(p)
      PROVE  CloseOK'
  BY <1>12 DEF CloseMark, CGoto
<1>13. ASSUME NEW p \in Closes, CloseCancelQueued(p)
      PROVE  CloseOK'
  BY <1>13 DEF CloseCancelQueued, CGoto
<1>14. ASSUME NEW p \in Closes, CloseBusyCheck(p)
      PROVE  CloseOK'
  BY <1>14 DEF CloseBusyCheck, CGoto, CReturn
<1>15. ASSUME NEW p \in Closes, CloseDelete(p)
      PROVE  CloseOK'
  BY <1>15 DEF CloseDelete, CGoto
<1>16. ASSUME NEW p \in Closes, CloseForce(p)
      PROVE  CloseOK'
  BY <1>16 DEF CloseForce, CGoto
<1>17. ASSUME NEW p \in Closes, CloseForget(p)
      PROVE  CloseOK'
  BY <1>17 DEF CloseForget, CReturn
<1>18. ASSUME NEW p \in Closes, CloseFails(p)
      PROVE  CloseOK'
  BY <1>18 DEF CloseFails, CReturn, Fails
<1>19. CASE Crash
  BY <1>19 DEF Crash, LoseDaemon
<1>20. CASE BootRefuse
  BY <1>20 DEF BootRefuse, LoseDaemon, Fails
<1>21. ASSUME NEW c \in Commands, RecoverCleanup(c)
      PROVE  CloseOK'
  BY <1>21 DEF RecoverCleanup, CGoto, NeedsCleanup
<1> QED
  BY <1>1, <1>2, <1>3, <1>4, <1>5, <1>6, <1>7, <1>8, <1>9, <1>10, <1>11,
     <1>12, <1>13, <1>14, <1>15, <1>16, <1>17, <1>18, <1>19, <1>20, <1>21
     DEF Next, WorkerStep, CancelStep, CloseStep, BootStep, vars

\* Neither a worker nor a request is served before its time.
LEMMA PhaseOKStep ==
  ASSUME IInv, [Next]_vars
  PROVE  PhaseOK'
<1> USE QueueAssumption DEF IInv, TypeOK, HandlerType, WorkerType,
        DaemonType, Phases, PhaseOK, disk, worker, daemon, handlers,
        bounds
<1>1. CASE UNCHANGED <<phase, wpc, admit, cancel>>
  BY <1>1
<1>2. ASSUME NEW w \in Workers,
             RecordCancelCleanup(w) \/ FlushLog(w)
      PROVE  UNCHANGED <<phase, wpc, admit, cancel>>
  BY <1>2 DEF RecordCancelCleanup, FlushLog
<1>3. ASSUME NEW p \in Closes,
             CloseRead(p) \/ CloseMark(p) \/ CloseCancelQueued(p) \/
             CloseBusyCheck(p) \/ CloseDelete(p) \/ CloseForce(p) \/
             CloseForget(p) \/ CloseFails(p)
      PROVE  UNCHANGED <<phase, wpc, admit, cancel>>
  BY <1>3 DEF CloseRead, CloseMark, CloseCancelQueued, CloseBusyCheck,
     CloseDelete, CloseForce, CloseForget, CloseFails
<1>4. ASSUME NEW c \in Commands,
             BootSidecar(c) \/ RecoverCleanup(c)
      PROVE  UNCHANGED <<phase, wpc, admit, cancel>>
  BY <1>4 DEF BootSidecar, RecoverCleanup
<1>5. ASSUME NEW c \in Commands, AdmitCheck(c)
      PROVE  PhaseOK'
  BY <1>5 DEF AdmitCheck
<1>6. ASSUME NEW c \in Commands, EnqueueCommand(c)
      PROVE  PhaseOK'
  BY <1>6 DEF EnqueueCommand, Works, Fails
<1>7. ASSUME NEW w \in Workers, ClaimNextCommand(w)
      PROVE  PhaseOK'
  BY <1>7 DEF ClaimNextCommand, IsNext, Claimable
<1>8. ASSUME NEW w \in Workers, ExecuteBegin(w)
      PROVE  PhaseOK'
  BY <1>8 DEF ExecuteBegin, FailEarly, StartDispatch, Works, Fails
<1>9. ASSUME NEW w \in Workers, DispatchEnd(w)
      PROVE  PhaseOK'
  BY <1>9 DEF DispatchEnd
<1>10. ASSUME NEW w \in Workers, PushAfterSuccess(w)
      PROVE  PhaseOK'
  BY <1>10 DEF PushAfterSuccess, Works, Fails
<1>11. ASSUME NEW w \in Workers, FinalCancelCheck(w)
      PROVE  PhaseOK'
  BY <1>11 DEF FinalCancelCheck, Works, Fails
<1>12. ASSUME NEW w \in Workers, WriteSidecar(w)
      PROVE  PhaseOK'
  BY <1>12 DEF WriteSidecar, Works, Fails
<1>13. ASSUME NEW w \in Workers, PersistRow(w)
      PROVE  PhaseOK'
  BY <1>13 DEF PersistRow, Works, Fails
<1>14. ASSUME NEW w \in Workers, RemoveSidecar(w)
      PROVE  PhaseOK'
  BY <1>14 DEF RemoveSidecar, Works, Fails
<1>15. ASSUME NEW w \in Workers, PostExecutionCheck(w)
      PROVE  PhaseOK'
  BY <1>15 DEF PostExecutionCheck, ClosesOrReturns
<1>16. ASSUME NEW w \in Workers, Unregister(w)
      PROVE  PhaseOK'
  BY <1>16 DEF Unregister
<1>17. ASSUME NEW c \in Commands, CancelRead(c)
      PROVE  PhaseOK'
  BY <1>17 DEF CancelRead, Goto, CancelEnded
<1>18. ASSUME NEW c \in Commands, CancelIfQueued(c)
      PROVE  PhaseOK'
  BY <1>18 DEF CancelIfQueued, Goto, CancelEnded, CancelStops, Works,
     Fails
<1>19. ASSUME NEW c \in Commands, RequestCancel(c)
      PROVE  PhaseOK'
  BY <1>19 DEF RequestCancel, Goto
<1>20. ASSUME NEW c \in Commands, CancelOwned(c)
      PROVE  PhaseOK'
  BY <1>20 DEF CancelOwned, Goto
<1>21. ASSUME NEW c \in Commands, CancelUnowned(c)
      PROVE  PhaseOK'
  BY <1>21 DEF CancelUnowned, Goto, CancelEnded, CancelStops, Works, Fails
<1>22. ASSUME NEW c \in Commands, CancelFails(c)
      PROVE  PhaseOK'
  BY <1>22 DEF CancelFails, Goto, CancelStops, Fails
<1>23. ASSUME NEW p \in Closers, NEW s \in Sessions, HandleCloseSession(p, s)
      PROVE  PhaseOK'
  BY <1>23 DEF HandleCloseSession, CGoto
<1>24. CASE Crash
  BY <1>24 DEF Crash, LoseDaemon
<1>25. CASE BootRestore
  BY <1>25 DEF BootRestore
<1>26. CASE BootSidecarsDone
  BY <1>26 DEF BootSidecarsDone
<1>27. CASE BootCancelled
  BY <1>27 DEF BootCancelled, Works, Fails
<1>28. CASE BootRecover
  BY <1>28 DEF BootRecover, Works, Fails
<1>29. CASE BootStop
  BY <1>29 DEF BootStop
<1>30. CASE BootRefuse
  BY <1>30 DEF BootRefuse, LoseDaemon, Fails
<1>31. CASE BootDrain
  BY <1>31 DEF BootDrain, Works, Fails
<1>32. CASE StartWorkers
  BY <1>32 DEF StartWorkers
<1> QED
  BY <1>1, <1>2, <1>3, <1>4, <1>5, <1>6, <1>7, <1>8, <1>9, <1>10, <1>11,
     <1>12, <1>13, <1>14, <1>15, <1>16, <1>17, <1>18, <1>19, <1>20, <1>21,
     <1>22, <1>23, <1>24, <1>25, <1>26, <1>27, <1>28, <1>29, <1>30, <1>31,
     <1>32
     DEF Next, WorkerStep, CancelStep, CloseStep, BootStep, vars

\* No step takes a command with a marker back to the queue.
LEMMA CancelOKStep ==
  ASSUME IInv, [Next]_vars
  PROVE  CancelOK'
<1> USE QueueAssumption DEF IInv, TypeOK, DiskType, HandlerType,
        DaemonType, WorkerType, CancelOK, WorkerOK, PhaseOK, Terminal,
        Statuses, disk, worker, daemon, handlers, bounds
<1>1. CASE UNCHANGED <<admit, status, wcmd, cancel, marker, phase>>
  BY <1>1
<1>2. ASSUME NEW w \in Workers,
             ExecuteBegin(w) \/ RecordCancelCleanup(w) \/ DispatchEnd(w) \/
             PushAfterSuccess(w) \/ FinalCancelCheck(w) \/ WriteSidecar(w)
             \/ RemoveSidecar(w) \/ FlushLog(w) \/ PostExecutionCheck(w)
      PROVE  UNCHANGED <<admit, status, wcmd, cancel, marker, phase>>
  BY <1>2 DEF ExecuteBegin, RecordCancelCleanup, DispatchEnd,
     PushAfterSuccess, FinalCancelCheck, WriteSidecar, RemoveSidecar,
     FlushLog, PostExecutionCheck
<1>3. ASSUME NEW p \in Closes,
             CloseRead(p) \/ CloseMark(p) \/ CloseBusyCheck(p) \/
             CloseDelete(p) \/ CloseForce(p) \/ CloseForget(p) \/
             CloseFails(p)
      PROVE  UNCHANGED <<admit, status, wcmd, cancel, marker, phase>>
  BY <1>3 DEF CloseRead, CloseMark, CloseBusyCheck, CloseDelete,
     CloseForce, CloseForget, CloseFails
<1>4. ASSUME NEW c \in Commands,
             RecoverCleanup(c)
      PROVE  UNCHANGED <<admit, status, wcmd, cancel, marker, phase>>
  BY <1>4 DEF RecoverCleanup
<1>5. ASSUME NEW c \in Commands, AdmitCheck(c)
      PROVE  CancelOK'
  BY <1>5 DEF AdmitCheck
<1>6. ASSUME NEW c \in Commands, EnqueueCommand(c)
      PROVE  CancelOK'
  BY <1>6 DEF EnqueueCommand, Works, Fails
<1>7. ASSUME NEW w \in Workers, ClaimNextCommand(w)
      PROVE  CancelOK'
  BY <1>7 DEF ClaimNextCommand, IsNext, Claimable
<1>8. ASSUME NEW w \in Workers, PersistRow(w)
      PROVE  CancelOK'
  <2>1. wcmd[w] \in Commands /\ wout[w] \in Terminal
    BY <1>8 DEF PersistRow
  <2>2. status[wcmd[w]] # "none"
    BY <2>1
  <2>3. CASE status' = [status EXCEPT ![wcmd[w]] = wout[w]]
    BY <1>8, <2>1, <2>2, <2>3, EndKeepsCancelOK DEF PersistRow
  <2>4. CASE UNCHANGED status
    BY <1>8, <2>4 DEF PersistRow
  <2> QED
    BY <1>8, <2>3, <2>4 DEF PersistRow
<1>9. ASSUME NEW w \in Workers, Unregister(w)
      PROVE  CancelOK'
  BY <1>9 DEF Unregister
<1>10. ASSUME NEW c \in Commands, CancelRead(c)
      PROVE  CancelOK'
  BY <1>10 DEF CancelRead, Goto, CancelEnded
<1>11. ASSUME NEW c \in Commands, CancelIfQueued(c)
      PROVE  CancelOK'
  <2>1. CASE status[c] = "queued"
    BY <1>11, <2>1, EndKeepsCancelOK DEF CancelIfQueued, CancelEnded, CancelStops, Goto
  <2>2. CASE status[c] # "queued"
    BY <1>11, <2>2 DEF CancelIfQueued, CancelEnded, CancelStops, Goto
  <2> QED
    BY <2>1, <2>2
<1>12. ASSUME NEW c \in Commands, RequestCancel(c)
      PROVE  CancelOK'
  BY <1>12 DEF RequestCancel, Goto
<1>13. ASSUME NEW c \in Commands, CancelOwned(c)
      PROVE  CancelOK'
  BY <1>13 DEF CancelOwned, Goto
<1>14. ASSUME NEW c \in Commands, CancelUnowned(c)
      PROVE  CancelOK'
  <2>1. CASE status[c] = "running" /\ status' # status
    <3>1. sidecar[c].attempt = attempt[c] => sidecar[c].status \in Terminal
      BY SidecarOutcome
    <3>2. PICK st \in Terminal : status' = [status EXCEPT ![c] = st]
      BY <1>14, <2>1, <3>1 DEF CancelUnowned
    <3> QED
      BY <1>14, <2>1, <3>2, EndKeepsCancelOK DEF CancelUnowned, CancelEnded, CancelStops, Goto
  <2>2. CASE UNCHANGED status
    BY <1>14, <2>2 DEF CancelUnowned, CancelEnded, CancelStops, Goto
  <2>3. status[c] # "running" => UNCHANGED status
    BY <1>14 DEF CancelUnowned
  <2> QED
    BY <2>1, <2>2, <2>3
<1>15. ASSUME NEW c \in Commands, CancelFails(c)
      PROVE  CancelOK'
  BY <1>15 DEF CancelFails, Goto, CancelStops, Fails
<1>16. ASSUME NEW p \in Closers, NEW s \in Sessions, HandleCloseSession(p, s)
      PROVE  CancelOK'
  BY <1>16 DEF HandleCloseSession, CGoto
<1>17. ASSUME NEW p \in Closes, CloseCancelQueued(p)
      PROVE  CancelOK'
  BY <1>17 DEF CloseCancelQueued, CGoto
<1>18. CASE Crash
  BY <1>18 DEF Crash, LoseDaemon
<1>19. CASE BootRestore
  BY <1>19 DEF BootRestore
<1>20. ASSUME NEW c \in Commands, BootSidecar(c)
      PROVE  CancelOK'
  <2>1. CASE status[c] = "running" /\ sidecar[c].attempt = attempt[c]
    <3>1. sidecar[c].status \in Terminal
      BY <2>1, SidecarOutcome
    <3>2. status' = [status EXCEPT ![c] = sidecar[c].status]
      BY <1>20, <2>1 DEF BootSidecar
    <3> QED
      BY <1>20, <2>1, <3>1, <3>2, EndKeepsCancelOK DEF BootSidecar
  <2>2. CASE ~ (status[c] = "running" /\ sidecar[c].attempt = attempt[c])
    <3>1. UNCHANGED status
      BY <1>20, <2>2 DEF BootSidecar
    <3> QED
      BY <1>20, <3>1 DEF BootSidecar
  <2> QED
    BY <2>1, <2>2
<1>21. CASE BootSidecarsDone
  BY <1>21 DEF BootSidecarsDone
<1>22. CASE BootCancelled
  BY <1>22 DEF BootCancelled, Works, Fails
<1>23. CASE BootRecover
  BY <1>23 DEF BootRecover, Works, Fails
<1>24. CASE BootStop
  BY <1>24 DEF BootStop
<1>25. CASE BootRefuse
  BY <1>25 DEF BootRefuse, LoseDaemon, Fails
<1>26. CASE BootDrain
  BY <1>26 DEF BootDrain, Works, Fails
<1>27. CASE StartWorkers
  BY <1>27 DEF StartWorkers
<1> QED
  BY <1>1, <1>2, <1>3, <1>4, <1>5, <1>6, <1>7, <1>8, <1>9, <1>10, <1>11,
     <1>12, <1>13, <1>14, <1>15, <1>16, <1>17, <1>18, <1>19, <1>20, <1>21,
     <1>22, <1>23, <1>24, <1>25, <1>26, <1>27
     DEF Next, WorkerStep, CancelStep, CloseStep, BootStep, vars

\* Only a claim makes a row `running`, and only in an idle session.
LEMMA OneRunningStep ==
  ASSUME IInv, [Next]_vars
  PROVE  OneRunning'
<1> USE QueueAssumption DEF IInv, TypeOK, DiskType, WorkerType,
        OneRunning, CommandsOf, Running, WorkerOK, Terminal, Statuses,
        disk, worker, daemon, handlers, bounds
<1>1. CASE UNCHANGED status
  BY <1>1
<1>2. ASSUME NEW c \in Commands,
             AdmitCheck(c) \/ CancelRead(c) \/ RequestCancel(c) \/
             CancelOwned(c) \/ CancelFails(c) \/ RecoverCleanup(c)
      PROVE  UNCHANGED status
  BY <1>2 DEF AdmitCheck, CancelRead, RequestCancel, CancelOwned,
     CancelFails, RecoverCleanup
<1>3. ASSUME NEW w \in Workers,
             ExecuteBegin(w) \/ RecordCancelCleanup(w) \/ DispatchEnd(w) \/
             PushAfterSuccess(w) \/ FinalCancelCheck(w) \/ WriteSidecar(w)
             \/ RemoveSidecar(w) \/ FlushLog(w) \/ PostExecutionCheck(w) \/
             Unregister(w)
      PROVE  UNCHANGED status
  BY <1>3 DEF ExecuteBegin, RecordCancelCleanup, DispatchEnd,
     PushAfterSuccess, FinalCancelCheck, WriteSidecar, RemoveSidecar,
     FlushLog, PostExecutionCheck, Unregister
<1>4. ASSUME NEW p \in Closes,
             CloseRead(p) \/ CloseMark(p) \/ CloseBusyCheck(p) \/
             CloseDelete(p) \/ CloseForce(p) \/ CloseForget(p) \/
             CloseFails(p)
      PROVE  UNCHANGED status
  BY <1>4 DEF CloseRead, CloseMark, CloseBusyCheck, CloseDelete,
     CloseForce, CloseForget, CloseFails
<1>5. ASSUME Crash \/ BootRestore \/ BootSidecarsDone \/ BootStop \/
             BootRefuse \/ BootDrain \/ StartWorkers
      PROVE  UNCHANGED status
  BY <1>5 DEF Crash, BootRestore, BootSidecarsDone, BootStop, BootRefuse,
     BootDrain, StartWorkers
<1>6. ASSUME NEW c \in Commands, EnqueueCommand(c)
      PROVE  OneRunning'
  BY <1>6 DEF EnqueueCommand, Works, Fails
<1>7. ASSUME NEW w \in Workers, ClaimNextCommand(w)
      PROVE  OneRunning'
  BY <1>7 DEF ClaimNextCommand, IsNext, Claimable
<1>8. ASSUME NEW w \in Workers, PersistRow(w)
      PROVE  OneRunning'
  BY <1>8 DEF PersistRow, Works, Fails
<1>9. ASSUME NEW c \in Commands, CancelIfQueued(c)
      PROVE  OneRunning'
  <2>1. UNCHANGED status \/ status' = [status EXCEPT ![c] = "cancelled"]
    BY <1>9, Zenon DEF CancelIfQueued
  <2> QED
    BY <2>1
<1>10. ASSUME NEW c \in Commands, CancelUnowned(c)
      PROVE  OneRunning'
  BY <1>10 DEF CancelUnowned
<1>11. ASSUME NEW p \in Closers, NEW s \in Sessions, HandleCloseSession(p, s)
      PROVE  OneRunning'
  BY <1>11 DEF HandleCloseSession, CGoto
<1>12. ASSUME NEW p \in Closes, CloseCancelQueued(p)
      PROVE  OneRunning'
  BY <1>12 DEF CloseCancelQueued, CGoto
<1>13. ASSUME NEW c \in Commands, BootSidecar(c)
      PROVE  OneRunning'
  BY <1>13 DEF BootSidecar, Works, Fails
<1>14. CASE BootCancelled
  BY <1>14 DEF BootCancelled, Works, Fails
<1>15. CASE BootRecover
  BY <1>15 DEF BootRecover, Works, Fails
<1> QED
  BY <1>1, <1>2, <1>3, <1>4, <1>5, <1>6, <1>7, <1>8, <1>9, <1>10, <1>11,
     <1>12, <1>13, <1>14, <1>15
     DEF Next, WorkerStep, CancelStep, CloseStep, BootStep, vars

-----------------------------------------------------------------------------
(* The theorems *)

\* The fresh daemon satisfies the invariant.
LEMMA InitIInv == Init => IInv
<1> SUFFICES ASSUME Init PROVE IInv
  OBVIOUS
<1> USE QueueAssumption DEF Init
<1>1. TypeOK
  BY DEF TypeOK, DiskType, WorkerType, HandlerType, DaemonType, WorkerPcs,
         Phases, Attempts, Statuses, Terminal
<1>2. WorkerOK /\ CloseOK /\ PhaseOK /\ CancelOK /\ OneRunning
  BY DEF WorkerOK, CloseOK, PhaseOK, CancelOK, OneRunning
<1> QED
  BY <1>1, <1>2 DEF IInv

\* Every step of the daemon, its handlers and its workers preserves it.
LEMMA NextIInv == IInv /\ [Next]_vars => IInv'
BY DiskTypeStep, WorkerTypeStep, HandlerTypeStep, DaemonTypeStep,
   WorkerOKStep, CloseOKStep, PhaseOKStep, CancelOKStep, OneRunningStep
   DEF IInv, TypeOK

\* The invariant holds in every reachable state.
THEOREM InductiveInvariant == Spec => []IInv
BY InitIInv, NextIInv, PTL DEF Spec

\* Every variable keeps its type: in particular publish never stores a status
\* that is not terminal, in the row, the sidecar or the log.
THEOREM TypeCorrect == Spec => []TypeOK
<1>1. IInv => TypeOK
  BY DEF IInv
<1> QED
  BY <1>1, InductiveInvariant, PTL

\* Two commands of one session never run at the same time.
THEOREM SessionsRunOneCommand == Spec => []OneRunning
<1>1. IInv => OneRunning
  BY DEF IInv
<1> QED
  BY <1>1, InductiveInvariant, PTL

\* A command with a cancellation marker is never queued again, however often
\* the daemon crashes and whichever writes fail.
THEOREM CancelIsFinal == Spec => []CancelNeverRequeued
<1>1. IInv => CancelNeverRequeued
  BY DEF IInv, CancelOK, CancelNeverRequeued
<1> QED
  BY <1>1, InductiveInvariant, PTL

-----------------------------------------------------------------------------
(* One outcome per command *)

\* The sidecar on disk is one of the attempt the row shows.
Recorded(c) == sidecar[c].attempt = attempt[c]

\* The control points before publish, and the ones after the row's write.
Unpublished == {"claimed", "dispatched", "push", "check", "sidecar"}
Published == {"remove", "post", "closing", "unregister"}

\* A command is held by one worker, whose token keeps cancel_or away from the
\* row: until the worker writes it the row is `running`, and afterwards it is
\* what the worker wrote, or still `running` if that write failed.
WorkerOwns ==
  /\ \A w \in Workers : wpc[w] = "idle" => wcmd[w] = NoCmd
  /\ \A v, w \in Workers : wcmd[v] = wcmd[w] /\ wcmd[w] # NoCmd => v = w
  /\ \A w \in Workers : wcmd[w] # NoCmd =>
       /\ token[wcmd[w]] # "none"
       /\ wpc[w] \in Unpublished \cup {"row"} => status[wcmd[w]] = "running"
       /\ wpc[w] \in Published => status[wcmd[w]] \in {"running", wout[w]}
       /\ wpc[w] = "remove" => status[wcmd[w]] = wout[w]

\* A sidecar never runs ahead of its row, no waiting command has one of its
\* current attempt, and the one a running row has says what its worker is
\* about to write, or could not write.  Bootstrap has used up all of them
\* when it looks at the markers.
SidecarAgrees ==
  /\ \A c \in Commands :
       /\ sidecar[c].attempt <= attempt[c]
       /\ status[c] \in {"none", "queued"} => ~ Recorded(c)
       /\ phase \in {"cancelled", "recover"} /\ status[c] = "running"
            => ~ Recorded(c)
  /\ \A w \in Workers : wcmd[w] # NoCmd =>
       /\ wpc[w] \in Unpublished => ~ Recorded(wcmd[w])
       /\ Recorded(wcmd[w]) /\ status[wcmd[w]] = "running"
            => sidecar[wcmd[w]].status = wout[w]

\* The pairs of an event log l: none of an attempt after a, one per attempt.
PairsOrdered(l, a) ==
  /\ \A i \in 1 .. Len(l) : l[i].attempt <= a
  /\ \A i, j \in 1 .. Len(l) : l[i].attempt = l[j].attempt => i = j

\* The pair that l has of attempt a, if there is one, says st.
PairsSay(l, a, st) == \A i \in 1 .. Len(l) : l[i].attempt = a => l[i].status = st

\* The log never runs ahead of its row, and has no pair of an attempt that
\* waits or whose worker still has its pair to write.
LogOrdered ==
  /\ \A c \in Commands :
       /\ PairsOrdered(log[c], attempt[c])
       /\ status[c] \in {"none", "queued"} => ~ HasPair(c)
  /\ \A w \in Workers : wcmd[w] # NoCmd =>
       (wpc[w] = "claimed" \/ flush[w] # "none" => ~ HasPair(wcmd[w]))

\* The pair of the current attempt says the outcome that is on disk.  It takes
\* two failures to lose that: of the sidecar's write and of the row's.
LogAgrees ==
  failures <= 1 =>
    /\ \A c \in Commands : PairsSay(log[c], attempt[c], Outcome(c))
    /\ \A w \in Workers : wcmd[w] # NoCmd =>
         /\ wpc[w] = "row" /\ ~ Recorded(wcmd[w]) => failures = 1
         /\ flush[w] = "pending" => Outcome(wcmd[w]) = wout[w]

\* Where the containers of a row's current attempt may be found while nothing
\* failed: under a dispatch, under a row the crash left `running` without a
\* sidecar, or under a cancellation that bootstrap is about to stop.
ContainerKnown(c) ==
  attempt[c] \in live[c] =>
    \/ phase = "up" /\ \E w \in Workers : wcmd[w] = c /\ wpc[w] = "dispatched"
    \/ /\ phase \in {"down", "sidecars", "cancelled", "recover"}
       /\ status[c] = "running" /\ ~ Recorded(c)
    \/ /\ phase \in {"down", "sidecars", "cancelled", "recover", "stop"}
       /\ status[c] = "cancelled" /\ c \in marker

\* Once bootstrap has requeued what the crash left, a row is `running` only
\* in a worker's hands.
RunningHeld(c) ==
  phase \in {"stop", "drain", "cleanup", "up"} /\ status[c] = "running" =>
    \E w \in Workers : wcmd[w] = c /\ wpc[w] \in Unpublished \cup {"row"}

ContainersKnown ==
  /\ \A c \in Commands : \A a \in live[c] : a <= attempt[c]
  /\ failures = 0 => \A c \in Commands : ContainerKnown(c) /\ RunningHeld(c)

OutcomeInv ==
  /\ IInv /\ WorkerOwns /\ SidecarAgrees /\ LogOrdered /\ LogAgrees
  /\ ContainersKnown

-----------------------------------------------------------------------------
(* Facts the steps need again and again *)

\* A command in a worker's hands is running, or ended by that worker.
LEMMA HeldCommand ==
  ASSUME IInv, WorkerOwns, NEW w \in Workers, wcmd[w] # NoCmd
  PROVE  /\ wcmd[w] \in Commands
         /\ status[wcmd[w]] \in {"running"} \cup Terminal
         /\ wpc[w] \in Unpublished \cup {"row"} \cup Published
         /\ phase = "up"
<1>1. wcmd[w] \in Commands /\ wpc[w] \in WorkerPcs /\ wpc[w] # "idle"
  BY DEF IInv, TypeOK, WorkerType, WorkerOwns, PhaseOK
<1>2. wpc[w] \in Unpublished \cup {"row"} \cup Published
  BY <1>1 DEF WorkerPcs, Unpublished, Published
<1>3. wpc[w] \in Published => wout[w] \in Terminal
  BY <1>1 DEF IInv, WorkerOK, Published
<1>4. phase = "up"
  BY <1>1 DEF IInv, PhaseOK
<1> QED
  BY <1>1, <1>2, <1>3, <1>4 DEF WorkerOwns

\* A worker at work has a command, and after its dispatch an outcome.
LEMMA BusyWorker ==
  ASSUME IInv, WorkerOwns, SidecarAgrees, NEW w \in Workers, wpc[w] # "idle"
  PROVE  /\ wcmd[w] \in Commands /\ wcmd[w] # NoCmd
         /\ wpc[w] \notin {"claimed", "dispatched"} => wout[w] \in Terminal
         /\ wpc[w] \in Unpublished \cup {"row"} => status[wcmd[w]] = "running"
         /\ wpc[w] \in Unpublished => ~ Recorded(wcmd[w])
         /\ wpc[w] = "remove" => status[wcmd[w]] = wout[w]
         /\ Recorded(wcmd[w]) /\ status[wcmd[w]] = "running"
              => sidecar[wcmd[w]].status = wout[w]
<1>1. wcmd[w] \in Commands /\ wcmd[w] # NoCmd
  BY QueueAssumption DEF IInv, WorkerOK
<1> QED
  BY <1>1 DEF IInv, WorkerOK, WorkerOwns, SidecarAgrees

\* Attempts are counted from 1; only the absent sidecar names attempt 0.
LEMMA AttemptNumbers ==
  ASSUME DiskType, NEW c \in Commands
  PROVE  /\ attempt[c] \in Nat /\ attempt[c] > 0
         /\ sidecar[c].attempt \in Nat
<1>1. attempt[c] \in Nat \ {0} /\ sidecar[c] \in Completion \cup {NoSidecar}
  BY DEF DiskType, Attempts
<1> QED
  BY <1>1 DEF Completion, NoSidecar, Attempts

\* Ending a command of the queue touches no command a worker holds.
LEMMA QueueEnds ==
  ASSUME IInv, WorkerOwns,
         \A d \in Commands : status[d] = "queued" \/ status'[d] = status[d],
         UNCHANGED <<wpc, wcmd, token, wout>>
  PROVE  WorkerOwns'
<1>1. \A w \in Workers : wcmd[w] # NoCmd => status'[wcmd[w]] = status[wcmd[w]]
  BY HeldCommand DEF Terminal
<1> QED
  BY <1>1 DEF WorkerOwns

-----------------------------------------------------------------------------
(* Who may write a row, and what its sidecar says *)

\* Only its worker, or nobody's cancel, moves the row of a running command.
LEMMA WorkerOwnsStep ==
  ASSUME IInv, WorkerOwns, [Next]_vars
  PROVE  WorkerOwns'
<1> USE QueueAssumption DEF IInv, TypeOK, DiskType, WorkerType, DaemonType,
        WorkerOK, PhaseOK, CancelOK, WorkerOwns, Unpublished, Published,
        Terminal, Statuses, WorkerPcs, disk, worker, daemon, handlers, bounds
<1>1. CASE UNCHANGED <<wpc, wcmd, token, status, wout>>
  BY <1>1
<1>2. ASSUME NEW c \in Commands,
             AdmitCheck(c) \/ CancelRead(c) \/ RequestCancel(c) \/
             CancelFails(c) \/ RecoverCleanup(c)
      PROVE  UNCHANGED <<wpc, wcmd, token, status, wout>>
  BY <1>2 DEF AdmitCheck, CancelRead, RequestCancel, CancelFails, RecoverCleanup
<1>3. ASSUME NEW w \in Workers,
             RecordCancelCleanup(w) \/ FlushLog(w)
      PROVE  UNCHANGED <<wpc, wcmd, token, status, wout>>
  BY <1>3 DEF RecordCancelCleanup, FlushLog
<1>4. ASSUME NEW p \in Closers, NEW s \in Sessions,
             HandleCloseSession(p, s)
      PROVE  UNCHANGED <<wpc, wcmd, token, status, wout>>
  BY <1>4 DEF HandleCloseSession
<1>5. ASSUME NEW p \in Closes,
             CloseRead(p) \/ CloseMark(p) \/ CloseBusyCheck(p) \/
             CloseDelete(p) \/ CloseForce(p) \/ CloseForget(p) \/
             CloseFails(p)
      PROVE  UNCHANGED <<wpc, wcmd, token, status, wout>>
  BY <1>5 DEF CloseRead, CloseMark, CloseBusyCheck, CloseDelete, CloseForce,
     CloseForget, CloseFails
<1>6. ASSUME BootRestore \/ BootSidecarsDone \/ BootStop \/ BootDrain \/
             StartWorkers
      PROVE  UNCHANGED <<wpc, wcmd, token, status, wout>>
  BY <1>6 DEF BootRestore, BootSidecarsDone, BootStop, BootDrain, StartWorkers
<1>7. ASSUME NEW c \in Commands, EnqueueCommand(c)
      PROVE  WorkerOwns'
  BY <1>7 DEF EnqueueCommand, Works, Fails
<1>8. ASSUME NEW w \in Workers, ClaimNextCommand(w)
      PROVE  WorkerOwns'
  <2>1. PICK c \in Commands :
          /\ status[c] = "queued"
          /\ status' = [status EXCEPT ![c] = "running"]
          /\ token' = [token EXCEPT ![c] = IF @ = "none" THEN "live" ELSE @]
          /\ wcmd' = [wcmd EXCEPT ![w] = c]
    BY <1>8 DEF ClaimNextCommand, IsNext, Claimable
  <2>2. wpc[w] = "idle" /\ wpc' = [wpc EXCEPT ![w] = "claimed"] /\ UNCHANGED wout
    BY <1>8 DEF ClaimNextCommand
  <2>3. \A v \in Workers : wcmd[v] # c
    <3>1. c # NoCmd
      BY QueueAssumption
    <3> QED
      BY <2>1, <3>1, HeldCommand DEF Terminal
  <2>4. token'[c] # "none" /\ status'[c] = "running"
    BY <2>1
  <2>5. \A v \in Workers \ {w} : /\ wcmd'[v] = wcmd[v] /\ wpc'[v] = wpc[v]
                                 /\ wcmd[v] # NoCmd =>
                                      /\ token'[wcmd[v]] = token[wcmd[v]]
                                      /\ status'[wcmd[v]] = status[wcmd[v]]
    BY <2>1, <2>2, <2>3
  <2>6. wcmd'[w] = c /\ wpc'[w] = "claimed"
    BY <2>1, <2>2
  <2>7. \A v \in Workers : wpc'[v] = "idle" => wcmd'[v] = NoCmd
    BY <2>5, <2>6
  <2>8. \A u, v \in Workers : wcmd'[u] = wcmd'[v] /\ wcmd'[u] # NoCmd => u = v
    BY <2>3, <2>5, <2>6
  <2>9. ASSUME NEW v \in Workers, wcmd'[v] # NoCmd
        PROVE  /\ token'[wcmd'[v]] # "none"
               /\ wpc'[v] \in Unpublished \cup {"row"} => status'[wcmd'[v]] = "running"
               /\ wpc'[v] \in Published => status'[wcmd'[v]] \in {"running", wout[v]}
               /\ wpc'[v] = "remove" => status'[wcmd'[v]] = wout[v]
    <3>1. CASE v = w
      BY <2>4, <2>6, <3>1
    <3>2. CASE v # w
      BY <2>5, <2>9, <3>2
    <3> QED
      BY <3>1, <3>2
  <2> QED
    BY <2>2, <2>7, <2>8, <2>9
<1>9. ASSUME NEW w \in Workers, ExecuteBegin(w)
      PROVE  WorkerOwns'
  BY <1>9 DEF ExecuteBegin, FailEarly, StartDispatch, Works, Fails
<1>10. ASSUME NEW w \in Workers, DispatchEnd(w)
      PROVE  WorkerOwns'
  BY <1>10 DEF DispatchEnd
<1>11. ASSUME NEW w \in Workers, PushAfterSuccess(w)
      PROVE  WorkerOwns'
  BY <1>11 DEF PushAfterSuccess, Works, Fails
<1>12. ASSUME NEW w \in Workers, FinalCancelCheck(w)
      PROVE  WorkerOwns'
  BY <1>12 DEF FinalCancelCheck, Works, Fails
<1>13. ASSUME NEW w \in Workers, WriteSidecar(w)
      PROVE  WorkerOwns'
  BY <1>13 DEF WriteSidecar, Works, Fails
<1>14. ASSUME NEW w \in Workers, PersistRow(w)
      PROVE  WorkerOwns'
  BY <1>14 DEF PersistRow, Works, Fails
<1>15. ASSUME NEW w \in Workers, RemoveSidecar(w)
      PROVE  WorkerOwns'
  BY <1>15 DEF RemoveSidecar, Works, Fails
<1>16. ASSUME NEW w \in Workers, PostExecutionCheck(w)
      PROVE  WorkerOwns'
  BY <1>16 DEF PostExecutionCheck, ClosesOrReturns
<1>17. ASSUME NEW w \in Workers, Unregister(w)
      PROVE  WorkerOwns'
  BY <1>17 DEF Unregister
<1>18. ASSUME NEW c \in Commands, CancelIfQueued(c)
      PROVE  WorkerOwns'
  <2>1. UNCHANGED <<wpc, wcmd, token, wout>>
    BY <1>18 DEF CancelIfQueued
  <2>2. \A d \in Commands : status[d] = "queued" \/ status'[d] = status[d]
    BY <1>18 DEF CancelIfQueued
  <2> QED
    BY <2>1, <2>2, QueueEnds
<1>19. ASSUME NEW c \in Commands, CancelOwned(c)
      PROVE  WorkerOwns'
  BY <1>19 DEF CancelOwned
<1>20. ASSUME NEW c \in Commands, CancelUnowned(c)
      PROVE  WorkerOwns'
  BY <1>20 DEF CancelUnowned, Works, Fails
<1>21. ASSUME NEW p \in Closes, CloseCancelQueued(p)
      PROVE  WorkerOwns'
  <2>1. UNCHANGED <<wpc, wcmd, token, wout>>
    BY <1>21 DEF CloseCancelQueued
  <2>2. \A d \in Commands : status[d] = "queued" \/ status'[d] = status[d]
    BY <1>21 DEF CloseCancelQueued
  <2> QED
    BY <2>1, <2>2, QueueEnds
<1>22. CASE Crash
  BY <1>22 DEF Crash, LoseDaemon
<1>23. ASSUME NEW c \in Commands, BootSidecar(c)
      PROVE  WorkerOwns'
  BY <1>23 DEF BootSidecar, Works, Fails
<1>24. CASE BootCancelled
  BY <1>24 DEF BootCancelled, Works, Fails
<1>25. CASE BootRecover
  BY <1>25 DEF BootRecover, Works, Fails
<1>26. CASE BootRefuse
  BY <1>26 DEF BootRefuse, LoseDaemon, Fails
<1> QED
  BY <1>1, <1>2, <1>3, <1>4, <1>5, <1>6, <1>7, <1>8, <1>9, <1>10, <1>11,
     <1>12, <1>13, <1>14, <1>15, <1>16, <1>17, <1>18, <1>19, <1>20, <1>21,
     <1>22, <1>23, <1>24, <1>25, <1>26
     DEF Next, WorkerStep, CancelStep, CloseStep, BootStep, vars, disk, worker,
         daemon, handlers, bounds

\* No step leaves a sidecar that says something else than its row will.
LEMMA SidecarAgreesStep ==
  ASSUME IInv, WorkerOwns, SidecarAgrees, [Next]_vars
  PROVE  SidecarAgrees'
<1> USE QueueAssumption DEF IInv, TypeOK, DiskType, WorkerType, DaemonType,
        WorkerOK, PhaseOK, CancelOK, WorkerOwns, SidecarAgrees, Recorded,
        Unpublished, Published, Attempts, NoSidecar, Terminal, Statuses,
        WorkerPcs, disk, worker, daemon, handlers, bounds
<1>1. CASE UNCHANGED <<sidecar, attempt, status, phase, wcmd, wpc, wout>>
  BY <1>1
<1>2. ASSUME NEW c \in Commands,
             AdmitCheck(c) \/ CancelRead(c) \/ RequestCancel(c) \/
             CancelOwned(c) \/ CancelFails(c) \/ RecoverCleanup(c)
      PROVE  UNCHANGED <<sidecar, attempt, status, phase, wcmd, wpc, wout>>
  BY <1>2 DEF AdmitCheck, CancelRead, RequestCancel, CancelOwned, CancelFails,
     RecoverCleanup
<1>3. ASSUME NEW w \in Workers,
             RecordCancelCleanup(w) \/ FlushLog(w)
      PROVE  UNCHANGED <<sidecar, attempt, status, phase, wcmd, wpc, wout>>
  BY <1>3 DEF RecordCancelCleanup, FlushLog
<1>4. ASSUME NEW p \in Closers, NEW s \in Sessions,
             HandleCloseSession(p, s)
      PROVE  UNCHANGED <<sidecar, attempt, status, phase, wcmd, wpc, wout>>
  BY <1>4 DEF HandleCloseSession
<1>5. ASSUME NEW p \in Closes,
             CloseRead(p) \/ CloseMark(p) \/ CloseBusyCheck(p) \/
             CloseDelete(p) \/ CloseForce(p) \/ CloseForget(p) \/
             CloseFails(p)
      PROVE  UNCHANGED <<sidecar, attempt, status, phase, wcmd, wpc, wout>>
  BY <1>5 DEF CloseRead, CloseMark, CloseBusyCheck, CloseDelete, CloseForce,
     CloseForget, CloseFails
<1>6. ASSUME NEW c \in Commands, EnqueueCommand(c)
      PROVE  SidecarAgrees'
  BY <1>6 DEF EnqueueCommand, Works, Fails
<1>7. ASSUME NEW w \in Workers, ClaimNextCommand(w)
      PROVE  SidecarAgrees'
  BY <1>7 DEF ClaimNextCommand, IsNext, Claimable
<1>8. ASSUME NEW w \in Workers, ExecuteBegin(w)
      PROVE  SidecarAgrees'
  BY <1>8 DEF ExecuteBegin, FailEarly, StartDispatch, Works, Fails
<1>9. ASSUME NEW w \in Workers, DispatchEnd(w)
      PROVE  SidecarAgrees'
  BY <1>9 DEF DispatchEnd
<1>10. ASSUME NEW w \in Workers, PushAfterSuccess(w)
      PROVE  SidecarAgrees'
  BY <1>10 DEF PushAfterSuccess, Works, Fails
<1>11. ASSUME NEW w \in Workers, FinalCancelCheck(w)
      PROVE  SidecarAgrees'
  BY <1>11 DEF FinalCancelCheck, Works, Fails
<1>12. ASSUME NEW w \in Workers, WriteSidecar(w)
      PROVE  SidecarAgrees'
  <2>1. wcmd[w] \in Commands /\ \A v \in Workers : wcmd[v] = wcmd[w] => v = w
    BY <1>12 DEF WriteSidecar
  <2>2. /\ wpc[w] = "sidecar" /\ wpc' = [wpc EXCEPT ![w] = "row"]
        /\ UNCHANGED <<attempt, status, phase, wcmd, wout>>
    BY <1>12 DEF WriteSidecar
  <2>3. CASE UNCHANGED sidecar
    BY <2>1, <2>2, <2>3
  <2>4. CASE sidecar' = [sidecar EXCEPT ![wcmd[w]] =
                           [attempt |-> attempt[wcmd[w]], status |-> wout[w]]]
    <3>1. /\ sidecar'[wcmd[w]].attempt = attempt[wcmd[w]]
          /\ sidecar'[wcmd[w]].status = wout[w]
          /\ status[wcmd[w]] = "running"
      BY <2>1, <2>2, <2>4
    <3>2. \A d \in Commands : d # wcmd[w] => sidecar'[d] = sidecar[d]
      BY <2>4
    <3>3. phase = "up"
      BY <2>2
    <3>4. ASSUME NEW d \in Commands
          PROVE  /\ sidecar'[d].attempt <= attempt[d]
                 /\ status[d] \in {"none", "queued"} => sidecar'[d].attempt # attempt[d]
      <4>1. attempt[d] \in Nat /\ sidecar[d].attempt <= attempt[d]
        BY AttemptNumbers
      <4>2. CASE d = wcmd[w]
        BY <3>1, <4>1, <4>2
      <4>3. CASE d # wcmd[w]
        BY <3>2, <4>1, <4>3
      <4> QED
        BY <4>2, <4>3
    <3>5. ASSUME NEW v \in Workers, wcmd[v] # NoCmd
          PROVE  /\ wpc'[v] \in Unpublished => sidecar'[wcmd[v]].attempt # attempt[wcmd[v]]
                 /\ sidecar'[wcmd[v]].attempt = attempt[wcmd[v]]
                      /\ status[wcmd[v]] = "running"
                    => sidecar'[wcmd[v]].status = wout[v]
      <4>1. CASE v = w
        BY <2>2, <3>1, <4>1
      <4>2. CASE v # w
        <5>1. wcmd[v] \in Commands \ {wcmd[w]} /\ wpc'[v] = wpc[v]
          BY <2>1, <2>2, <3>5, <4>2
        <5>2. sidecar'[wcmd[v]] = sidecar[wcmd[v]]
          BY <3>2, <5>1
        <5> QED
          BY <3>5, <5>1, <5>2
      <4> QED
        BY <4>1, <4>2
    <3> QED
      BY <2>2, <3>3, <3>4, <3>5
  <2> QED
    BY <1>12, <2>3, <2>4 DEF WriteSidecar
<1>13. ASSUME NEW w \in Workers, PersistRow(w)
      PROVE  SidecarAgrees'
  <2>1. wcmd[w] \in Commands /\ \A v \in Workers : wcmd[v] = wcmd[w] => v = w
    BY <1>13 DEF PersistRow
  <2>2. /\ wpc[w] = "row" /\ wout[w] \in Terminal
        /\ wpc' = [wpc EXCEPT ![w] = "remove"] \/ wpc' = [wpc EXCEPT ![w] = "post"]
        /\ UNCHANGED <<attempt, sidecar, phase, wcmd, wout>>
    BY <1>13 DEF PersistRow
  <2>3. UNCHANGED status \/ status' = [status EXCEPT ![wcmd[w]] = wout[w]]
    BY <1>13 DEF PersistRow
  <2>4. \A d \in Commands : status'[d] \in {"none", "queued", "running"}
                              => status'[d] = status[d]
    BY <2>2, <2>3
  <2>5. \A v \in Workers : wpc'[v] \in Unpublished => wpc[v] \in Unpublished
    BY <2>2
  <2> QED
    BY <2>2, <2>4, <2>5
<1>14. ASSUME NEW w \in Workers, RemoveSidecar(w)
      PROVE  SidecarAgrees'
  <2>1. wcmd[w] \in Commands /\ \A v \in Workers : wcmd[v] = wcmd[w] => v = w
    BY <1>14 DEF RemoveSidecar
  <2>2. /\ wpc[w] = "remove" /\ wpc' = [wpc EXCEPT ![w] = "post"]
        /\ UNCHANGED <<attempt, status, phase, wcmd, wout>>
    BY <1>14 DEF RemoveSidecar
  <2>3. \A d \in Commands : sidecar'[d] = sidecar[d] \/ sidecar'[d].attempt = 0
    BY <1>14 DEF RemoveSidecar
  <2>4. \A d \in Commands : Recorded(d)' => sidecar'[d] = sidecar[d]
    BY <2>2, <2>3
  <2>5. ASSUME NEW d \in Commands
        PROVE  sidecar'[d].attempt <= attempt[d]
    <3>1. /\ attempt[d] \in Nat /\ attempt[d] > 0
          /\ sidecar[d].attempt <= attempt[d]
      BY AttemptNumbers
    <3>2. CASE sidecar'[d] = sidecar[d]
      BY <3>1, <3>2
    <3>3. CASE sidecar'[d].attempt = 0
      BY <3>1, <3>3
    <3> QED
      BY <2>3, <3>2, <3>3
  <2>6. \A v \in Workers : wpc'[v] \in Unpublished => wpc[v] \in Unpublished
    BY <2>2
  <2> QED
    BY <2>2, <2>4, <2>5, <2>6
<1>15. ASSUME NEW w \in Workers, PostExecutionCheck(w)
      PROVE  SidecarAgrees'
  BY <1>15 DEF PostExecutionCheck, ClosesOrReturns
<1>16. ASSUME NEW w \in Workers, Unregister(w)
      PROVE  SidecarAgrees'
  BY <1>16 DEF Unregister
<1>17. ASSUME NEW c \in Commands, CancelIfQueued(c)
      PROVE  SidecarAgrees'
  BY <1>17 DEF CancelIfQueued, Works, Fails
<1>18. ASSUME NEW c \in Commands, CancelUnowned(c)
      PROVE  SidecarAgrees'
  BY <1>18 DEF CancelUnowned, Works, Fails
<1>19. ASSUME NEW p \in Closes, CloseCancelQueued(p)
      PROVE  SidecarAgrees'
  BY <1>19 DEF CloseCancelQueued, CommandsOf
<1>20. CASE Crash
  BY <1>20 DEF Crash, LoseDaemon
<1>21. CASE BootRestore
  BY <1>21 DEF BootRestore
<1>22. ASSUME NEW c \in Commands, BootSidecar(c)
      PROVE  SidecarAgrees'
  BY <1>22 DEF BootSidecar, Works, Fails
<1>23. CASE BootSidecarsDone
  BY <1>23 DEF BootSidecarsDone
<1>24. CASE BootCancelled
  BY <1>24 DEF BootCancelled, Works, Fails
<1>25. CASE BootRecover
  <2>1. CASE UNCHANGED <<status, attempt>>
    BY <1>25, <2>1 DEF BootRecover
  <2>2. CASE /\ status' = [c \in Commands |-> IF status[c] = "running" THEN "queued"
                                              ELSE status[c]]
             /\ attempt' = [c \in Commands |-> IF status[c] = "running"
                                               THEN attempt[c] + 1 ELSE attempt[c]]
    <3>1. UNCHANGED <<sidecar, wcmd, wpc, wout>> /\ phase = "recover" /\ phase' = "stop"
      BY <1>25 DEF BootRecover
    <3>2. \A w \in Workers : wcmd[w] = NoCmd
      BY <3>1
    <3>3. \A c \in Commands : /\ sidecar'[c].attempt <= attempt'[c]
                              /\ status'[c] \in {"none", "queued"} => ~ Recorded(c)'
      BY <2>2, <3>1, AttemptNumbers
    <3> QED
      BY <3>1, <3>2, <3>3
  <2> QED
    BY <1>25, <2>1, <2>2 DEF BootRecover
<1>26. CASE BootStop
  BY <1>26 DEF BootStop
<1>27. CASE BootRefuse
  BY <1>27 DEF BootRefuse, LoseDaemon, Fails
<1>28. CASE BootDrain
  BY <1>28 DEF BootDrain, Works, Fails
<1>29. CASE StartWorkers
  BY <1>29 DEF StartWorkers
<1> QED
  BY <1>1, <1>2, <1>3, <1>4, <1>5, <1>6, <1>7, <1>8, <1>9, <1>10, <1>11,
     <1>12, <1>13, <1>14, <1>15, <1>16, <1>17, <1>18, <1>19, <1>20, <1>21,
     <1>22, <1>23, <1>24, <1>25, <1>26, <1>27, <1>28, <1>29
     DEF Next, WorkerStep, CancelStep, CloseStep, BootStep, vars, disk, worker,
         daemon, handlers, bounds

-----------------------------------------------------------------------------
(* What a step does to one worker and the command it holds *)

\* The worker and the row, sidecar and log of its command stay as they are.
Undisturbed(w) ==
  /\ wpc'[w] = wpc[w] /\ wcmd'[w] = wcmd[w] /\ wout'[w] = wout[w]
  /\ flush'[w] = flush[w]
  /\ wcmd[w] # NoCmd =>
       /\ status'[wcmd[w]] = status[wcmd[w]] /\ log'[wcmd[w]] = log[wcmd[w]]
       /\ attempt'[wcmd[w]] = attempt[wcmd[w]]
       /\ sidecar'[wcmd[w]] = sidecar[wcmd[w]]

\* The worker died with the daemon; what is on disk stays.
Lost(w) ==
  /\ wpc'[w] = "idle" /\ wcmd'[w] = NoCmd /\ phase' = "down"
  /\ UNCHANGED disk


\* Nobody but the worker touches what it holds.
LEMMA WorkerView ==
  ASSUME IInv, WorkerOwns, [Next]_vars, NEW w \in Workers
  PROVE  WorkerStep(w) \/ Lost(w) \/ Undisturbed(w)
<1> USE DEF IInv, TypeOK, DiskType, WorkerType, disk, worker, daemon,
        handlers, bounds
<1>1. CASE UNCHANGED <<wpc, wcmd, wout, flush, status, attempt, sidecar, log>>
  BY <1>1 DEF Undisturbed
<1>2. ASSUME NEW c \in Commands,
             AdmitCheck(c) \/ CancelRead(c) \/ RequestCancel(c) \/
             CancelOwned(c) \/ CancelFails(c) \/ RecoverCleanup(c)
      PROVE  UNCHANGED <<wpc, wcmd, wout, flush, status, attempt, sidecar,
                           log>>
  BY <1>2 DEF AdmitCheck, CancelRead, RequestCancel, CancelOwned, CancelFails,
     RecoverCleanup
<1>3. ASSUME NEW v \in Workers,
             RecordCancelCleanup(v)
      PROVE  UNCHANGED <<wpc, wcmd, wout, flush, status, attempt, sidecar,
                           log>>
  BY <1>3 DEF RecordCancelCleanup
<1>4. ASSUME NEW p \in Closers, NEW s \in Sessions,
             HandleCloseSession(p, s)
      PROVE  UNCHANGED <<wpc, wcmd, wout, flush, status, attempt, sidecar,
                           log>>
  BY <1>4 DEF HandleCloseSession
<1>5. ASSUME NEW p \in Closes,
             CloseRead(p) \/ CloseMark(p) \/ CloseBusyCheck(p) \/
             CloseDelete(p) \/ CloseForce(p) \/ CloseForget(p) \/
             CloseFails(p)
      PROVE  UNCHANGED <<wpc, wcmd, wout, flush, status, attempt, sidecar,
                           log>>
  BY <1>5 DEF CloseRead, CloseMark, CloseBusyCheck, CloseDelete, CloseForce,
     CloseForget, CloseFails
<1>6. ASSUME BootRestore \/ BootSidecarsDone \/ BootStop \/ StartWorkers
      PROVE  UNCHANGED <<wpc, wcmd, wout, flush, status, attempt, sidecar,
                           log>>
  BY <1>6 DEF BootRestore, BootSidecarsDone, BootStop, StartWorkers
<1>7. ASSUME NEW c \in Commands, EnqueueCommand(c)
      PROVE  WorkerStep(w) \/ Lost(w) \/ Undisturbed(w)
  <2>1. wcmd[w] # NoCmd => wcmd[w] # c
    BY <1>7, HeldCommand DEF EnqueueCommand, CancelOK, Terminal
  <2> QED
    BY <1>7, <2>1 DEF EnqueueCommand, Undisturbed
<1>8. ASSUME NEW v \in Workers, ClaimNextCommand(v)
      PROVE  WorkerStep(w) \/ Lost(w) \/ Undisturbed(w)
  <2>1. CASE v = w
    BY <1>8, <2>1 DEF WorkerStep
  <2>2. CASE v # w
    <3>1. PICK c \in Commands : /\ status[c] = "queued"
                                /\ status' = [status EXCEPT ![c] = "running"]
                                /\ wcmd' = [wcmd EXCEPT ![v] = c]
      BY <1>8 DEF ClaimNextCommand, IsNext, Claimable
    <3>2. wcmd[w] # NoCmd => wcmd[w] # c
      BY <3>1, HeldCommand DEF Terminal
    <3> QED
      BY <1>8, <2>2, <3>1, <3>2 DEF ClaimNextCommand, Undisturbed
  <2> QED
    BY <2>1, <2>2
<1>9. ASSUME NEW v \in Workers, ExecuteBegin(v)
      PROVE  WorkerStep(w) \/ Lost(w) \/ Undisturbed(w)
  <2>1. CASE v = w
    BY <1>9, <2>1 DEF WorkerStep
  <2>2. CASE v # w
    <3>1. wcmd[v] # NoCmd /\ wcmd[v] \in Commands /\ wcmd[v] # wcmd[w]
      BY <1>9, <2>2, QueueAssumption DEF ExecuteBegin, WorkerOK, WorkerOwns
    <3> QED
      BY <1>9, <2>2, <3>1 DEF ExecuteBegin, FailEarly, StartDispatch, Undisturbed
  <2> QED
    BY <2>1, <2>2
<1>10. ASSUME NEW v \in Workers, DispatchEnd(v)
      PROVE  WorkerStep(w) \/ Lost(w) \/ Undisturbed(w)
  <2>1. CASE v = w
    BY <1>10, <2>1 DEF WorkerStep
  <2>2. CASE v # w
    <3>1. wcmd[v] # NoCmd /\ wcmd[v] \in Commands /\ wcmd[v] # wcmd[w]
      BY <1>10, <2>2, QueueAssumption DEF DispatchEnd, WorkerOK, WorkerOwns
    <3> QED
      BY <1>10, <2>2, <3>1 DEF DispatchEnd, Undisturbed
  <2> QED
    BY <2>1, <2>2
<1>11. ASSUME NEW v \in Workers, PushAfterSuccess(v)
      PROVE  WorkerStep(w) \/ Lost(w) \/ Undisturbed(w)
  <2>1. CASE v = w
    BY <1>11, <2>1 DEF WorkerStep
  <2>2. CASE v # w
    <3>1. wcmd[v] # NoCmd /\ wcmd[v] \in Commands /\ wcmd[v] # wcmd[w]
      BY <1>11, <2>2, QueueAssumption DEF PushAfterSuccess, WorkerOK, WorkerOwns
    <3> QED
      BY <1>11, <2>2, <3>1 DEF PushAfterSuccess, Undisturbed
  <2> QED
    BY <2>1, <2>2
<1>12. ASSUME NEW v \in Workers, FinalCancelCheck(v)
      PROVE  WorkerStep(w) \/ Lost(w) \/ Undisturbed(w)
  <2>1. CASE v = w
    BY <1>12, <2>1 DEF WorkerStep
  <2>2. CASE v # w
    <3>1. wcmd[v] # NoCmd /\ wcmd[v] \in Commands /\ wcmd[v] # wcmd[w]
      BY <1>12, <2>2, QueueAssumption DEF FinalCancelCheck, WorkerOK, WorkerOwns
    <3> QED
      BY <1>12, <2>2, <3>1 DEF FinalCancelCheck, Undisturbed
  <2> QED
    BY <2>1, <2>2
<1>13. ASSUME NEW v \in Workers, WriteSidecar(v)
      PROVE  WorkerStep(w) \/ Lost(w) \/ Undisturbed(w)
  <2>1. CASE v = w
    BY <1>13, <2>1 DEF WorkerStep
  <2>2. CASE v # w
    <3>1. wcmd[v] # NoCmd /\ wcmd[v] \in Commands /\ wcmd[v] # wcmd[w]
      BY <1>13, <2>2, QueueAssumption DEF WriteSidecar, WorkerOK, WorkerOwns
    <3> QED
      BY <1>13, <2>2, <3>1 DEF WriteSidecar, Undisturbed
  <2> QED
    BY <2>1, <2>2
<1>14. ASSUME NEW v \in Workers, PersistRow(v)
      PROVE  WorkerStep(w) \/ Lost(w) \/ Undisturbed(w)
  <2>1. CASE v = w
    BY <1>14, <2>1 DEF WorkerStep
  <2>2. CASE v # w
    <3>1. wcmd[v] # NoCmd /\ wcmd[v] \in Commands /\ wcmd[v] # wcmd[w]
      BY <1>14, <2>2, QueueAssumption DEF PersistRow, WorkerOK, WorkerOwns
    <3> QED
      BY <1>14, <2>2, <3>1 DEF PersistRow, Undisturbed
  <2> QED
    BY <2>1, <2>2
<1>15. ASSUME NEW v \in Workers, RemoveSidecar(v)
      PROVE  WorkerStep(w) \/ Lost(w) \/ Undisturbed(w)
  <2>1. CASE v = w
    BY <1>15, <2>1 DEF WorkerStep
  <2>2. CASE v # w
    <3>1. wcmd[v] # NoCmd /\ wcmd[v] \in Commands /\ wcmd[v] # wcmd[w]
      BY <1>15, <2>2, QueueAssumption DEF RemoveSidecar, WorkerOK, WorkerOwns
    <3> QED
      BY <1>15, <2>2, <3>1 DEF RemoveSidecar, Undisturbed
  <2> QED
    BY <2>1, <2>2
<1>16. ASSUME NEW v \in Workers, FlushLog(v)
      PROVE  WorkerStep(w) \/ Lost(w) \/ Undisturbed(w)
  <2>1. CASE v = w
    BY <1>16, <2>1 DEF WorkerStep
  <2>2. CASE v # w
    <3>1. wcmd[v] # NoCmd /\ wcmd[v] \in Commands /\ wcmd[v] # wcmd[w]
      BY <1>16, <2>2, QueueAssumption DEF FlushLog, WorkerOK, WorkerOwns
    <3> QED
      BY <1>16, <2>2, <3>1 DEF FlushLog, Undisturbed
  <2> QED
    BY <2>1, <2>2
<1>17. ASSUME NEW v \in Workers, PostExecutionCheck(v)
      PROVE  WorkerStep(w) \/ Lost(w) \/ Undisturbed(w)
  <2>1. CASE v = w
    BY <1>17, <2>1 DEF WorkerStep
  <2>2. CASE v # w
    <3>1. wcmd[v] # NoCmd /\ wcmd[v] \in Commands /\ wcmd[v] # wcmd[w]
      BY <1>17, <2>2, QueueAssumption DEF PostExecutionCheck, WorkerOK, WorkerOwns
    <3> QED
      BY <1>17, <2>2, <3>1 DEF PostExecutionCheck, ClosesOrReturns,
         Undisturbed
  <2> QED
    BY <2>1, <2>2
<1>18. ASSUME NEW v \in Workers, Unregister(v)
      PROVE  WorkerStep(w) \/ Lost(w) \/ Undisturbed(w)
  <2>1. CASE v = w
    BY <1>18, <2>1 DEF WorkerStep
  <2>2. CASE v # w
    <3>1. wcmd[v] # NoCmd /\ wcmd[v] \in Commands /\ wcmd[v] # wcmd[w]
      BY <1>18, <2>2, QueueAssumption DEF Unregister, WorkerOK, WorkerOwns
    <3> QED
      BY <1>18, <2>2, <3>1 DEF Unregister, Undisturbed
  <2> QED
    BY <2>1, <2>2
<1>19. ASSUME NEW c \in Commands, CancelIfQueued(c)
      PROVE  WorkerStep(w) \/ Lost(w) \/ Undisturbed(w)
  <2>1. UNCHANGED <<worker, attempt, sidecar>>
    BY <1>19 DEF CancelIfQueued
  <2>2. CASE status[c] = "queued"
    <3>1. wcmd[w] # NoCmd => wcmd[w] \in Commands \ {c}
      BY <2>2, HeldCommand DEF Terminal
    <3>2. \A d \in Commands \ {c} : status'[d] = status[d] /\ log'[d] = log[d]
      BY <1>19 DEF CancelIfQueued
    <3> QED
      BY <2>1, <3>1, <3>2 DEF Undisturbed
  <2>3. CASE status[c] # "queued"
    <3>1. UNCHANGED <<status, log>>
      BY <1>19, <2>3 DEF CancelIfQueued
    <3> QED
      BY <2>1, <3>1 DEF Undisturbed
  <2> QED
    BY <2>2, <2>3
<1>20. ASSUME NEW c \in Commands, CancelUnowned(c)
      PROVE  WorkerStep(w) \/ Lost(w) \/ Undisturbed(w)
  <2>1. wcmd[w] # NoCmd => wcmd[w] \in Commands \ {c}
    BY <1>20, HeldCommand DEF CancelUnowned, WorkerOwns
  <2>2. \A d \in Commands \ {c} : /\ status'[d] = status[d] /\ log'[d] = log[d]
                                  /\ sidecar'[d] = sidecar[d]
    BY <1>20 DEF CancelUnowned
  <2> QED
    BY <1>20, <2>1, <2>2 DEF CancelUnowned, Undisturbed
<1>21. ASSUME NEW p \in Closes, CloseCancelQueued(p)
      PROVE  WorkerStep(w) \/ Lost(w) \/ Undisturbed(w)
  <2>1. wcmd[w] # NoCmd => status'[wcmd[w]] = status[wcmd[w]]
    BY <1>21, HeldCommand DEF CloseCancelQueued, Terminal
  <2> QED
    BY <1>21, <2>1 DEF CloseCancelQueued, Undisturbed
<1>22. CASE Crash
  BY <1>22 DEF Crash, LoseDaemon, Lost
<1>23. ASSUME NEW c \in Commands, BootSidecar(c)
      PROVE  WorkerStep(w) \/ Lost(w) \/ Undisturbed(w)
  <2>1. wcmd[w] = NoCmd
    BY <1>23, HeldCommand DEF BootSidecar
  <2> QED
    BY <1>23, <2>1 DEF BootSidecar, Undisturbed
<1>24. CASE BootCancelled
  <2>1. wcmd[w] = NoCmd
    BY <1>24, HeldCommand DEF BootCancelled
  <2> QED
    BY <1>24, <2>1 DEF BootCancelled, Undisturbed
<1>25. CASE BootRecover
  <2>1. wcmd[w] = NoCmd
    BY <1>25, HeldCommand DEF BootRecover
  <2> QED
    BY <1>25, <2>1 DEF BootRecover, Undisturbed
<1>26. CASE BootRefuse
  BY <1>26 DEF BootRefuse, LoseDaemon, Lost
<1>27. CASE BootDrain
  <2>1. wcmd[w] = NoCmd
    BY <1>27, HeldCommand DEF BootDrain
  <2> QED
    BY <1>27, <2>1 DEF BootDrain, Undisturbed
<1> QED
  BY <1>1, <1>2, <1>3, <1>4, <1>5, <1>6, <1>7, <1>8, <1>9, <1>10, <1>11,
     <1>12, <1>13, <1>14, <1>15, <1>16, <1>17, <1>18, <1>19, <1>20, <1>21,
     <1>22, <1>23, <1>24, <1>25, <1>26, <1>27
     DEF Next, WorkerStep, CancelStep, CloseStep, BootStep, vars, disk, worker,
         daemon, handlers, bounds

-----------------------------------------------------------------------------
(* The refinement of CommandLifecycle *)

\* A command whose row and sidecar a step leaves alone is in the same place.
LEMMA SameOutcome ==
  ASSUME NEW c \in Commands, status'[c] = status[c], attempt'[c] = attempt[c],
         sidecar'[c] = sidecar[c]
  PROVE  Outcome(c)' = Outcome(c)
BY DEF Outcome

\* An outcome is terminal, or there is none.
LEMMA OutcomeType ==
  ASSUME DiskType, NEW c \in Commands
  PROVE  /\ Outcome(c) \in Terminal \cup {"none"}
         /\ status[c] \in {"none", "queued"} => Outcome(c) = "none"
         /\ status[c] \in Terminal => Outcome(c) = status[c]
         /\ status[c] = "running" /\ ~ Recorded(c) => Outcome(c) = "none"
         /\ status[c] = "running" /\ Recorded(c) => Outcome(c) = sidecar[c].status
BY SidecarOutcome DEF Outcome, Recorded, Terminal


\* Every command takes a step of its lifecycle, or none.
LEMMA StepImplements ==
  ASSUME OutcomeInv, SidecarAgrees', DiskType', [Next]_vars, NEW d \in Commands
  PROVE  Lifecycle!Step(d)
<1> USE QueueAssumption DEF OutcomeInv, IInv, TypeOK, DiskType, WorkerType,
        DaemonType, WorkerOK, PhaseOK, CancelOK, WorkerOwns, SidecarAgrees,
        Lifecycle!Step, Lifecycle!Submit, Lifecycle!Claim, Lifecycle!Record,
        Lifecycle!Finish, Lifecycle!Requeue, Lifecycle!Same,
        Lifecycle!Terminal, Recorded, Outcome, Unpublished, Published, Attempts,
        NoSidecar, Terminal, Statuses, WorkerPcs, disk, worker, daemon,
        handlers, bounds
<1>1. CASE UNCHANGED <<status, attempt, sidecar>>
  BY <1>1
<1>2. ASSUME NEW c \in Commands,
             AdmitCheck(c) \/ CancelRead(c) \/ RequestCancel(c) \/
             CancelOwned(c) \/ CancelFails(c) \/ RecoverCleanup(c)
      PROVE  UNCHANGED <<status, attempt, sidecar>>
  BY <1>2 DEF AdmitCheck, CancelRead, RequestCancel, CancelOwned, CancelFails,
     RecoverCleanup
<1>3. ASSUME NEW w \in Workers,
             ExecuteBegin(w) \/ RecordCancelCleanup(w) \/ DispatchEnd(w) \/
             PushAfterSuccess(w) \/ FinalCancelCheck(w) \/ FlushLog(w) \/
             PostExecutionCheck(w) \/ Unregister(w)
      PROVE  UNCHANGED <<status, attempt, sidecar>>
  BY <1>3 DEF ExecuteBegin, RecordCancelCleanup, DispatchEnd, PushAfterSuccess,
     FinalCancelCheck, FlushLog, PostExecutionCheck, Unregister
<1>4. ASSUME NEW p \in Closers, NEW s \in Sessions,
             HandleCloseSession(p, s)
      PROVE  UNCHANGED <<status, attempt, sidecar>>
  BY <1>4 DEF HandleCloseSession
<1>5. ASSUME NEW p \in Closes,
             CloseRead(p) \/ CloseMark(p) \/ CloseBusyCheck(p) \/
             CloseDelete(p) \/ CloseForce(p) \/ CloseForget(p) \/
             CloseFails(p)
      PROVE  UNCHANGED <<status, attempt, sidecar>>
  BY <1>5 DEF CloseRead, CloseMark, CloseBusyCheck, CloseDelete, CloseForce,
     CloseForget, CloseFails
<1>6. ASSUME Crash \/ BootRestore \/ BootSidecarsDone \/ BootStop \/
             BootRefuse \/ BootDrain \/ StartWorkers
      PROVE  UNCHANGED <<status, attempt, sidecar>>
  BY <1>6 DEF Crash, BootRestore, BootSidecarsDone, BootStop, BootRefuse, BootDrain,
     StartWorkers
<1>7. ASSUME NEW c \in Commands, EnqueueCommand(c)
      PROVE  Lifecycle!Step(d)
  <2>1. UNCHANGED <<attempt, sidecar>> /\ status[c] = "none"
    BY <1>7 DEF EnqueueCommand
  <2>2. UNCHANGED status \/ status' = [status EXCEPT ![c] = "queued"]
    BY <1>7, Zenon DEF EnqueueCommand
  <2>3. CASE UNCHANGED status
    BY <2>1, <2>3
  <2>4. CASE status' = [status EXCEPT ![c] = "queued"]
    <3>1. CASE d = c
      <4>1. status[d] = "none" /\ status'[d] = "queued"
        BY <2>1, <2>4, <3>1
      <4> QED
        BY <2>1, <4>1
    <3>2. CASE d # c
      <4>1. status'[d] = status[d]
        BY <2>4, <3>2
      <4> QED
        BY <2>1, <4>1
    <3> QED
      BY <3>1, <3>2
  <2> QED
    BY <2>2, <2>3, <2>4
<1>8. ASSUME NEW w \in Workers, ClaimNextCommand(w)
      PROVE  Lifecycle!Step(d)
  BY <1>8 DEF ClaimNextCommand, IsNext, Claimable
<1>9. ASSUME NEW w \in Workers, WriteSidecar(w)
      PROVE  Lifecycle!Step(d)
  <2>1. /\ wcmd[w] \in Commands /\ wout[w] \in Terminal
        /\ status[wcmd[w]] = "running" /\ ~ Recorded(wcmd[w])
    BY <1>9, BusyWorker DEF WriteSidecar
  <2>2. UNCHANGED <<status, attempt>>
    BY <1>9 DEF WriteSidecar
  <2>3. CASE sidecar'[d] = sidecar[d]
    BY <2>2, <2>3
  <2>4. CASE d = wcmd[w] /\ sidecar'[d] = [attempt |-> attempt[d], status |-> wout[w]]
    BY <2>1, <2>2, <2>4
  <2> QED
    BY <1>9, <2>3, <2>4 DEF WriteSidecar
<1>10. ASSUME NEW w \in Workers, PersistRow(w)
      PROVE  Lifecycle!Step(d)
  <2>1. /\ wcmd[w] \in Commands /\ wout[w] \in Terminal
        /\ status[wcmd[w]] = "running"
        /\ Recorded(wcmd[w]) => sidecar[wcmd[w]].status = wout[w]
    BY <1>10, BusyWorker DEF PersistRow
  <2>2. UNCHANGED <<sidecar, attempt>>
    BY <1>10 DEF PersistRow
  <2>3. CASE status'[d] = status[d]
    BY <2>2, <2>3
  <2>4. CASE d = wcmd[w] /\ status'[d] = wout[w]
    BY <2>1, <2>2, <2>4
  <2> QED
    BY <1>10, <2>3, <2>4 DEF PersistRow
<1>11. ASSUME NEW w \in Workers, RemoveSidecar(w)
      PROVE  Lifecycle!Step(d)
  <2>1. wcmd[w] \in Commands /\ status[wcmd[w]] \in Terminal
    BY <1>11, BusyWorker DEF RemoveSidecar
  <2>2. UNCHANGED <<status, attempt>>
    BY <1>11 DEF RemoveSidecar
  <2>3. sidecar'[d] = sidecar[d] \/ d = wcmd[w]
    BY <1>11 DEF RemoveSidecar
  <2> QED
    BY <2>1, <2>2, <2>3
<1>12. ASSUME NEW c \in Commands, CancelIfQueued(c)
      PROVE  Lifecycle!Step(d)
  BY <1>12 DEF CancelIfQueued, Works, Fails
<1>13. ASSUME NEW c \in Commands, CancelUnowned(c)
      PROVE  Lifecycle!Step(d)
  <2>1. UNCHANGED attempt
    BY <1>13 DEF CancelUnowned
  <2>2. CASE d # c
    <3>1. status'[d] = status[d] /\ sidecar'[d] = sidecar[d]
      BY <1>13, <2>2 DEF CancelUnowned
    <3> QED
      BY <2>1, <3>1
  <2>3. CASE d = c /\ status[c] # "running"
    <3>1. status'[d] = status[d] /\ sidecar'[d] = sidecar[d]
      BY <1>13, <2>3 DEF CancelUnowned
    <3> QED
      BY <2>1, <3>1
  <2>4. CASE d = c /\ status[c] = "running"
    <3>1. status'[c] = IF Recorded(c) THEN sidecar[c].status ELSE "cancelled"
      BY <1>13, <2>4 DEF CancelUnowned
    <3>2. Recorded(c) => sidecar[c].status \in Terminal
      BY SidecarOutcome
    <3> QED
      BY <2>1, <2>4, <3>1, <3>2
  <2> QED
    BY <2>2, <2>3, <2>4
<1>14. ASSUME NEW p \in Closes, CloseCancelQueued(p)
      PROVE  Lifecycle!Step(d)
  BY <1>14 DEF CloseCancelQueued, CommandsOf
<1>15. ASSUME NEW c \in Commands, BootSidecar(c)
      PROVE  Lifecycle!Step(d)
  <2>1. UNCHANGED attempt
    BY <1>15 DEF BootSidecar
  <2>2. CASE d # c
    <3>1. status'[d] = status[d] /\ sidecar'[d] = sidecar[d]
      BY <1>15, <2>2 DEF BootSidecar
    <3> QED
      BY <2>1, <3>1
  <2>3. CASE d = c /\ status[c] = "running" /\ Recorded(c)
    <3>1. status'[c] = sidecar[c].status /\ sidecar[c].status \in Terminal
      BY <1>15, <2>3, SidecarOutcome DEF BootSidecar
    <3> QED
      BY <2>1, <2>3, <3>1
  <2>4. CASE d = c /\ ~ (status[c] = "running" /\ Recorded(c))
    <3>1. status'[c] = status[c] /\ sidecar'[c] = NoSidecar
      BY <1>15, <2>4 DEF BootSidecar
    <3>2. ~ Recorded(c)'
      BY <2>1, <3>1, AttemptNumbers
    <3> QED
      BY <2>1, <2>4, <3>1, <3>2
  <2> QED
    BY <2>2, <2>3, <2>4
<1>16. CASE BootCancelled
  BY <1>16 DEF BootCancelled, Works, Fails
<1>17. CASE BootRecover
  BY <1>17 DEF BootRecover, Works, Fails
<1> QED
  BY <1>1, <1>2, <1>3, <1>4, <1>5, <1>6, <1>7, <1>8, <1>9, <1>10, <1>11,
     <1>12, <1>13, <1>14, <1>15, <1>16, <1>17
     DEF Next, WorkerStep, CancelStep, CloseStep, BootStep, vars, disk, worker,
         daemon, handlers, bounds

-----------------------------------------------------------------------------
(* The event log *)

\* Adding the one pair of attempt a to a log that has none of it.
LEMMA PairAdded ==
  ASSUME NEW l \in Seq(Completion), NEW a \in Attempts, NEW st \in Terminal,
         PairsOrdered(l, a), \A i \in 1 .. Len(l) : l[i].attempt # a
  PROVE  /\ PairsOrdered(Append(l, [attempt |-> a, status |-> st]), a)
         /\ PairsSay(Append(l, [attempt |-> a, status |-> st]), a, st)
<1> DEFINE e == [attempt |-> a, status |-> st]
           m == Append(l, e)
<1>1. e.attempt = a /\ e.status = st /\ e \in Completion
  BY CompletionType
<1> HIDE DEF e
<1>2. /\ Len(m) = Len(l) + 1 /\ Len(l) \in Nat
      /\ m[Len(l) + 1] = e
      /\ \A i \in 1 .. Len(l) : m[i] = l[i]
  BY <1>1
<1>3. a \in Nat /\ \A i \in 1 .. Len(l) : l[i].attempt \in Nat
  <2>1. \A i \in 1 .. Len(l) : l[i] \in Completion
    OBVIOUS
  <2> QED
    BY <2>1 DEF Completion, Attempts
<1> HIDE DEF m
<1>4. \A i \in 1 .. Len(m) : i \in 1 .. Len(l) \/ i = Len(l) + 1
  BY <1>2
<1>5. \A i \in 1 .. Len(m) : m[i].attempt = a => i = Len(l) + 1
  BY <1>2, <1>4
<1>6. \A i \in 1 .. Len(m) : m[i].attempt <= a
  BY <1>1, <1>2, <1>3, <1>4 DEF PairsOrdered
<1>7. \A i, j \in 1 .. Len(m) : m[i].attempt = m[j].attempt => i = j
  <2> SUFFICES ASSUME NEW i \in 1 .. Len(m), NEW j \in 1 .. Len(m),
                      m[i].attempt = m[j].attempt
               PROVE  i = j
    OBVIOUS
  <2>1. CASE m[i].attempt = a
    BY <1>5, <2>1
  <2>2. CASE m[i].attempt # a
    <3>1. i \in 1 .. Len(l) /\ j \in 1 .. Len(l)
      BY <1>1, <1>2, <1>4, <2>2
    <3> QED
      BY <1>2, <3>1 DEF PairsOrdered
  <2> QED
    BY <2>1, <2>2
<1>8. PairsSay(m, a, st)
  BY <1>1, <1>2, <1>5 DEF PairsSay
<1>9. PairsOrdered(m, a)
  BY <1>6, <1>7 DEF PairsOrdered
<1> QED
  BY <1>8, <1>9 DEF m, e

\* append_terminal adds the pair of the current attempt or leaves it.
LEMMA AppendTerminalPairs ==
  ASSUME DiskType, NEW c \in Commands, NEW st \in Terminal,
         PairsOrdered(log[c], attempt[c])
  PROVE  /\ PairsOrdered(AppendTerminal(log, c, st), attempt[c])
         /\ PairsSay(log[c], attempt[c], st)
              => PairsSay(AppendTerminal(log, c, st), attempt[c], st)
<1>1. log[c] \in Seq(Completion) /\ attempt[c] \in Attempts
  BY DEF DiskType
<1>2. CASE HasPair(c)
  BY <1>2 DEF AppendTerminal
<1>3. CASE ~ HasPair(c)
  BY <1>1, <1>3, PairAdded DEF AppendTerminal, HasPair
<1> QED
  BY <1>2, <1>3

\* The log of a command without an outcome has no pair of its attempt, so that
\* whatever its outcome becomes agrees with it; one with an outcome keeps it.
LEMMA LogFollows ==
  ASSUME DiskType, NEW c \in Commands, Lifecycle!Step(c),
         PairsOrdered(log[c], attempt[c]), log'[c] = log[c]
  PROVE  /\ PairsOrdered(log'[c], attempt'[c])
         /\ PairsSay(log[c], attempt[c], Outcome(c))
              => PairsSay(log'[c], attempt'[c], Outcome(c)')
<1>1. attempt[c] \in Nat /\ log[c] \in Seq(Completion)
  BY DEF DiskType, Attempts
<1>2. \A i \in 1 .. Len(log[c]) : /\ log[c][i].status # "none"
                                   /\ log[c][i].attempt \in Nat
  <2>1. \A i \in 1 .. Len(log[c]) : log[c][i] \in Completion
    BY <1>1
  <2> QED
    BY <2>1 DEF Completion, Attempts, Terminal
<1>3. CASE attempt'[c] = attempt[c] /\ Outcome(c)' = Outcome(c)
  BY <1>3
<1>4. CASE attempt'[c] = attempt[c] /\ Outcome(c) = "none"
  BY <1>2, <1>4 DEF PairsSay
<1>5. CASE attempt'[c] = attempt[c] + 1
  BY <1>1, <1>2, <1>5 DEF PairsSay, PairsOrdered
<1>6. \/ attempt'[c] = attempt[c] /\ Outcome(c)' = Outcome(c)
      \/ attempt'[c] = attempt[c] /\ Outcome(c) = "none"
      \/ attempt'[c] = attempt[c] + 1
      \/ attempt'[c] = attempt[c] /\ Outcome(c) # "none" /\ Outcome(c)' = Outcome(c)
  BY OutcomeType DEF Lifecycle!Step, Lifecycle!Submit, Lifecycle!Claim,
     Lifecycle!Record, Lifecycle!Finish, Lifecycle!Requeue, Lifecycle!Same
<1> QED
  BY <1>3, <1>4, <1>5, <1>6


\* Failures are only counted up.
LEMMA FailuresGrow ==
  ASSUME DaemonType, [Next]_vars
  PROVE  /\ failures \in Nat
         /\ failures' = failures \/ failures' = failures + 1
<1> USE QueueAssumption DEF DaemonType, Works, Fails, disk, worker, daemon,
        handlers, bounds
<1>1. CASE UNCHANGED failures
  BY <1>1
<1>2. ASSUME NEW c \in Commands,
             AdmitCheck(c) \/ CancelRead(c) \/ RequestCancel(c) \/
             CancelOwned(c)
      PROVE  UNCHANGED failures
  BY <1>2 DEF AdmitCheck, CancelRead, RequestCancel, CancelOwned
<1>3. ASSUME NEW w \in Workers,
             ClaimNextCommand(w) \/ RecordCancelCleanup(w) \/
             DispatchEnd(w) \/ Unregister(w)
      PROVE  UNCHANGED failures
  BY <1>3 DEF ClaimNextCommand, RecordCancelCleanup, DispatchEnd, Unregister
<1>4. ASSUME NEW p \in Closers, NEW s \in Sessions,
             HandleCloseSession(p, s)
      PROVE  UNCHANGED failures
  BY <1>4 DEF HandleCloseSession
<1>5. ASSUME NEW p \in Closes,
             CloseRead(p) \/ CloseMark(p) \/ CloseCancelQueued(p) \/
             CloseBusyCheck(p) \/ CloseDelete(p) \/ CloseForce(p) \/
             CloseForget(p)
      PROVE  UNCHANGED failures
  BY <1>5 DEF CloseRead, CloseMark, CloseCancelQueued, CloseBusyCheck, CloseDelete,
     CloseForce, CloseForget
<1>6. ASSUME Crash \/ BootRestore \/ BootSidecarsDone \/ BootStop \/
             StartWorkers
      PROVE  UNCHANGED failures
  BY <1>6 DEF Crash, BootRestore, BootSidecarsDone, BootStop, StartWorkers
<1>7. ASSUME NEW c \in Commands, EnqueueCommand(c)
      PROVE  /\ failures \in Nat
             /\ failures' = failures \/ failures' = failures + 1
  BY <1>7 DEF EnqueueCommand, Works, Fails
<1>8. ASSUME NEW w \in Workers, ExecuteBegin(w)
      PROVE  /\ failures \in Nat
             /\ failures' = failures \/ failures' = failures + 1
  BY <1>8 DEF ExecuteBegin, FailEarly, StartDispatch, Works, Fails
<1>9. ASSUME NEW w \in Workers, PushAfterSuccess(w)
      PROVE  /\ failures \in Nat
             /\ failures' = failures \/ failures' = failures + 1
  BY <1>9 DEF PushAfterSuccess, Works, Fails
<1>10. ASSUME NEW w \in Workers, FinalCancelCheck(w)
      PROVE  /\ failures \in Nat
             /\ failures' = failures \/ failures' = failures + 1
  BY <1>10 DEF FinalCancelCheck, Works, Fails
<1>11. ASSUME NEW w \in Workers, WriteSidecar(w)
      PROVE  /\ failures \in Nat
             /\ failures' = failures \/ failures' = failures + 1
  BY <1>11 DEF WriteSidecar, Works, Fails
<1>12. ASSUME NEW w \in Workers, PersistRow(w)
      PROVE  /\ failures \in Nat
             /\ failures' = failures \/ failures' = failures + 1
  BY <1>12 DEF PersistRow, Works, Fails
<1>13. ASSUME NEW w \in Workers, RemoveSidecar(w)
      PROVE  /\ failures \in Nat
             /\ failures' = failures \/ failures' = failures + 1
  BY <1>13 DEF RemoveSidecar, Works, Fails
<1>14. ASSUME NEW w \in Workers, FlushLog(w)
      PROVE  /\ failures \in Nat
             /\ failures' = failures \/ failures' = failures + 1
  BY <1>14 DEF FlushLog, Works, Fails
<1>15. ASSUME NEW c \in Commands, CancelIfQueued(c)
      PROVE  /\ failures \in Nat
             /\ failures' = failures \/ failures' = failures + 1
  BY <1>15 DEF CancelIfQueued, Works, Fails
<1>16. ASSUME NEW c \in Commands, CancelUnowned(c)
      PROVE  /\ failures \in Nat
             /\ failures' = failures \/ failures' = failures + 1
  BY <1>16 DEF CancelUnowned, Works, Fails
<1>17. ASSUME NEW c \in Commands, CancelFails(c)
      PROVE  /\ failures \in Nat
             /\ failures' = failures \/ failures' = failures + 1
  BY <1>17 DEF CancelFails, Fails
<1>18. ASSUME NEW p \in Closes, CloseFails(p)
      PROVE  /\ failures \in Nat
             /\ failures' = failures \/ failures' = failures + 1
  BY <1>18 DEF CloseFails, Fails
<1>19. ASSUME NEW c \in Commands, BootSidecar(c)
      PROVE  /\ failures \in Nat
             /\ failures' = failures \/ failures' = failures + 1
  BY <1>19 DEF BootSidecar, Works, Fails
<1>20. CASE BootCancelled
  BY <1>20 DEF BootCancelled, Works, Fails
<1>21. CASE BootRecover
  BY <1>21 DEF BootRecover, Works, Fails
<1>22. CASE BootRefuse
  BY <1>22 DEF BootRefuse, LoseDaemon, Fails
<1>23. CASE BootDrain
  BY <1>23 DEF BootDrain, Works, Fails
<1>24. ASSUME NEW w \in Workers, PostExecutionCheck(w)
       PROVE  /\ failures \in Nat
              /\ failures' = failures \/ failures' = failures + 1
  <2>1. Works \/ Fails
    BY <1>24, ReadCounted DEF PostExecutionCheck
  <2> QED
    BY <1>24, <2>1 DEF PostExecutionCheck, Works, Fails
<1>25. ASSUME NEW c \in Commands, RecoverCleanup(c)
       PROVE  /\ failures \in Nat
              /\ failures' = failures \/ failures' = failures + 1
  <2>1. Works \/ Fails
    BY <1>25, ReadCounted DEF RecoverCleanup
  <2> QED
    BY <1>25, <2>1 DEF RecoverCleanup, Works, Fails
<1> QED
  BY <1>1, <1>2, <1>3, <1>4, <1>5, <1>6, <1>7, <1>8, <1>9, <1>10, <1>11,
     <1>12, <1>13, <1>14, <1>15, <1>16, <1>17, <1>18, <1>19, <1>20, <1>21,
     <1>22, <1>23, <1>24, <1>25
     DEF Next, WorkerStep, CancelStep, CloseStep, BootStep, vars, disk, worker,
         daemon, handlers, bounds

\* How a step may change the events of a command.
LogWrite(d) ==
  \/ log'[d] = log[d]
  \/ \E st \in Terminal : /\ log'[d] = AppendTerminal(log, d, st)
                          /\ status'[d] = st /\ attempt'[d] = attempt[d]
  \/ \E w \in Workers : wcmd[w] = d /\ FlushLog(w)


\* Who writes them: append_terminal with what the row becomes, or the log
\* writer of the command's worker.
LEMMA LogWriters ==
  ASSUME IInv, [Next]_vars, NEW d \in Commands
  PROVE  LogWrite(d)
<1> USE DEF IInv, TypeOK, DiskType, LogWrite, Terminal, disk, worker, daemon,
        handlers, bounds
<1>1. CASE UNCHANGED log
  BY <1>1
<1>2. ASSUME NEW c \in Commands,
             AdmitCheck(c) \/ EnqueueCommand(c) \/ CancelRead(c) \/
             RequestCancel(c) \/ CancelOwned(c) \/ CancelFails(c) \/
             RecoverCleanup(c)
      PROVE  UNCHANGED log
  BY <1>2 DEF AdmitCheck, EnqueueCommand, CancelRead, RequestCancel, CancelOwned,
     CancelFails, RecoverCleanup
<1>3. ASSUME NEW w \in Workers,
             ClaimNextCommand(w) \/ ExecuteBegin(w) \/
             RecordCancelCleanup(w) \/ DispatchEnd(w) \/
             PushAfterSuccess(w) \/ FinalCancelCheck(w) \/ WriteSidecar(w) \/
             PersistRow(w) \/ RemoveSidecar(w) \/ PostExecutionCheck(w) \/
             Unregister(w)
      PROVE  UNCHANGED log
  BY <1>3 DEF ClaimNextCommand, ExecuteBegin, RecordCancelCleanup, DispatchEnd,
     PushAfterSuccess, FinalCancelCheck, WriteSidecar, PersistRow,
     RemoveSidecar, PostExecutionCheck, Unregister
<1>4. ASSUME NEW p \in Closers, NEW s \in Sessions,
             HandleCloseSession(p, s)
      PROVE  UNCHANGED log
  BY <1>4 DEF HandleCloseSession
<1>5. ASSUME NEW p \in Closes,
             CloseRead(p) \/ CloseMark(p) \/ CloseCancelQueued(p) \/
             CloseBusyCheck(p) \/ CloseDelete(p) \/ CloseForce(p) \/
             CloseForget(p) \/ CloseFails(p)
      PROVE  UNCHANGED log
  BY <1>5 DEF CloseRead, CloseMark, CloseCancelQueued, CloseBusyCheck, CloseDelete,
     CloseForce, CloseForget, CloseFails
<1>6. ASSUME Crash \/ BootRestore \/ BootSidecarsDone \/ BootRecover \/
             BootStop \/ BootRefuse \/ StartWorkers
      PROVE  UNCHANGED log
  BY <1>6 DEF Crash, BootRestore, BootSidecarsDone, BootRecover, BootStop, BootRefuse,
     StartWorkers
<1>7. ASSUME NEW w \in Workers, FlushLog(w)
      PROVE  LogWrite(d)
  <2>1. CASE wcmd[w] = d
    BY <1>7, <2>1
  <2>2. CASE wcmd[w] # d
    BY <1>7, <2>2 DEF FlushLog
  <2> QED
    BY <2>1, <2>2
<1>8. ASSUME NEW c \in Commands, CancelIfQueued(c)
      PROVE  LogWrite(d)
  BY <1>8 DEF CancelIfQueued, Works, Fails
<1>9. ASSUME NEW c \in Commands, CancelUnowned(c)
      PROVE  LogWrite(d)
  <2>1. CASE log'[d] = log[d]
    BY <2>1
  <2>2. CASE d = c /\ log' # log
    <3>1. PICK st : /\ status' = [status EXCEPT ![c] = st]
                    /\ log' = [log EXCEPT ![c] = AppendTerminal(log, c, st)]
                    /\ st = IF status[c] = "running"
                            THEN IF sidecar[c].attempt = attempt[c]
                                 THEN sidecar[c].status ELSE "cancelled"
                            ELSE "cancelled"
      BY <1>9, <2>2 DEF CancelUnowned
    <3>2. st \in Terminal /\ UNCHANGED attempt
      BY <1>9, <3>1, SidecarOutcome DEF CancelUnowned
    <3> QED
      BY <2>2, <3>1, <3>2
  <2>3. d # c => log'[d] = log[d]
    BY <1>9 DEF CancelUnowned
  <2> QED
    BY <2>1, <2>2, <2>3
<1>10. ASSUME NEW c \in Commands, BootSidecar(c)
      PROVE  LogWrite(d)
  BY <1>10 DEF BootSidecar, Works, Fails
<1>11. CASE BootCancelled
  BY <1>11 DEF BootCancelled, Works, Fails
<1>12. CASE BootDrain
  BY <1>12 DEF BootDrain, Works, Fails
<1> QED
  BY <1>1, <1>2, <1>3, <1>4, <1>5, <1>6, <1>7, <1>8, <1>9, <1>10, <1>11, <1>12
     DEF Next, WorkerStep, CancelStep, CloseStep, BootStep, vars, disk, worker,
         daemon, handlers, bounds

\* While the attempt is the same an outcome, once there, stays.
LEMMA OutcomeKept ==
  ASSUME DiskType, NEW c \in Commands, Lifecycle!Step(c), attempt'[c] = attempt[c]
  PROVE  Outcome(c) = "none" \/ Outcome(c)' = Outcome(c)
BY OutcomeType DEF Lifecycle!Step, Lifecycle!Submit, Lifecycle!Claim,
   Lifecycle!Record, Lifecycle!Finish, Lifecycle!Requeue, Lifecycle!Same,
   DiskType, Attempts

\* No pair says "none".
LEMMA NoPairSaysNone ==
  ASSUME NEW l \in Seq(Completion), NEW a, PairsSay(l, a, "none"), NEW st
  PROVE  PairsSay(l, a, st)
<1>1. \A i \in 1 .. Len(l) : l[i] \in Completion
  OBVIOUS
<1>2. \A i \in 1 .. Len(l) : l[i].status # "none"
  BY <1>1 DEF Completion, Terminal
<1> QED
  BY <1>2 DEF PairsSay

\* The log of a command keeps one pair per attempt, and the pair of the
\* current one says the command's outcome.
LEMMA LogRowStep ==
  ASSUME OutcomeInv, DiskType', [Next]_vars, NEW d \in Commands,
         Lifecycle!Step(d)
  PROVE  /\ PairsOrdered(log'[d], attempt'[d])
         /\ status'[d] \in {"none", "queued"} => ~ HasPair(d)'
         /\ failures' <= 1 => PairsSay(log'[d], attempt'[d], Outcome(d)')
<1>1. DiskType /\ PairsOrdered(log[d], attempt[d])
  BY DEF OutcomeInv, IInv, TypeOK, LogOrdered
<1>2. log[d] \in Seq(Completion) /\ attempt[d] \in Attempts /\ attempt[d] \in Nat
  BY <1>1 DEF DiskType, Attempts
<1>3. failures' <= 1 => failures <= 1 /\ PairsSay(log[d], attempt[d], Outcome(d))
  BY FailuresGrow DEF OutcomeInv, IInv, TypeOK, LogAgrees
<1>4. CASE log'[d] = log[d]
  <2>1. /\ PairsOrdered(log'[d], attempt'[d])
        /\ PairsSay(log[d], attempt[d], Outcome(d))
             => PairsSay(log'[d], attempt'[d], Outcome(d)')
    BY <1>1, <1>4, LogFollows
  <2>2. status'[d] \in {"none", "queued"} => ~ HasPair(d)'
    <3>1. CASE attempt'[d] = attempt[d] /\ status[d] \in {"none", "queued"}
      BY <1>4, <3>1 DEF OutcomeInv, LogOrdered, HasPair
    <3>2. CASE attempt'[d] = attempt[d] + 1
      <4>1. \A i \in 1 .. Len(log[d]) : /\ log[d][i].attempt <= attempt[d]
                                        /\ log[d][i].attempt \in Nat
        <5>1. \A i \in 1 .. Len(log[d]) : log[d][i] \in Completion
          BY <1>2
        <5> QED
          BY <1>1, <5>1 DEF Completion, Attempts, PairsOrdered
      <4> QED
        BY <1>2, <1>4, <3>2, <4>1 DEF HasPair
    <3> QED
      BY <3>1, <3>2 DEF Lifecycle!Step, Lifecycle!Submit, Lifecycle!Claim,
         Lifecycle!Record, Lifecycle!Finish, Lifecycle!Requeue,
         Lifecycle!Same, Lifecycle!Terminal
  <2> QED
    BY <1>3, <2>1, <2>2
<1>5. ASSUME NEW st \in Terminal, log'[d] = AppendTerminal(log, d, st),
             status'[d] = st, attempt'[d] = attempt[d]
      PROVE  /\ PairsOrdered(log'[d], attempt'[d])
             /\ status'[d] \in {"none", "queued"} => ~ HasPair(d)'
             /\ failures' <= 1 => PairsSay(log'[d], attempt'[d], Outcome(d)')
  <2>1. Outcome(d)' = st
    BY <1>5 DEF Outcome
  <2>2. Outcome(d) = "none" \/ Outcome(d) = st
    BY <1>1, <1>5, <2>1, OutcomeKept
  <2>3. PairsSay(log[d], attempt[d], Outcome(d)) => PairsSay(log[d], attempt[d], st)
    BY <1>2, <2>2, NoPairSaysNone
  <2> QED
    BY <1>1, <1>3, <1>5, <2>1, <2>3, AppendTerminalPairs DEF Terminal
<1>6. ASSUME NEW w \in Workers, wcmd[w] = d, FlushLog(w)
      PROVE  /\ PairsOrdered(log'[d], attempt'[d])
             /\ status'[d] \in {"none", "queued"} => ~ HasPair(d)'
             /\ failures' <= 1 => PairsSay(log'[d], attempt'[d], Outcome(d)')
  <2>1. d # NoCmd /\ flush[w] = "pending" /\ wpc[w] \in {"remove", "post"}
    BY <1>6, QueueAssumption DEF FlushLog, OutcomeInv, IInv, WorkerOK
  <2>2. wout[w] \in Terminal /\ status[d] \in {"running"} \cup Terminal
    BY <1>6, <2>1, BusyWorker, HeldCommand DEF OutcomeInv
  <2>3. ~ HasPair(d)
    BY <1>6, <2>1 DEF OutcomeInv, LogOrdered
  <2>4. UNCHANGED <<status, attempt, sidecar>>
    BY <1>6 DEF FlushLog
  <2>5. failures' <= 1 => Outcome(d)' = wout[w]
    BY <1>3, <1>6, <2>1, <2>4 DEF OutcomeInv, LogAgrees, Outcome
  <2>6. CASE log'[d] = log[d]
    BY <1>4, <2>6
  <2>7. CASE log'[d] = Append(log[d], [attempt |-> attempt[d], status |-> wout[w]])
    <3>1. /\ PairsOrdered(log'[d], attempt[d])
          /\ PairsSay(log'[d], attempt[d], wout[w])
      BY <1>1, <1>2, <2>2, <2>3, <2>7, PairAdded DEF HasPair
    <3> QED
      BY <2>2, <2>4, <2>5, <3>1 DEF Terminal
  <2>8. log'[d] = log[d] \/ log'[d] = Append(log[d], [attempt |-> attempt[d],
                                                      status |-> wout[w]])
    BY <1>1, <1>6 DEF FlushLog, DiskType
  <2> QED
    BY <2>6, <2>7, <2>8
<1>7. LogWrite(d)
  BY LogWriters DEF OutcomeInv
<1> QED
  BY <1>4, <1>5, <1>6, <1>7 DEF LogWrite

\* A worker's log writer still has its pair to write, and what it will write is
\* the outcome on disk.
LEMMA LogWorkerStep ==
  ASSUME OutcomeInv, [Next]_vars, NEW w \in Workers, wcmd'[w] # NoCmd
  PROVE  /\ wpc'[w] = "claimed" \/ flush'[w] # "none" => ~ HasPair(wcmd[w])'
         /\ failures' <= 1 =>
              /\ wpc'[w] = "row" /\ ~ Recorded(wcmd[w])' => failures' = 1
              /\ flush'[w] = "pending" => Outcome(wcmd[w])' = wout'[w]
<1> USE DEF HasPair
<1>1. /\ IInv /\ WorkerOwns /\ SidecarAgrees /\ DiskType /\ WorkerType
      /\ failures' <= 1 => failures <= 1
      /\ failures \in Nat /\ (failures' = failures \/ failures' = failures + 1)
  BY FailuresGrow DEF OutcomeInv, IInv, TypeOK
<1>2. wcmd[w] # NoCmd =>
        /\ wpc[w] = "claimed" \/ flush[w] # "none" => ~ HasPair(wcmd[w])
        /\ failures <= 1 =>
             /\ wpc[w] = "row" /\ ~ Recorded(wcmd[w]) => failures = 1
             /\ flush[w] = "pending" => Outcome(wcmd[w]) = wout[w]
  BY DEF OutcomeInv, LogOrdered, LogAgrees
<1>3. flush[w] = "pending" => wpc[w] \in {"remove", "post"}
  BY <1>1 DEF IInv, WorkerOK
<1>4. CASE Lost(w)
  BY <1>4 DEF Lost
<1>5. CASE Undisturbed(w)
  <2>1. wcmd[w] # NoCmd
    BY <1>5 DEF Undisturbed
  <2>2. /\ Recorded(wcmd[w])' = Recorded(wcmd[w])
        /\ Outcome(wcmd[w])' = Outcome(wcmd[w])
        /\ HasPair(wcmd[w])' = HasPair(wcmd[w])
    BY <1>5, <2>1 DEF Undisturbed, Recorded, Outcome
  <2> QED
    BY <1>1, <1>2, <1>5, <2>1, <2>2 DEF Undisturbed
<1>6. CASE ClaimNextCommand(w)
  <2>1. PICK c \in Commands : /\ status[c] = "queued"
                              /\ wcmd' = [wcmd EXCEPT ![w] = c]
    BY <1>6 DEF ClaimNextCommand, IsNext, Claimable
  <2>2. wcmd'[w] = c /\ ~ HasPair(c)
    BY <1>1, <2>1 DEF WorkerType, OutcomeInv, LogOrdered
  <2>3. wpc[w] = "idle" /\ wpc'[w] = "claimed" /\ flush'[w] # "pending"
    BY <1>1, <1>3, <1>6 DEF ClaimNextCommand, WorkerType
  <2>4. ~ HasPair(wcmd[w])'
    BY <1>6, <2>2 DEF ClaimNextCommand
  <2> QED
    BY <2>3, <2>4
<1>7. ASSUME wpc[w] # "idle"
      PROVE  /\ wcmd[w] \in Commands /\ wcmd[w] # NoCmd
             /\ wpc[w] \notin {"claimed", "dispatched"} => wout[w] \in Terminal
             /\ wpc[w] = "row" => status[wcmd[w]] = "running"
             /\ wpc[w] = "remove" => status[wcmd[w]] = wout[w]
             /\ Recorded(wcmd[w]) /\ status[wcmd[w]] = "running"
                  => sidecar[wcmd[w]].status = wout[w]
  BY <1>1, <1>7, BusyWorker
<1>8. CASE ExecuteBegin(w)
  <2>1. /\ wpc[w] = "claimed" /\ wpc'[w] \in {"sidecar", "dispatched"}
        /\ flush'[w] # "pending" /\ UNCHANGED <<wcmd, log, attempt>>
    BY <1>1, <1>8 DEF ExecuteBegin, FailEarly, StartDispatch, WorkerType
  <2> QED
    BY <1>2, <1>7, <2>1
<1>9. CASE RecordCancelCleanup(w) \/ DispatchEnd(w) \/ PushAfterSuccess(w)
             \/ FinalCancelCheck(w) \/ PostExecutionCheck(w)
  <2>1. /\ wpc[w] # "idle" /\ wpc'[w] # "row" /\ wpc'[w] # "claimed"
        /\ flush[w] # "pending" /\ UNCHANGED <<wcmd, log, attempt, flush>>
    BY <1>1, <1>3, <1>9 DEF RecordCancelCleanup, DispatchEnd, PushAfterSuccess,
       FinalCancelCheck, PostExecutionCheck, ClosesOrReturns, WorkerType,
       worker, disk
  <2> QED
    BY <1>2, <1>7, <2>1
<1>10. CASE WriteSidecar(w)
  <2>1. /\ wpc[w] = "sidecar" /\ wpc'[w] = "row"
        /\ flush[w] # "pending" /\ UNCHANGED <<wcmd, log, attempt, flush>>
    BY <1>1, <1>3, <1>10 DEF WriteSidecar, WorkerType
  <2>2. Recorded(wcmd[w])' \/ failures' = failures + 1
    BY <1>1, <1>7, <1>10, <2>1 DEF WriteSidecar, Fails, DiskType, Recorded
  <2> QED
    BY <1>1, <1>2, <1>7, <2>1, <2>2
<1>11. CASE PersistRow(w)
  <2>1. /\ wpc[w] = "row" /\ wpc'[w] \in {"remove", "post"}
        /\ flush'[w] # "none" => flush[w] # "none"
        /\ UNCHANGED <<wcmd, wout, log, attempt, sidecar>>
    BY <1>1, <1>11 DEF PersistRow, WorkerType
  <2>2. failures' <= 1 => Outcome(wcmd[w])' = wout[w]
    <3>1. CASE status' = [status EXCEPT ![wcmd[w]] = wout[w]]
      BY <1>1, <1>7, <2>1, <3>1 DEF Outcome, DiskType
    <3>2. CASE Fails /\ UNCHANGED status
      <4>1. failures' <= 1 => Recorded(wcmd[w])
        BY <1>1, <1>2, <1>7, <2>1, <3>2 DEF Fails
      <4> QED
        BY <1>7, <2>1, <3>2, <4>1 DEF Outcome, Recorded, Terminal
    <3> QED
      BY <1>11, <3>1, <3>2 DEF PersistRow
  <2> QED
    BY <1>2, <1>7, <2>1, <2>2
<1>12. CASE RemoveSidecar(w)
  <2>1. /\ wpc[w] = "remove" /\ wpc'[w] = "post"
        /\ UNCHANGED <<wcmd, wout, log, attempt, flush, status>>
    BY <1>1, <1>12 DEF RemoveSidecar, WorkerType
  <2>2. Outcome(wcmd[w])' = wout[w]
    BY <1>7, <2>1 DEF Outcome
  <2> QED
    BY <1>2, <1>7, <2>1, <2>2
<1>13. CASE FlushLog(w)
  <2>1. flush'[w] = "none" /\ wpc[w] \in {"remove", "post"} /\ UNCHANGED wpc
    BY <1>1, <1>3, <1>13 DEF FlushLog, WorkerType
  <2> QED
    BY <2>1
<1>14. CASE Unregister(w)
  BY <1>1, <1>14 DEF Unregister, WorkerType
<1>15. WorkerStep(w) \/ Lost(w) \/ Undisturbed(w)
  BY <1>1, WorkerView
<1> QED
  BY <1>4, <1>5, <1>6, <1>8, <1>9, <1>10, <1>11, <1>12, <1>13, <1>14, <1>15
     DEF WorkerStep


-----------------------------------------------------------------------------
(* The containers *)


\* A container is never of an attempt the row has not reached.
LEMMA LiveBounded ==
  ASSUME OutcomeInv, [Next]_vars, NEW d \in Commands
  PROVE  \A a \in live'[d] : a <= attempt'[d]
<1> USE DEF OutcomeInv, IInv, TypeOK, DiskType, WorkerType, ContainersKnown,
        Attempts, disk, worker, daemon, handlers, bounds
<1>1. CASE UNCHANGED <<live, attempt>>
  BY <1>1
<1>2. ASSUME NEW c \in Commands,
             AdmitCheck(c) \/ EnqueueCommand(c) \/ CancelRead(c) \/
             CancelIfQueued(c) \/ RequestCancel(c) \/ CancelOwned(c) \/
             CancelUnowned(c) \/ CancelFails(c) \/ BootSidecar(c) \/
             RecoverCleanup(c)
      PROVE  UNCHANGED <<live, attempt>>
  BY <1>2 DEF AdmitCheck, EnqueueCommand, CancelRead, CancelIfQueued, RequestCancel,
     CancelOwned, CancelUnowned, CancelFails, BootSidecar, RecoverCleanup
<1>3. ASSUME NEW w \in Workers,
             ClaimNextCommand(w) \/ RecordCancelCleanup(w) \/
             PushAfterSuccess(w) \/ FinalCancelCheck(w) \/ WriteSidecar(w) \/
             PersistRow(w) \/ RemoveSidecar(w) \/ FlushLog(w) \/
             PostExecutionCheck(w) \/ Unregister(w)
      PROVE  UNCHANGED <<live, attempt>>
  BY <1>3 DEF ClaimNextCommand, RecordCancelCleanup, PushAfterSuccess,
     FinalCancelCheck, WriteSidecar, PersistRow, RemoveSidecar, FlushLog,
     PostExecutionCheck, Unregister
<1>4. ASSUME NEW p \in Closers, NEW s \in Sessions,
             HandleCloseSession(p, s)
      PROVE  UNCHANGED <<live, attempt>>
  BY <1>4 DEF HandleCloseSession
<1>5. ASSUME NEW p \in Closes,
             CloseRead(p) \/ CloseMark(p) \/ CloseCancelQueued(p) \/
             CloseBusyCheck(p) \/ CloseDelete(p) \/ CloseForce(p) \/
             CloseForget(p) \/ CloseFails(p)
      PROVE  UNCHANGED <<live, attempt>>
  BY <1>5 DEF CloseRead, CloseMark, CloseCancelQueued, CloseBusyCheck, CloseDelete,
     CloseForce, CloseForget, CloseFails
<1>6. ASSUME Crash \/ BootRestore \/ BootSidecarsDone \/ BootCancelled \/
             BootRefuse \/ BootDrain \/ StartWorkers
      PROVE  UNCHANGED <<live, attempt>>
  BY <1>6 DEF Crash, BootRestore, BootSidecarsDone, BootCancelled, BootRefuse,
     BootDrain, StartWorkers
<1>7. ASSUME NEW w \in Workers, ExecuteBegin(w)
      PROVE  \A a \in live'[d] : a <= attempt'[d]
  <2>1. UNCHANGED attempt /\ attempt[d] \in Nat
    BY <1>7 DEF ExecuteBegin
  <2>2. live'[d] \subseteq live[d] \cup {attempt[d]}
    <3>1. live' = live \/ live' = [live EXCEPT ![wcmd[w]] = @ \cup {attempt[wcmd[w]]}]
      BY <1>7 DEF ExecuteBegin, StartDispatch, FailEarly
    <3> QED
      BY <3>1
  <2>3. \A a \in live[d] : a <= attempt[d]
    OBVIOUS
  <2>4. attempt[d] <= attempt[d] /\ attempt'[d] = attempt[d]
    BY <2>1
  <2> QED
    BY <2>2, <2>3, <2>4
<1>8. ASSUME NEW w \in Workers, DispatchEnd(w)
      PROVE  \A a \in live'[d] : a <= attempt'[d]
  BY <1>8 DEF DispatchEnd
<1>9. CASE BootRecover
  <2>1. live'[d] = live[d] /\ attempt[d] \in Nat /\ live[d] \subseteq Nat
    BY <1>9 DEF BootRecover
  <2>2. attempt'[d] = attempt[d] \/ attempt'[d] = attempt[d] + 1
    BY <1>9 DEF BootRecover
  <2> QED
    BY <2>1, <2>2
<1>10. CASE BootStop
  BY <1>10 DEF BootStop
<1> QED
  BY <1>1, <1>2, <1>3, <1>4, <1>5, <1>6, <1>7, <1>8, <1>9, <1>10
     DEF Next, WorkerStep, CancelStep, CloseStep, BootStep, vars, disk, worker,
         daemon, handlers, bounds

\* A new container of the current attempt comes from a dispatch.
LEMMA LiveFrom ==
  ASSUME OutcomeInv, [Next]_vars, NEW d \in Commands, attempt'[d] \in live'[d]
  PROVE  \/ attempt[d] \in live[d] /\ attempt'[d] = attempt[d]
         \/ \E w \in Workers : /\ wpc[w] = "claimed" /\ wcmd[w] = d
                                /\ ExecuteBegin(w) /\ wpc'[w] = "dispatched"
<1> USE DEF OutcomeInv, IInv, TypeOK, DiskType, WorkerType, ContainersKnown,
        Attempts, disk, worker, daemon, handlers, bounds
<1>1. CASE UNCHANGED <<live, attempt>>
  BY <1>1
<1>2. ASSUME NEW c \in Commands,
             AdmitCheck(c) \/ EnqueueCommand(c) \/ CancelRead(c) \/
             CancelIfQueued(c) \/ RequestCancel(c) \/ CancelOwned(c) \/
             CancelUnowned(c) \/ CancelFails(c) \/ BootSidecar(c) \/
             RecoverCleanup(c)
      PROVE  UNCHANGED <<live, attempt>>
  BY <1>2 DEF AdmitCheck, EnqueueCommand, CancelRead, CancelIfQueued, RequestCancel,
     CancelOwned, CancelUnowned, CancelFails, BootSidecar, RecoverCleanup
<1>3. ASSUME NEW w \in Workers,
             ClaimNextCommand(w) \/ RecordCancelCleanup(w) \/
             PushAfterSuccess(w) \/ FinalCancelCheck(w) \/ WriteSidecar(w) \/
             PersistRow(w) \/ RemoveSidecar(w) \/ FlushLog(w) \/
             PostExecutionCheck(w) \/ Unregister(w)
      PROVE  UNCHANGED <<live, attempt>>
  BY <1>3 DEF ClaimNextCommand, RecordCancelCleanup, PushAfterSuccess,
     FinalCancelCheck, WriteSidecar, PersistRow, RemoveSidecar, FlushLog,
     PostExecutionCheck, Unregister
<1>4. ASSUME NEW p \in Closers, NEW s \in Sessions,
             HandleCloseSession(p, s)
      PROVE  UNCHANGED <<live, attempt>>
  BY <1>4 DEF HandleCloseSession
<1>5. ASSUME NEW p \in Closes,
             CloseRead(p) \/ CloseMark(p) \/ CloseCancelQueued(p) \/
             CloseBusyCheck(p) \/ CloseDelete(p) \/ CloseForce(p) \/
             CloseForget(p) \/ CloseFails(p)
      PROVE  UNCHANGED <<live, attempt>>
  BY <1>5 DEF CloseRead, CloseMark, CloseCancelQueued, CloseBusyCheck, CloseDelete,
     CloseForce, CloseForget, CloseFails
<1>6. ASSUME Crash \/ BootRestore \/ BootSidecarsDone \/ BootCancelled \/
             BootRefuse \/ BootDrain \/ StartWorkers
      PROVE  UNCHANGED <<live, attempt>>
  BY <1>6 DEF Crash, BootRestore, BootSidecarsDone, BootCancelled, BootRefuse,
     BootDrain, StartWorkers
<1>7. ASSUME NEW w \in Workers, ExecuteBegin(w)
      PROVE  \/ attempt[d] \in live[d] /\ attempt'[d] = attempt[d]
             \/ \E u \in Workers : /\ wpc[u] = "claimed" /\ wcmd[u] = d
                                    /\ ExecuteBegin(u) /\ wpc'[u] = "dispatched"
  <2>1. CASE attempt[d] \in live[d]
    BY <1>7, <2>1 DEF ExecuteBegin
  <2>2. CASE attempt[d] \notin live[d]
    <3>1. live'[d] # live[d] /\ wpc[w] = "claimed"
      BY <1>7, <2>2 DEF ExecuteBegin
    <3>2. StartDispatch(w)
      BY <1>7, <3>1 DEF ExecuteBegin, FailEarly
    <3> QED
      BY <1>7, <3>1, <3>2 DEF StartDispatch
  <2> QED
    BY <2>1, <2>2
<1>8. ASSUME NEW w \in Workers, DispatchEnd(w)
      PROVE  \/ attempt[d] \in live[d] /\ attempt'[d] = attempt[d]
             \/ \E u \in Workers : /\ wpc[u] = "claimed" /\ wcmd[u] = d
                                    /\ ExecuteBegin(u) /\ wpc'[u] = "dispatched"
  BY <1>8 DEF DispatchEnd
<1>9. CASE BootRecover
  <2>1. live'[d] = live[d] /\ attempt[d] \in Nat /\ live[d] \subseteq Nat
    BY <1>9 DEF BootRecover
  <2>2. attempt'[d] = attempt[d] \/ attempt'[d] = attempt[d] + 1
    BY <1>9 DEF BootRecover
  <2>3. attempt[d] + 1 \notin live[d]
    BY <2>1
  <2> QED
    BY <2>1, <2>2, <2>3
<1>10. CASE BootStop
  BY <1>10 DEF BootStop
<1> QED
  BY <1>1, <1>2, <1>3, <1>4, <1>5, <1>6, <1>7, <1>8, <1>9, <1>10
     DEF Next, WorkerStep, CancelStep, CloseStep, BootStep, vars, disk, worker,
         daemon, handlers, bounds

\* Only a claim makes a row `running`.
LEMMA RunningFrom ==
  ASSUME OutcomeInv, [Next]_vars, NEW d \in Commands, status'[d] = "running"
  PROVE  \/ status[d] = "running"
         \/ \E w \in Workers : wcmd'[w] = d /\ wpc'[w] = "claimed"
<1> USE DEF OutcomeInv, IInv, TypeOK, DiskType, WorkerType, WorkerOK, Terminal,
        disk, worker, daemon, handlers, bounds
<1>1. CASE UNCHANGED status
  BY <1>1
<1>2. ASSUME NEW c \in Commands,
             AdmitCheck(c) \/ CancelRead(c) \/ RequestCancel(c) \/
             CancelOwned(c) \/ CancelFails(c) \/ RecoverCleanup(c)
      PROVE  UNCHANGED status
  BY <1>2 DEF AdmitCheck, CancelRead, RequestCancel, CancelOwned, CancelFails,
     RecoverCleanup
<1>3. ASSUME NEW w \in Workers,
             ExecuteBegin(w) \/ RecordCancelCleanup(w) \/ DispatchEnd(w) \/
             PushAfterSuccess(w) \/ FinalCancelCheck(w) \/ WriteSidecar(w) \/
             RemoveSidecar(w) \/ FlushLog(w) \/ PostExecutionCheck(w) \/
             Unregister(w)
      PROVE  UNCHANGED status
  BY <1>3 DEF ExecuteBegin, RecordCancelCleanup, DispatchEnd, PushAfterSuccess,
     FinalCancelCheck, WriteSidecar, RemoveSidecar, FlushLog,
     PostExecutionCheck, Unregister
<1>4. ASSUME NEW p \in Closers, NEW s \in Sessions,
             HandleCloseSession(p, s)
      PROVE  UNCHANGED status
  BY <1>4 DEF HandleCloseSession
<1>5. ASSUME NEW p \in Closes,
             CloseRead(p) \/ CloseMark(p) \/ CloseBusyCheck(p) \/
             CloseDelete(p) \/ CloseForce(p) \/ CloseForget(p) \/
             CloseFails(p)
      PROVE  UNCHANGED status
  BY <1>5 DEF CloseRead, CloseMark, CloseBusyCheck, CloseDelete, CloseForce,
     CloseForget, CloseFails
<1>6. ASSUME Crash \/ BootRestore \/ BootSidecarsDone \/ BootStop \/
             BootRefuse \/ BootDrain \/ StartWorkers
      PROVE  UNCHANGED status
  BY <1>6 DEF Crash, BootRestore, BootSidecarsDone, BootStop, BootRefuse, BootDrain,
     StartWorkers
<1>7. ASSUME NEW c \in Commands, EnqueueCommand(c)
      PROVE  \/ status[d] = "running"
             \/ \E u \in Workers : wcmd'[u] = d /\ wpc'[u] = "claimed"
  <2>1. UNCHANGED status \/ status' = [status EXCEPT ![c] = "queued"]
    BY <1>7, Zenon DEF EnqueueCommand
  <2> QED
    BY <2>1
<1>8. ASSUME NEW w \in Workers, ClaimNextCommand(w)
      PROVE  \/ status[d] = "running"
             \/ \E u \in Workers : wcmd'[u] = d /\ wpc'[u] = "claimed"
  BY <1>8 DEF ClaimNextCommand, IsNext, Claimable
<1>9. ASSUME NEW w \in Workers, PersistRow(w)
      PROVE  \/ status[d] = "running"
             \/ \E u \in Workers : wcmd'[u] = d /\ wpc'[u] = "claimed"
  BY <1>9 DEF PersistRow, Works, Fails
<1>10. ASSUME NEW c \in Commands, CancelIfQueued(c)
      PROVE  \/ status[d] = "running"
             \/ \E u \in Workers : wcmd'[u] = d /\ wpc'[u] = "claimed"
  BY <1>10 DEF CancelIfQueued, Works, Fails
<1>11. ASSUME NEW c \in Commands, CancelUnowned(c)
      PROVE  \/ status[d] = "running"
             \/ \E u \in Workers : wcmd'[u] = d /\ wpc'[u] = "claimed"
  BY <1>11 DEF CancelUnowned, Works, Fails
<1>12. ASSUME NEW p \in Closes, CloseCancelQueued(p)
      PROVE  \/ status[d] = "running"
             \/ \E u \in Workers : wcmd'[u] = d /\ wpc'[u] = "claimed"
  BY <1>12 DEF CloseCancelQueued, CommandsOf
<1>13. ASSUME NEW c \in Commands, BootSidecar(c)
      PROVE  \/ status[d] = "running"
             \/ \E u \in Workers : wcmd'[u] = d /\ wpc'[u] = "claimed"
  BY <1>13 DEF BootSidecar, Works, Fails
<1>14. CASE BootCancelled
  BY <1>14 DEF BootCancelled, Works, Fails
<1>15. CASE BootRecover
  <2>1. status'[d] \in {"queued", status[d]}
    BY <1>15 DEF BootRecover
  <2> QED
    BY <2>1
<1> QED
  BY <1>1, <1>2, <1>3, <1>4, <1>5, <1>6, <1>7, <1>8, <1>9, <1>10, <1>11,
     <1>12, <1>13, <1>14, <1>15
     DEF Next, WorkerStep, CancelStep, CloseStep, BootStep, vars, disk, worker,
         daemon, handlers, bounds

\* The daemon comes to `stop` and further from recover_stale_commands only.
LEMMA PhaseFrom ==
  ASSUME DaemonType, [Next]_vars, phase' \in {"stop", "drain", "cleanup", "up"}
  PROVE  phase \in {"stop", "drain", "cleanup", "up"} \/ BootRecover
<1> USE DEF DaemonType, Phases, disk, worker, daemon, handlers, bounds
<1>1. CASE UNCHANGED phase
  BY <1>1
<1>2. ASSUME NEW c \in Commands,
             AdmitCheck(c) \/ EnqueueCommand(c) \/ CancelRead(c) \/
             CancelIfQueued(c) \/ RequestCancel(c) \/ CancelOwned(c) \/
             CancelUnowned(c) \/ CancelFails(c) \/ BootSidecar(c) \/
             RecoverCleanup(c)
      PROVE  UNCHANGED phase
  BY <1>2 DEF AdmitCheck, EnqueueCommand, CancelRead, CancelIfQueued, RequestCancel,
     CancelOwned, CancelUnowned, CancelFails, BootSidecar, RecoverCleanup
<1>3. ASSUME NEW w \in Workers,
             ClaimNextCommand(w) \/ ExecuteBegin(w) \/
             RecordCancelCleanup(w) \/ DispatchEnd(w) \/
             PushAfterSuccess(w) \/ FinalCancelCheck(w) \/ WriteSidecar(w) \/
             PersistRow(w) \/ RemoveSidecar(w) \/ FlushLog(w) \/
             PostExecutionCheck(w) \/ Unregister(w)
      PROVE  UNCHANGED phase
  BY <1>3 DEF ClaimNextCommand, ExecuteBegin, RecordCancelCleanup, DispatchEnd,
     PushAfterSuccess, FinalCancelCheck, WriteSidecar, PersistRow,
     RemoveSidecar, FlushLog, PostExecutionCheck, Unregister
<1>4. ASSUME NEW p \in Closers, NEW s \in Sessions,
             HandleCloseSession(p, s)
      PROVE  UNCHANGED phase
  BY <1>4 DEF HandleCloseSession
<1>5. ASSUME NEW p \in Closes,
             CloseRead(p) \/ CloseMark(p) \/ CloseCancelQueued(p) \/
             CloseBusyCheck(p) \/ CloseDelete(p) \/ CloseForce(p) \/
             CloseForget(p) \/ CloseFails(p)
      PROVE  UNCHANGED phase
  BY <1>5 DEF CloseRead, CloseMark, CloseCancelQueued, CloseBusyCheck, CloseDelete,
     CloseForce, CloseForget, CloseFails
<1>6. CASE Crash
  BY <1>6 DEF Crash, LoseDaemon
<1>7. CASE BootRestore
  BY <1>7 DEF BootRestore
<1>8. CASE BootSidecarsDone
  BY <1>8 DEF BootSidecarsDone
<1>9. CASE BootCancelled
  BY <1>9 DEF BootCancelled, Works, Fails
<1>10. CASE BootRecover
  BY <1>10 DEF BootRecover, Works, Fails
<1>11. CASE BootStop
  BY <1>11 DEF BootStop
<1>12. CASE BootRefuse
  BY <1>12 DEF BootRefuse, LoseDaemon, Fails
<1>13. CASE BootDrain
  BY <1>13 DEF BootDrain, Works, Fails
<1>14. CASE StartWorkers
  BY <1>14 DEF StartWorkers
<1> QED
  BY <1>1, <1>2, <1>3, <1>4, <1>5, <1>6, <1>7, <1>8, <1>9, <1>10, <1>11,
     <1>12, <1>13, <1>14
     DEF Next, WorkerStep, CancelStep, CloseStep, BootStep, vars, disk, worker,
         daemon, handlers, bounds

\* A running row of the serving daemon stays in a worker's hands.
LEMMA RunningHeldStep ==
  ASSUME OutcomeInv, [Next]_vars, failures' = 0, NEW d \in Commands
  PROVE  RunningHeld(d)'
<1>1. /\ failures = 0 /\ ~ Fails /\ RunningHeld(d)
      /\ IInv /\ WorkerOwns /\ SidecarAgrees /\ TypeOK
  BY FailuresGrow DEF OutcomeInv, IInv, TypeOK, ContainersKnown, Fails
<1> SUFFICES ASSUME phase' \in {"stop", "drain", "cleanup", "up"},
                    status'[d] = "running"
             PROVE  \E w \in Workers : /\ wcmd'[w] = d
                                       /\ wpc'[w] \in Unpublished \cup {"row"}
  BY DEF RunningHeld
<1>2. CASE \E w \in Workers : wcmd'[w] = d /\ wpc'[w] = "claimed"
  BY <1>2 DEF Unpublished
<1>3. CASE status[d] = "running"
  <2>1. ~ BootRecover
    BY <1>1, <1>3 DEF BootRecover
  <2>2. PICK w \in Workers : wcmd[w] = d /\ wpc[w] \in Unpublished \cup {"row"}
    BY <1>1, <1>3, <2>1, PhaseFrom DEF RunningHeld, TypeOK
  <2>3. d # NoCmd /\ wpc[w] # "idle"
    BY <2>2, QueueAssumption DEF Unpublished
  <2>4. WorkerStep(w) \/ Undisturbed(w)
    BY <1>1, WorkerView DEF Lost
  <2>5. CASE Undisturbed(w)
    BY <2>2, <2>5 DEF Undisturbed
  <2>6. \/ wcmd'[w] = d /\ wpc'[w] \in Unpublished \cup {"row"}
        \/ PersistRow(w) \/ Undisturbed(w)
    BY <1>1, <2>2, <2>3, <2>4 DEF WorkerStep, Unpublished, ClaimNextCommand,
       ExecuteBegin, FailEarly, StartDispatch, RecordCancelCleanup, DispatchEnd,
       PushAfterSuccess, FinalCancelCheck, WriteSidecar, RemoveSidecar, FlushLog,
       PostExecutionCheck, Unregister, IInv, WorkerOK, TypeOK, WorkerType,
       worker, disk
  <2>7. ~ PersistRow(w)
    <3> SUFFICES ASSUME PersistRow(w) PROVE FALSE
      OBVIOUS
    <3>1. status'[d] = wout[w]
      BY <1>1, <2>2 DEF PersistRow, TypeOK, DiskType
    <3>2. wout[w] \in Terminal
      BY <1>1, <2>3, BusyWorker DEF PersistRow
    <3> QED
      BY <3>1, <3>2 DEF Terminal
  <2> QED
    BY <2>5, <2>6, <2>7
<1> QED
  BY <1>2, <1>3, RunningFrom


\* What a crash left behind stays where bootstrap will find it.
LEMMA LeftContainer ==
  ASSUME OutcomeInv, PhaseOK', [Next]_vars, ~ Fails, NEW d \in Commands,
         attempt[d] \in live[d], attempt'[d] \in live'[d], attempt'[d] = attempt[d],
         \/ /\ phase \in {"down", "sidecars", "cancelled", "recover"}
            /\ status[d] = "running" /\ ~ Recorded(d)
         \/ /\ phase \in {"down", "sidecars", "cancelled", "recover", "stop"}
            /\ status[d] = "cancelled" /\ d \in marker
  PROVE  ContainerKnown(d)'
<1> USE DEF OutcomeInv, IInv, TypeOK, DiskType, WorkerType, PhaseOK,
        ContainerKnown, Recorded, Attempts, NoSidecar, Terminal, disk, worker,
        daemon, handlers, bounds
<1>1. CASE UNCHANGED <<live, attempt, phase, wcmd, wpc, status, sidecar, marker>>
  BY <1>1
<1>2. ASSUME NEW c \in Commands,
             AdmitCheck(c) \/ CancelRead(c) \/ CancelOwned(c) \/
             CancelFails(c) \/ RecoverCleanup(c)
      PROVE  UNCHANGED <<live, attempt, phase, wcmd, wpc, status, sidecar,
                           marker>>
  BY <1>2 DEF AdmitCheck, CancelRead, CancelOwned, CancelFails, RecoverCleanup
<1>3. ASSUME NEW w \in Workers,
             RecordCancelCleanup(w) \/ FlushLog(w)
      PROVE  UNCHANGED <<live, attempt, phase, wcmd, wpc, status, sidecar,
                           marker>>
  BY <1>3 DEF RecordCancelCleanup, FlushLog
<1>4. ASSUME NEW p \in Closers, NEW s \in Sessions,
             HandleCloseSession(p, s)
      PROVE  UNCHANGED <<live, attempt, phase, wcmd, wpc, status, sidecar,
                           marker>>
  BY <1>4 DEF HandleCloseSession
<1>5. ASSUME NEW p \in Closes,
             CloseRead(p) \/ CloseMark(p) \/ CloseBusyCheck(p) \/
             CloseDelete(p) \/ CloseForce(p) \/ CloseForget(p) \/
             CloseFails(p)
      PROVE  UNCHANGED <<live, attempt, phase, wcmd, wpc, status, sidecar,
                           marker>>
  BY <1>5 DEF CloseRead, CloseMark, CloseBusyCheck, CloseDelete, CloseForce,
     CloseForget, CloseFails
<1>6. ASSUME NEW c \in Commands, EnqueueCommand(c)
      PROVE  ContainerKnown(d)'
  BY <1>6 DEF EnqueueCommand, Works, Fails
<1>7. ASSUME NEW w \in Workers, ClaimNextCommand(w)
      PROVE  ContainerKnown(d)'
  BY <1>7 DEF ClaimNextCommand, IsNext, Claimable
<1>8. ASSUME NEW w \in Workers, ExecuteBegin(w)
      PROVE  ContainerKnown(d)'
  BY <1>8 DEF ExecuteBegin, FailEarly, StartDispatch, Works, Fails
<1>9. ASSUME NEW w \in Workers, DispatchEnd(w)
      PROVE  ContainerKnown(d)'
  BY <1>9 DEF DispatchEnd
<1>10. ASSUME NEW w \in Workers, PushAfterSuccess(w)
      PROVE  ContainerKnown(d)'
  BY <1>10 DEF PushAfterSuccess, Works, Fails
<1>11. ASSUME NEW w \in Workers, FinalCancelCheck(w)
      PROVE  ContainerKnown(d)'
  BY <1>11 DEF FinalCancelCheck, Works, Fails
<1>12. ASSUME NEW w \in Workers, WriteSidecar(w)
      PROVE  ContainerKnown(d)'
  BY <1>12 DEF WriteSidecar, Works, Fails
<1>13. ASSUME NEW w \in Workers, PersistRow(w)
      PROVE  ContainerKnown(d)'
  BY <1>13 DEF PersistRow, Works, Fails
<1>14. ASSUME NEW w \in Workers, RemoveSidecar(w)
      PROVE  ContainerKnown(d)'
  BY <1>14 DEF RemoveSidecar, Works, Fails
<1>15. ASSUME NEW w \in Workers, PostExecutionCheck(w)
      PROVE  ContainerKnown(d)'
  BY <1>15 DEF PostExecutionCheck, ClosesOrReturns
<1>16. ASSUME NEW w \in Workers, Unregister(w)
      PROVE  ContainerKnown(d)'
  BY <1>16 DEF Unregister
<1>17. ASSUME NEW c \in Commands, CancelIfQueued(c)
      PROVE  ContainerKnown(d)'
  BY <1>17 DEF CancelIfQueued, Works, Fails
<1>18. ASSUME NEW c \in Commands, RequestCancel(c)
      PROVE  ContainerKnown(d)'
  BY <1>18 DEF RequestCancel
<1>19. ASSUME NEW c \in Commands, CancelUnowned(c)
      PROVE  ContainerKnown(d)'
  BY <1>19 DEF CancelUnowned, Works, Fails
<1>20. ASSUME NEW p \in Closes, CloseCancelQueued(p)
      PROVE  ContainerKnown(d)'
  BY <1>20 DEF CloseCancelQueued, CommandsOf
<1>21. CASE Crash
  BY <1>21 DEF Crash, LoseDaemon
<1>22. CASE BootRestore
  BY <1>22 DEF BootRestore
<1>23. ASSUME NEW c \in Commands, BootSidecar(c)
      PROVE  ContainerKnown(d)'
  BY <1>23 DEF BootSidecar, Works, Fails
<1>24. CASE BootSidecarsDone
  BY <1>24 DEF BootSidecarsDone
<1>25. CASE BootCancelled
  BY <1>25 DEF BootCancelled, Works, Fails
<1>26. CASE BootRecover
  BY <1>26 DEF BootRecover, Works, Fails
<1>27. CASE BootStop
  BY <1>27 DEF BootStop
<1>28. CASE BootRefuse
  BY <1>28 DEF BootRefuse, LoseDaemon, Fails
<1>29. CASE BootDrain
  BY <1>29 DEF BootDrain, Works, Fails
<1>30. CASE StartWorkers
  BY <1>30 DEF StartWorkers
<1> QED
  BY <1>1, <1>2, <1>3, <1>4, <1>5, <1>6, <1>7, <1>8, <1>9, <1>10, <1>11,
     <1>12, <1>13, <1>14, <1>15, <1>16, <1>17, <1>18, <1>19, <1>20, <1>21,
     <1>22, <1>23, <1>24, <1>25, <1>26, <1>27, <1>28, <1>29, <1>30
     DEF Next, WorkerStep, CancelStep, CloseStep, BootStep, vars, disk, worker,
         daemon, handlers, bounds

\* A container of the current attempt stays under its dispatch, or the restart
\* that a crash forces will find it.
LEMMA ContainerKnownStep ==
  ASSUME OutcomeInv, PhaseOK', [Next]_vars, failures' = 0, NEW d \in Commands
  PROVE  ContainerKnown(d)'
<1>1. /\ failures = 0 /\ ~ Fails /\ ContainerKnown(d)
      /\ IInv /\ WorkerOwns /\ SidecarAgrees /\ TypeOK
  BY FailuresGrow DEF OutcomeInv, IInv, TypeOK, ContainersKnown, Fails
<1>2. d # NoCmd
  BY QueueAssumption
<1> SUFFICES ASSUME attempt'[d] \in live'[d]
             PROVE  ContainerKnown(d)'
  BY DEF ContainerKnown
<1>3. CASE \E w \in Workers : /\ wpc[w] = "claimed" /\ wcmd[w] = d
                              /\ ExecuteBegin(w) /\ wpc'[w] = "dispatched"
  <2>1. PICK w \in Workers : /\ wpc[w] = "claimed" /\ wcmd[w] = d
                             /\ ExecuteBegin(w) /\ wpc'[w] = "dispatched"
    BY <1>3
  <2>2. wcmd'[w] = d /\ phase' = "up"
    BY <2>1 DEF ExecuteBegin, PhaseOK
  <2> QED
    BY <2>1, <2>2 DEF ContainerKnown
<1>4. CASE attempt[d] \in live[d] /\ attempt'[d] = attempt[d]
  <2>1. CASE phase = "up" /\ \E w \in Workers : wcmd[w] = d /\ wpc[w] = "dispatched"
    <3>1. PICK w \in Workers : wcmd[w] = d /\ wpc[w] = "dispatched"
      BY <2>1
    <3>2. status[d] = "running" /\ ~ Recorded(d)
      BY <1>1, <3>1, BusyWorker DEF Unpublished
    <3>3. CASE Lost(w)
      BY <3>2, <3>3 DEF Lost, disk, ContainerKnown, Recorded
    <3>4. CASE wcmd'[w] = d /\ wpc'[w] = "dispatched"
      BY <3>4 DEF PhaseOK, ContainerKnown
    <3>5. CASE WorkerStep(w)
      <4>1. (wcmd'[w] = d /\ wpc'[w] = "dispatched") \/ DispatchEnd(w)
        BY <1>1, <3>1, <3>5 DEF WorkerStep, ClaimNextCommand, ExecuteBegin,
           RecordCancelCleanup, PushAfterSuccess, FinalCancelCheck,
           WriteSidecar, PersistRow, RemoveSidecar, FlushLog,
           PostExecutionCheck, Unregister, IInv, WorkerOK, worker
      <4>2. ~ DispatchEnd(w)
        BY <1>1, <1>4, <3>1 DEF DispatchEnd, TypeOK, DiskType
      <4> QED
        BY <3>4, <4>1, <4>2
    <3> QED
      BY <1>1, <3>1, <3>3, <3>4, <3>5, WorkerView DEF Undisturbed
  <2>2. CASE ~ (phase = "up" /\ \E w \in Workers : wcmd[w] = d /\ wpc[w] = "dispatched")
    BY <1>1, <1>4, <2>2, LeftContainer DEF ContainerKnown
  <2> QED
    BY <2>1, <2>2
<1> QED
  BY <1>3, <1>4, LiveFrom


-----------------------------------------------------------------------------
(* The theorems *)

\* The fresh daemon satisfies the invariant.
LEMMA InitOutcomeInv == Init => OutcomeInv
<1> SUFFICES ASSUME Init PROVE OutcomeInv
  OBVIOUS
<1>1. IInv
  BY InitIInv
<1> USE QueueAssumption DEF Init
<1>2. WorkerOwns /\ SidecarAgrees
  BY DEF WorkerOwns, SidecarAgrees, Recorded, NoSidecar, Unpublished, Published
<1>3. \A c \in Commands : Len(log[c]) = 0
  OBVIOUS
<1>4. LogOrdered /\ LogAgrees
  BY <1>3 DEF LogOrdered, LogAgrees, PairsOrdered, PairsSay, HasPair
<1>5. ContainersKnown
  BY DEF ContainersKnown, ContainerKnown, RunningHeld
<1> QED
  BY <1>1, <1>2, <1>4, <1>5 DEF OutcomeInv

\* Every step preserves it, and is a step of every command's lifecycle.
LEMMA NextOutcomeInv ==
  ASSUME OutcomeInv, [Next]_vars
  PROVE  OutcomeInv' /\ Lifecycle!Next
<1>1. IInv /\ WorkerOwns /\ SidecarAgrees
  BY DEF OutcomeInv
<1>2. IInv'
  BY <1>1, NextIInv
<1>3. DiskType' /\ WorkerType' /\ PhaseOK'
  BY <1>2 DEF IInv, TypeOK
<1>4. WorkerOwns'
  BY <1>1, WorkerOwnsStep
<1>5. SidecarAgrees'
  BY <1>1, SidecarAgreesStep
<1>6. \A c \in Commands : Lifecycle!Step(c)
  BY <1>3, <1>5, StepImplements
<1>7. \A w \in Workers : wcmd'[w] # NoCmd =>
        /\ wpc'[w] = "claimed" \/ flush'[w] # "none" => ~ HasPair(wcmd[w])'
        /\ failures' <= 1 =>
             /\ wpc'[w] = "row" /\ ~ Recorded(wcmd[w])' => failures' = 1
             /\ flush'[w] = "pending" => Outcome(wcmd[w])' = wout'[w]
  BY LogWorkerStep
<1>8. \A c \in Commands :
        /\ PairsOrdered(log'[c], attempt'[c])
        /\ status'[c] \in {"none", "queued"} => ~ HasPair(c)'
        /\ failures' <= 1 => PairsSay(log'[c], attempt'[c], Outcome(c)')
  BY <1>3, <1>6, LogRowStep
<1>9. LogOrdered'
  BY <1>7, <1>8 DEF LogOrdered
<1>10. LogAgrees'
  BY <1>7, <1>8 DEF LogAgrees
<1>11. ContainersKnown'
  BY <1>3, LiveBounded, RunningHeldStep, ContainerKnownStep DEF ContainersKnown
<1>12. Lifecycle!Next
  BY <1>6 DEF Lifecycle!Next
<1> QED
  BY <1>2, <1>4, <1>5, <1>9, <1>10, <1>11, <1>12 DEF OutcomeInv

\* The invariant holds in every reachable state.
THEOREM OutcomeInvariant == Spec => []OutcomeInv
<1>1. OutcomeInv /\ [Next]_vars => OutcomeInv'
  BY NextOutcomeInv
<1> QED
  BY InitOutcomeInv, <1>1, PTL DEF Spec

\* An attempt has at most one terminal pair in events.log, and the pair of the
\* last attempt says what the terminal row says, as long as at most one write
\* failed: a sidecar and a row that both fail leave the pair without a witness.
THEOREM LogTellsTheRow == Spec => [](failures <= 1 => LogAgreesWithRow)
<1>1. OutcomeInv => (failures <= 1 => LogAgreesWithRow)
  BY DEF OutcomeInv, LogOrdered, LogAgrees, PairsOrdered, PairsSay, Outcome,
     LogAgreesWithRow
<1> QED
  BY <1>1, OutcomeInvariant, PTL

\* One terminal pair per attempt, whatever fails: append_terminal and the log
\* writer of a worker never both write one.
THEOREM OnePairPerAttempt ==
  Spec => [](\A c \in Commands : PairsOrdered(log[c], attempt[c]))
<1>1. OutcomeInv => \A c \in Commands : PairsOrdered(log[c], attempt[c])
  BY DEF OutcomeInv, LogOrdered
<1> QED
  BY <1>1, OutcomeInvariant, PTL

\* Without a failure no container of a current attempt is left to itself, over
\* any number of crashes.
THEOREM ContainersOwned == Spec => []CurrentContainerOwned
<1>1. OutcomeInv => CurrentContainerOwned
  BY DEF OutcomeInv, ContainersKnown, ContainerKnown, CurrentContainerOwned
<1> QED
  BY <1>1, OutcomeInvariant, PTL

\* The queue, its workers, handlers and bootstrap implement CommandLifecycle:
\* initial states map to initial states, every step to one step or a stutter
\* of each command's lifecycle.
THEOREM QueueImplementsLifecycle == Spec => ImplementsLifecycle
<1>1. Init => Lifecycle!Init
  BY DEF Init, Lifecycle!Init, Outcome, NoSidecar, Terminal
<1>2. OutcomeInv /\ [Next]_vars => [Lifecycle!Next]_Lifecycle!vars
  BY NextOutcomeInv
<1> QED
  BY <1>1, <1>2, OutcomeInvariant, PTL DEF Spec, ImplementsLifecycle, Lifecycle!Spec

\* An outcome that is on disk is what the command ends with: no crash, cancel
\* or retry ever replaces it.
THEOREM OutcomeIsFinal ==
  Spec => [][\A c \in Commands :
               Outcome(c) # "none" => Outcome(c)' = Outcome(c)]_vars
<1>1. ASSUME OutcomeInv, [Next]_vars, NEW c \in Commands, Outcome(c) # "none"
      PROVE  Outcome(c)' = Outcome(c)
  <2>1. Lifecycle!Step(c) /\ DiskType
    BY <1>1, NextOutcomeInv DEF Lifecycle!Next, OutcomeInv, IInv, TypeOK
  <2> QED
    BY <1>1, <2>1, OutcomeType DEF Lifecycle!Step, Lifecycle!Submit,
       Lifecycle!Claim, Lifecycle!Record, Lifecycle!Finish, Lifecycle!Requeue,
       Lifecycle!Same
<1>2. OutcomeInv /\ [Next]_vars =>
        [\A c \in Commands : Outcome(c) # "none" => Outcome(c)' = Outcome(c)]_vars
  BY <1>1
<1> QED
  BY <1>2, OutcomeInvariant, PTL DEF Spec
=============================================================================
