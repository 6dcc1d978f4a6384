----------------------------- MODULE EventStream -----------------------------
(***************************************************************************)
(* The events of one command from its producers to a client of             *)
(* GET /v1/commands/{id}/logs: the bus of an execution (EventBus), the     *)
(* task that writes events.log, the subscription that replays the log and  *)
(* follows the bus (CommandLogStream), and the client, which loses its     *)
(* connection and resumes from the last event it has received.             *)
(*                                                                         *)
(* The worker is reduced to the order of what a subscriber can see of it:  *)
(* the row, the completion sidecar, the terminal pair, the end of the bus. *)
(* CommandQueue models the rest of it.                                     *)
(***************************************************************************)
EXTENDS CommandLogCursor, Sequences

CONSTANTS
  MaxAttempts,    \* bound: executions of the command
  MaxOutput,      \* bound: events of an execution before the terminal pair
  Capacity,       \* of the broadcast channel, 4096 in the code
  Plans           \* bounds: [run, skips, left], see MCEventStream

ASSUME StreamAssumption ==
  /\ MaxAttempts \in Nat \ {0} /\ MaxOutput \in Nat /\ Capacity \in Nat \ {0}
  /\ \A p \in Plans : p \in [run : BOOLEAN, skips : SUBSET Nat, left : [DOMAIN p.left -> Nat]]

VARIABLES
  row,        \* [status, attempt, structured]: the command's row
  sidecar,    \* the attempt whose completion is on disk, or 0
  log,        \* events.log: the kinds of each attempt's events, by sequence
  daemon,     \* "up" or "down"
  worker,     \* what owns the row does next
  bus,        \* "none", "open" (subscribers find it) or "gone"
  published,  \* the kinds of the bus's events, by sequence
  writes,     \* the log of this execution could be opened
  stream,     \* the subscription
  wire,       \* what it has sent on this connection
  client,     \* [last, status, done]: what the client has received
  plan        \* bounds left

command == <<row, sidecar, log>>
execution == <<daemon, worker, bus, published, writes>>
connection == <<stream, wire, client>>
vars == <<command, execution, connection, plan>>

Spend(kind) == plan.left[kind] > 0 /\ plan' = [plan EXCEPT !.left[kind] = @ - 1]

Event(attempt, sequence, kind) == [at |-> <<attempt, sequence>>, kind |-> kind]
EventsOf(attempt, kinds) == {Event(attempt, i - 1, kinds[i]) : i \in DOMAIN kinds}
Logged == UNION {EventsOf(a, log[a]) : a \in DOMAIN log}
Written == log[row.attempt]

Pair == <<"status", "done">>
NoPosition == MaxOutput + 3     \* no receiver
Offline == [pc |-> "offline", cursor |-> Opened({}, 1, Nowhere, {}), position |-> NoPosition,
            held |-> Event(0, 0, "done"), back |-> "live", terminal |-> FALSE]

Init ==
  /\ plan \in Plans
  /\ row = [status |-> "queued", attempt |-> 1, structured |-> FALSE]
  /\ sidecar = 0 /\ log = [a \in 1..MaxAttempts |-> <<>>]
  /\ daemon = "up" /\ worker = "idle" /\ bus = "none" /\ published = <<>> /\ writes = TRUE
  /\ stream = Offline /\ wire = <<>>
  /\ client = [last |-> Nowhere, status |-> FALSE, done |-> FALSE]

-----------------------------------------------------------------------------
(* The worker, the bus and the log *)

Claim ==
  /\ daemon = "up" /\ worker = "idle" /\ row.status = "queued"
  /\ row' = [row EXCEPT !.status = "running"] /\ worker' = "claimed"
  /\ UNCHANGED <<sidecar, log, daemon, bus, published, writes, connection, plan>>

\* The bus is registered before anything is emitted. The log may fail to open,
\* or the command's directory to be made; events are then only on the bus.
OpenBus ==
  /\ worker = "claimed"
  /\ bus' = "open" /\ worker' = "running"
  /\ \/ writes' = TRUE /\ UNCHANGED plan
     \/ writes' = FALSE /\ Spend("log")
  /\ UNCHANGED <<command, daemon, published, connection>>

Emit ==
  /\ worker = "running" /\ Len(published) < MaxOutput
  /\ published' = Append(published, "output")
  /\ UNCHANGED <<command, daemon, worker, bus, writes, connection, plan>>

\* The first event of a second attempt is the notice of the requeue.
WriteSidecar ==
  /\ worker = "running"
  /\ row.attempt > 1 /\ writes => published # <<>>
  /\ worker' = "completed"
  /\ \/ sidecar' = row.attempt /\ UNCHANGED plan
     \/ Spend("write") /\ UNCHANGED sidecar
  /\ UNCHANGED <<row, log, daemon, bus, published, writes, connection>>

WriteRow ==
  /\ worker = "completed"
  /\ \/ /\ row' = [row EXCEPT !.status = "terminal", !.structured = TRUE]
        /\ worker' = "stored" /\ UNCHANGED plan
     \/ worker' = "unstored" /\ Spend("write") /\ UNCHANGED row
  /\ UNCHANGED <<sidecar, log, daemon, bus, published, writes, connection>>

\* finish: the final status and Done are published under one lock.
Finish ==
  /\ worker \in {"stored", "unstored"}
  /\ published' = published \o Pair
  /\ worker' = IF worker = "stored" THEN "published" ELSE "drains"
  /\ UNCHANGED <<command, daemon, bus, writes, connection, plan>>

RemoveSidecar ==
  /\ worker = "published"
  /\ sidecar' = 0 /\ worker' = "drains"
  /\ UNCHANGED <<row, log, daemon, bus, published, writes, connection, plan>>

\* The writer has taken Done, and the bus's time in the map has passed.
DropBus ==
  /\ worker = "drains"
  /\ writes => Written = published
  /\ bus' = "gone" /\ worker' = "over"
  /\ UNCHANGED <<command, daemon, published, writes, connection, plan>>

WriteEvent ==
  /\ bus # "none" /\ writes /\ daemon = "up" /\ Len(Written) < Len(published)
  /\ log' = [log EXCEPT ![row.attempt] = Append(@, published[Len(@) + 1])]
  /\ UNCHANGED <<row, sidecar, execution, connection, plan>>

\* As Terminated, without the look for an earlier pair
PairAgain(kinds) == kinds \o Pair

\* append_terminal: what is missing of the pair, after what is there
Terminated(kinds) ==
  CASE \E i \in DOMAIN kinds : kinds[i] = "done" -> kinds
    [] /\ \A i \in DOMAIN kinds : kinds[i] # "done"
       /\ \E i \in DOMAIN kinds : kinds[i] = "status" -> Append(kinds, "done")
    [] OTHER -> kinds \o Pair

AppendTerminal == log' = [log EXCEPT ![row.attempt] = Terminated(@)]

\* A cancel in the queue: the row first, then its result, then the pair.
CancelQueued ==
  /\ daemon = "up" /\ worker = "idle" /\ row.status = "queued" /\ Spend("cancel")
  /\ row' = [row EXCEPT !.status = "terminal"] /\ worker' = "cancelled"
  /\ UNCHANGED <<sidecar, log, daemon, bus, published, writes, connection>>

PersistResult ==
  /\ worker = "cancelled"
  /\ row' = [row EXCEPT !.structured = TRUE] /\ worker' = "finalizing"
  /\ UNCHANGED <<sidecar, log, daemon, bus, published, writes, connection, plan>>

FinalizeUnowned ==
  /\ worker = "finalizing"
  /\ AppendTerminal /\ worker' = "over"
  /\ UNCHANGED <<row, sidecar, daemon, bus, published, writes, connection, plan>>

\* What is only in memory is lost: events on their way to the log, and the
\* connection.
Crash ==
  /\ daemon = "up" /\ row.attempt < MaxAttempts /\ Spend("crash")
  /\ daemon' = "down" /\ worker' = "idle"
  /\ bus' = "none" /\ published' = <<>> /\ writes' = TRUE
  /\ stream' = IF stream.pc = "offline" THEN stream ELSE [Offline EXCEPT !.pc = "lost"]
  /\ UNCHANGED <<command, wire, client>>

\* bootstrap, before the routes are served: the sidecar decides, else the command
\* runs again. Only a run's command has its missing pair repaired without one.
Boot ==
  /\ daemon = "down" /\ daemon' = "up" /\ sidecar' = 0
  /\ \/ /\ row.status = "running" /\ sidecar = row.attempt
        /\ row' = [row EXCEPT !.status = "terminal", !.structured = TRUE] /\ AppendTerminal
     \/ /\ row.status = "running" /\ sidecar # row.attempt
        /\ row' = [row EXCEPT !.status = "queued", !.attempt = @ + 1] /\ UNCHANGED log
     \/ /\ row.status = "terminal" /\ (sidecar # 0 \/ plan.run)
        /\ row' = [row EXCEPT !.structured = TRUE] /\ AppendTerminal
     \/ row.status = "queued" /\ UNCHANGED <<row, log>>
     \/ row.status = "terminal" /\ sidecar = 0 /\ ~plan.run /\ UNCHANGED <<row, log>>
  /\ worker' = IF row'.status = "terminal" THEN "over" ELSE "idle"
  /\ UNCHANGED <<bus, published, writes, connection, plan>>

-----------------------------------------------------------------------------
(* The subscription *)

Connected == stream.pc \notin {"offline", "closed", "lost"}
At(pc) == daemon = "up" /\ stream.pc = pc
Moves(pc) == stream' = [stream EXCEPT !.pc = pc]

\* The row as a subscription polls it: a matching sidecar counts as terminal.
Projected ==
  IF row.status = "running" /\ sidecar = row.attempt
  THEN [row EXCEPT !.status = "terminal", !.structured = TRUE] ELSE row

\* Forwards these events of the log or the bus, with the cursor there is
Delivers(cursor, events, pc) ==
  /\ wire' = wire \o Sent(cursor, events)
  /\ stream' = [stream EXCEPT !.cursor = Advanced(cursor, events), !.pc = pc]

\* The route reads the row; the client sends the last id it has.
Connect ==
  /\ daemon = "up" /\ stream.pc = "offline" /\ ~client.done
  /\ stream' = [Offline EXCEPT !.pc = "subscribe", !.terminal = (row.status = "terminal"),
                  !.cursor = Opened({}, row.attempt, Nowhere, plan.skips)]
  /\ wire' = <<>>
  /\ UNCHANGED <<command, execution, client, plan>>

\* Subscribe before reading the log, so that nothing falls between the two.
Subscribe ==
  /\ At("subscribe")
  /\ stream' = [stream EXCEPT !.pc = "replay",
                  !.position = IF bus = "open" THEN Len(published) ELSE NoPosition]
  /\ UNCHANGED <<command, execution, wire, client, plan>>

Restart(cursor) ==
  IF cursor.only = 0 THEN <<>> ELSE <<Event(cursor.only, 0, "restart")>>

Replay ==
  /\ At("replay")
  /\ LET cursor == Opened(Logged, stream.cursor.attempt, client.last, plan.skips)
     IN  /\ wire' = Restart(cursor) \o Sent(cursor, Logged)
         /\ stream' = [stream EXCEPT !.cursor = Advanced(cursor, Logged),
                         !.pc = CASE stream.terminal -> "end"
                                  [] ~stream.terminal /\ stream.position # NoPosition -> "live"
                                  [] OTHER -> "wait"]
  /\ UNCHANGED <<command, execution, client, plan>>

\* Every poll reads the row before anything else.
PollRow(otherwise) ==
  stream' = [stream EXCEPT !.cursor = UpdateAttempt(@, row.attempt),
               !.pc = IF Projected.status = "terminal" THEN "end" ELSE otherwise]

WaitForWorker ==
  /\ At("wait") /\ PollRow("lookup")
  /\ UNCHANGED <<command, execution, wire, client, plan>>

LookUpBus ==
  /\ At("lookup")
  /\ stream' = IF bus = "open" THEN [stream EXCEPT !.pc = "catchup", !.position = Len(published)]
               ELSE [stream EXCEPT !.pc = "wait"]
  /\ UNCHANGED <<command, execution, wire, client, plan>>

CatchUp ==
  /\ At("catchup") /\ Delivers(stream.cursor, Logged, "live")
  /\ UNCHANGED <<command, execution, client, plan>>

PollStatus ==
  /\ At("live") /\ PollRow("behind")
  /\ UNCHANGED <<command, execution, wire, client, plan>>

\* As IsBehind, trusting that a later event will reveal a gap
NeverBehind == FALSE

\* The bus has published past what the cursor has seen.
IsBehind == bus = "open" /\ row.attempt = stream.cursor.attempt
            /\ Len(published) > stream.cursor.next

ReadBehind ==
  /\ At("behind")
  /\ IF IsBehind THEN Delivers(stream.cursor, Logged, "live")
     ELSE Moves("live") /\ UNCHANGED wire
  /\ UNCHANGED <<command, execution, client, plan>>

Receiving == At("live") \/ At("await")
NextPc == IF stream.pc = "live" THEN "live" ELSE "finish"
Lagging == Len(published) - stream.position > Capacity

\* The receiver has been overrun: it goes on with the oldest event kept.
RecvLagged ==
  /\ Receiving /\ stream.position < Len(published) /\ Lagging
  /\ stream' = [stream EXCEPT !.position = Len(published) - Capacity,
                  !.pc = NextPc]
  /\ UNCHANGED <<command, execution, wire, client, plan>>

\* An event with a gap before it waits until the log has it.
RecvEvent ==
  /\ Receiving /\ stream.position < Len(published) /\ ~Lagging
  /\ LET e == Event(row.attempt, stream.position, published[stream.position + 1])
         cursor == IF stream.pc = "live" THEN UpdateAttempt(stream.cursor, row.attempt)
                   ELSE stream.cursor
         back == NextPc
     IN  IF MissingBefore(cursor, e)
         THEN /\ stream' = [stream EXCEPT !.position = @ + 1, !.pc = "gap", !.held = e,
                              !.back = back, !.cursor = cursor]
              /\ UNCHANGED wire
         ELSE /\ wire' = wire \o Sent(cursor, {e})
              /\ stream' = [stream EXCEPT !.position = @ + 1, !.pc = back,
                              !.cursor = Advanced(cursor, {e})]
  /\ UNCHANGED <<command, execution, client, plan>>

RecoverGap ==
  /\ At("gap") /\ stream.held \in Logged
  /\ wire' = wire \o Sent(stream.cursor, Logged)
  /\ stream' = [stream EXCEPT !.cursor = Advanced(@, Logged), !.pc = stream.back,
                  !.held = Offline.held, !.back = "live"]
  /\ UNCHANGED <<command, execution, client, plan>>

\* Nothing will be added to the log before the daemon starts again.
Stalled == ~writes \/ (worker = "over" /\ (bus = "none" \/ Written = published))

\* A deadline of five seconds passes: because nothing more comes, or too early.
TimesOut == (Stalled /\ UNCHANGED plan) \/ (~Stalled /\ Spend("timeout"))

\* The client resumes from what it really has.
GapTimesOut ==
  /\ At("gap") /\ stream.held \notin Logged /\ TimesOut
  /\ Moves("closed")
  /\ UNCHANGED <<command, execution, wire, client>>

\* A bus that is gone does not prove that the command has ended.
RecvClosed ==
  /\ At("live") /\ stream.position = Len(published) /\ bus = "gone"
  /\ stream' = [stream EXCEPT !.position = NoPosition,
                  !.cursor = UpdateAttempt(@, row.attempt),
                  !.pc = IF Projected.status = "terminal" THEN "end" ELSE "wait"]
  /\ UNCHANGED <<command, execution, wire, client, plan>>

-----------------------------------------------------------------------------
(* The end of a stream *)

\* finish_terminal_log reads the row once more: does it carry a result?
ReadTerminalRow ==
  /\ At("end")
  /\ stream' = [stream EXCEPT !.pc = "finish", !.terminal = Projected.structured]
  /\ UNCHANGED <<command, execution, wire, client, plan>>

\* The attempt's Done has been seen, or a row without a result promises none.
EndsNow(cursor) == cursor.done # Nowhere \/ ~stream.terminal

FinalDone(cursor) ==
  [at |-> IF cursor.done # Nowhere THEN cursor.done ELSE <<cursor.attempt, cursor.next>>,
   kind |-> "done"]

FinishLog ==
  /\ At("finish")
  /\ LET cursor == Advanced(stream.cursor, Logged)
         sent == wire \o Sent(stream.cursor, Logged)
     IN  /\ wire' = IF EndsNow(cursor) THEN Append(sent, FinalDone(cursor)) ELSE sent
         /\ stream' = [stream EXCEPT !.cursor = cursor,
                         !.pc = IF EndsNow(cursor) THEN "closed" ELSE "await"]
  /\ UNCHANGED <<command, execution, client, plan>>

\* The log is read again every 20 milliseconds, which shows when it has grown.
ReadAgain ==
  /\ At("await") /\ Advanced(stream.cursor, Logged) # stream.cursor
  /\ Moves("finish")
  /\ UNCHANGED <<command, execution, wire, client, plan>>

\* Completion from the row alone: events without an id.
LogDeadline ==
  /\ At("await") /\ TimesOut
  /\ wire' = wire \o (IF stream.cursor.status THEN <<>> ELSE <<Event(0, 0, "status")>>)
                  \o <<Event(0, 0, "done")>>
  /\ Moves("closed")
  /\ UNCHANGED <<command, execution, client>>

-----------------------------------------------------------------------------
(* The client *)

\* The connection breaks: what is on its way may be lost.
Drop ==
  /\ Connected /\ Spend("drop")
  /\ Moves("lost")
  /\ UNCHANGED <<command, execution, wire, client>>

Received(frames) ==
  LET ids == {i \in DOMAIN frames : frames[i].at # Nowhere /\ frames[i].kind # "restart"}
  IN  [last |-> IF ids = {} THEN client.last
                ELSE frames[CHOOSE i \in ids : \A j \in ids : j <= i].at,
       status |-> client.status \/ \E i \in DOMAIN frames : frames[i].kind = "status",
       done |-> \E i \in DOMAIN frames : frames[i].kind = "done"]

\* What the client has when the connection is over; then it comes back.
Receive ==
  /\ stream.pc \in {"closed", "lost"}
  /\ \E n \in 0..Len(wire) :
       /\ stream.pc = "closed" => n = Len(wire)
       /\ client' = Received(SubSeq(wire, 1, n))
  /\ stream' = Offline /\ wire' = <<>>
  /\ UNCHANGED <<command, execution, plan>>

-----------------------------------------------------------------------------

WorkerStep == \/ Claim \/ OpenBus \/ Emit \/ WriteSidecar \/ WriteEvent \/ CancelQueued

Ending == WriteRow \/ Finish \/ RemoveSidecar \/ DropBus \/ PersistResult \/ FinalizeUnowned

StreamStep ==
  \/ Subscribe \/ Replay \/ WaitForWorker \/ LookUpBus \/ CatchUp
  \/ PollStatus \/ ReadBehind \/ RecvLagged \/ RecvEvent \/ RecvClosed
  \/ RecoverGap \/ GapTimesOut
  \/ ReadTerminalRow \/ FinishLog \/ ReadAgain \/ LogDeadline

Next ==
  \/ WorkerStep \/ Ending \/ Crash \/ Boot
  \/ StreamStep \/ Connect \/ Receive \/ Drop

Spec == Init /\ [][Next]_vars

\* A command that has completed is stored and published, the log's writer and the
\* subscription are polled, a daemon that died is started again, and the client
\* comes back. Nothing obliges a command to emit, to end or to be claimed.
FairSpec ==
  /\ Spec
  /\ WF_vars(Ending) /\ WF_vars(WriteEvent) /\ WF_vars(Boot)
  /\ WF_vars(StreamStep) /\ WF_vars(Connect \/ Receive)

-----------------------------------------------------------------------------
(* Properties *)

Kinds == {"output", "status", "done"}
Positions == (0..MaxAttempts) \X (0..MaxOutput + 3)
Frames == [at : Positions, kind : Kinds \cup {"restart"}]

\* Every variable has its type, and the log holds what the bus has published.
TypeOK ==
  /\ row \in [status : {"queued", "running", "terminal"}, attempt : 1..MaxAttempts,
              structured : BOOLEAN]
  /\ sidecar \in 0..MaxAttempts
  /\ \A a \in 1..MaxAttempts : log[a] \in Seq(Kinds) /\ Len(log[a]) <= MaxOutput + 2
  /\ daemon \in {"up", "down"} /\ bus \in {"none", "open", "gone"}
  /\ worker \in {"idle", "claimed", "running", "completed", "stored", "unstored",
                "published", "drains", "cancelled", "finalizing", "over"}
  /\ published \in Seq(Kinds) /\ Len(published) <= MaxOutput + 2 /\ writes \in BOOLEAN
  /\ bus # "none" => Written = SubSeq(published, 1, Len(Written))
  /\ stream.cursor.last \in Positions /\ stream.position \in 0..NoPosition
  /\ \A i \in DOMAIN wire : wire[i] \in Frames
  /\ client.last \in Positions /\ client.status \in BOOLEAN /\ client.done \in BOOLEAN

\* The stream said that it starts over.
Restarted == wire # <<>> /\ Head(wire).kind = "restart"

Identified == {i \in DOMAIN wire : wire[i].kind \in {"output", "status"} /\ wire[i].at # Nowhere}

\* What the client knows to have been delivered before frame i
Delivered(i) ==
  Latest({wire[j].at : j \in {k \in Identified : k < i}}
         \cup {IF Restarted THEN Nowhere ELSE client.last})

\* What a client of this connection is entitled to
Existing ==
  {e \in Logged \cup EventsOf(row.attempt, published) :
     /\ e.kind # "done" /\ (e.kind = "status" \/ e.at[2] \notin plan.skips)
     /\ Restarted => e.at[1] = Head(wire).at[1]}

\* Every frame with an id follows the one before, or the position the client
\* resumes from, with no event between the two: none is sent twice, out of order
\* or skipped, wherever the subscription begins, however far it lags behind the
\* bus or runs ahead of the log. Judged while the daemon lives: the next one may put
\* the pair at positions whose events are lost.
StreamInOrder ==
  stream.pc # "lost" => \A i \in Identified :
    /\ Before(Delivered(i), wire[i].at)
    /\ \A e \in Existing : ~(Before(Delivered(i), e.at) /\ Before(e.at, wire[i].at))

\* The final status has a position the client has passed: a crash lost the tail of
\* the log, which the client had received, and the pair took its place.
Overtaken ==
  \E e \in Logged : e.at[1] = row.attempt /\ e.kind = "status" /\ ~Before(client.last, e.at)

\* Done is the last frame, and it is true: the command has ended, the client has its
\* final status, and nothing before it is missing. Three cases are excepted: a
\* cancel in the queue whose result is not stored yet, a client whom a crash has
\* put ahead of the log (Overtaken), and, for events only, a Done without an id.
DoneTellsAll ==
  (wire # <<>> /\ wire[Len(wire)].kind = "done") =>
    LET done == wire[Len(wire)] IN
    /\ Projected.status = "terminal"
    /\ \/ stream.terminal = FALSE
       \/ Overtaken
       \/ client.status \/ \E i \in DOMAIN wire : wire[i].kind = "status"
    /\ (stream.terminal /\ done.at # Nowhere /\ stream.pc = "closed") =>
         \A e \in Existing : ~Before(Delivered(Len(wire)), e.at)

\* What a client is told: exactly the events, and a Done that tells all.
StreamExact == StreamInOrder /\ DoneTellsAll

\* An event that is on its way to the log reaches a client that stays connected,
\* though no later event reveals that it was missed; and a client that keeps
\* coming back learns that the command has ended.
StreamFollows ==
  /\ \A s \in 0..MaxOutput - 1 :
       (/\ Connected /\ bus = "open" /\ writes
        /\ Len(published) > s /\ published[s + 1] = "output")
         ~> (~Connected \/ ~Before(stream.cursor.last, <<row.attempt, s>>))
  /\ (Projected.status = "terminal") ~> client.done
=============================================================================
