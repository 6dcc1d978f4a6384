---------------------------- MODULE RunAdmission ----------------------------
(***************************************************************************)
(* Admission under one Idempotency-Key: POST /v1/sessions, /v1/commands or  *)
(* /v1/runs, sent and retried by several requests with the same key, while  *)
(* requests are dropped, writes fail, sessions are deleted and the daemon   *)
(* dies and restarts.                                                       *)
(*                                                                          *)
(* Request r creates (at most) its own session and command, so both are     *)
(* named after r.  Every store call is one transaction and one step.  The   *)
(* 24-hour expiry of a key is not modelled: all requests come within it.    *)
(***************************************************************************)
EXTENDS Naturals

CONSTANTS
  Requests,     \* the requests sent with the key
  BodyOf,       \* the canonical body (its hash) of each request
  Routes,       \* the routes the key may be used on
  NoReq,        \* no request
  MaxCrashes,   \* bound: how often the daemon may die
  MaxFailures   \* bound: how many store or file operations may fail

ASSUME AdmissionAssumption ==
  /\ NoReq \notin Requests
  /\ Routes \subseteq {"session", "command", "run"}
  /\ MaxCrashes \in Nat /\ MaxFailures \in Nat

VARIABLES
  route, remote, closes,    \* the submission: its route, its session_type,
                            \* its close_on_finish
  \* On disk.
  key,          \* the idempotency_keys row, or NoKey
  session,      \* sessions.status of the session r creates, or "none"
  setup,        \* its setup_status: "initializing" while in progress
  link,         \* requests with a `runs` row
  cmd,          \* status of the command r creates, or "none"
  \* In the daemon.
  up, rpc,      \* is it serving; where the handler of r is
  reply,        \* what the client of r got, and whose resource it names
  started,      \* history: requests whose work was handed to its owner
  crashes, failures

submission == <<route, remote, closes>>
rows == <<session, setup, link, cmd>>
bounds == <<crashes, failures>>
vars == <<submission, key, rows, up, rpc, reply, started, bounds>>

NoReply == [code |-> "none", of |-> NoReq]
\* `epoch` stands for owner_instance: the id of one daemon process.  `code` is
\* the stored response; `intent` says a 202 for `res` was recorded.
NoKey == [owner |-> NoReq, epoch |-> 0, body |-> NoReq, code |-> "none",
          intent |-> FALSE, kind |-> "none", res |-> NoReq]

Init ==
  /\ route \in Routes /\ remote \in BOOLEAN /\ closes \in BOOLEAN
  /\ key = NoKey
  /\ session = [r \in Requests |-> "none"]
  /\ setup = [r \in Requests |-> "none"]
  /\ link = {} /\ cmd = [r \in Requests |-> "none"]
  /\ up = TRUE /\ rpc = [r \in Requests |-> "new"]
  /\ reply = [r \in Requests |-> NoReply]
  /\ started = {} /\ crashes = 0 /\ failures = 0

Fails == failures < MaxFailures /\ failures' = failures + 1
Works == failures' = failures
Goto(r, pc) == rpc' = [rpc EXCEPT ![r] = pc]
Answer(r, code, of) ==
  /\ reply' = [reply EXCEPT ![r] = [code |-> code, of |-> of]]
  /\ Goto(r, "done")

-----------------------------------------------------------------------------
(* The reservation *)

Open(q) == session[q] \in {"active", "closing"}
\* The reservation still belongs to r's unfinished request.
Own(r) == key.owner = r /\ key.epoch = crashes /\ key.code = "none"
\* A failed or unfinished admission whose session is not closed yet.
Barrier == key.kind = "compensating" /\ Open(key.res)

\* Mutant of IntentToResponse: the rows are not consulted.
IntentForgotten(k) == k

\* admitted_intent_to_response: the recorded resource exists, so the work was
\* admitted and its recorded response becomes the stored one.
IntentToResponse(k) ==
  IF /\ k.code = "none" /\ k.intent
     /\ \/ k.kind = "session" /\ session[k.res] # "none"
        \/ k.kind = "command" /\ cmd[k.res] # "none"
  THEN [k EXCEPT !.code = "accepted"] ELSE k

\* idempotency_begin, what it works on once no barrier is pending.
Current == IntentToResponse(IF key.kind = "compensating" THEN NoKey ELSE key)

\* idempotency_release's DELETE keeps a pending barrier.
Released == IF Barrier THEN key ELSE NoKey

\* idempotency_release_unless_admitted, run by the guard's Drop.
ReleasedUnlessAdmitted ==
  LET k == IntentToResponse(key) IN IF k.code # "none" THEN k ELSE Released

Reserved(r) == [NoKey EXCEPT !.owner = r, !.epoch = crashes, !.body = BodyOf[r]]
WithIntent(r) == [key EXCEPT !.intent = TRUE, !.res = r,
                    !.kind = IF route = "session" THEN "session" ELSE "command"]
WithBarrier(r) == [key EXCEPT !.intent = FALSE, !.res = r,
                     !.kind = "compensating"]

-----------------------------------------------------------------------------
(* IdempotencyGate::open *)

Begin(r) == up /\ rpc[r] = "new" /\ Works
            /\ UNCHANGED <<submission, rows, up, started, crashes>>

\* Somebody of this daemon holds the key, or a rollback is pending.
BeginInFlight(r) ==
  /\ Begin(r)
  /\ \/ Barrier /\ UNCHANGED key
     \/ /\ ~ Barrier /\ key' = Current
        /\ Current # NoKey /\ Current.code = "none" /\ Current.epoch = crashes
  /\ Answer(r, IF key.body = BodyOf[r] THEN "in_flight" ELSE "mismatch", NoReq)

\* The key has a stored response.
BeginReplay(r) ==
  /\ Begin(r)
  /\ ~ Barrier /\ Current.code # "none"
  /\ key' = Current
  /\ IF Current.body = BodyOf[r] THEN Answer(r, Current.code, Current.res)
     ELSE Answer(r, "mismatch", NoReq)

\* The key is free, or held by a daemon that exited without admitting.
BeginFresh(r) ==
  /\ Begin(r)
  /\ ~ Barrier
  /\ Current = NoKey \/ (Current.code = "none" /\ Current.epoch # crashes)
  /\ key' = Reserved(r)
  /\ Goto(r, "validate") /\ UNCHANGED reply

BeginFails(r) ==
  /\ up /\ rpc[r] = "new" /\ Fails
  /\ Answer(r, "error", NoReq)
  /\ UNCHANGED <<submission, key, rows, up, started, crashes>>

-----------------------------------------------------------------------------
(* admit_session and admit_command *)

\* One store call of a handler: from pc it goes to `good`, or to `bad` when
\* the call fails, in which case it changed nothing.
Call(r, pc, good, bad) ==
  /\ rpc[r] = pc
  /\ \/ Works /\ Goto(r, good)
     \/ Fails /\ Goto(r, bad)
  /\ UNCHANGED <<submission, up, reply, crashes>>

\* Validation and, on /v1/commands, command_admission: 4xx, 5xx or go on.
Validate(r) ==
  /\ \/ Call(r, "validate", "intent", "fail")
     \/ Call(r, "validate", "reject", "fail")
  /\ UNCHANGED <<key, rows, started>>

\* admission_body: the intent, before the first durable write.
RecordIntent(r) ==
  /\ Call(r, "intent", IF ~ Own(r) THEN "fail"
                       ELSE IF route = "command" THEN "enqueue" ELSE "insert",
          "fail")
  /\ key' = IF Works /\ Own(r) THEN WithIntent(r) ELSE key
  /\ UNCHANGED <<rows, started>>

\* Mutant of InsertSession: the session without the barrier.
InsertSessionBare(r) ==
  /\ Call(r, "insert", IF Own(r) THEN "metadata" ELSE "fail", "fail")
  /\ IF Works /\ Own(r)
     THEN /\ session' = [session EXCEPT ![r] = "active"]
          /\ setup' = [setup EXCEPT ![r] = "initializing"]
     ELSE UNCHANGED <<session, setup>>
  /\ UNCHANGED <<key, link, cmd, started>>

\* insert_session_for_admission: barrier and session in one transaction.
InsertSession(r) ==
  /\ Call(r, "insert", IF Own(r) THEN "metadata" ELSE "fail", "fail")
  /\ IF Works /\ Own(r)
     THEN /\ key' = WithBarrier(r)
          /\ session' = [session EXCEPT ![r] = "active"]
          /\ setup' = [setup EXCEPT ![r] = "initializing"]
     ELSE UNCHANGED <<key, session, setup>>
  /\ UNCHANGED <<link, cmd, started>>

\* set_remote_fields and set_labels
RecordMetadata(r) ==
  /\ Call(r, "metadata", IF route = "run" THEN "link" ELSE "admit",
          "compensate")
  /\ UNCHANGED <<key, rows, started>>

RecordRun(r) ==
  /\ Call(r, "link", "enqueue", "compensate")
  /\ link' = IF Works THEN link \cup {r} ELSE link
  /\ UNCHANGED <<key, session, setup, cmd, started>>

\* enqueue_command: on /v1/commands the row alone is the admission.
EnqueueCommand(r) ==
  /\ Call(r, "enqueue", IF route = "run" THEN "admit" ELSE "accept",
          IF route = "run" THEN "compensate" ELSE "fail")
  /\ IF Works
     THEN /\ cmd' = [cmd EXCEPT ![r] = "queued"]
          /\ started' = IF route = "run" THEN started ELSE started \cup {r}
     ELSE UNCHANGED <<cmd, started>>
  /\ UNCHANGED <<key, session, setup, link>>

\* The intent again, now that everything it names exists, and the setup task
\* is spawned: there is no await between the two.
RecordAdmission(r) ==
  /\ Call(r, "admit", IF Own(r) THEN "accept" ELSE "compensate", "compensate")
  /\ IF Works /\ Own(r)
     THEN key' = WithIntent(r) /\ started' = started \cup {r}
     ELSE UNCHANGED <<key, started>>
  /\ UNCHANGED rows

-----------------------------------------------------------------------------
(* compensate_session, which closes the session as close() does *)

\* Voids the intent; the barrier of the insert stays if that fails.
Compensate(r) ==
  /\ Call(r, "compensate", "read", "read")
  /\ key' = IF Works /\ Own(r) THEN WithBarrier(r) ELSE key
  /\ UNCHANGED <<rows, started>>

CloseRead(r) ==
  /\ Call(r, "read", CASE session[r] = "active" -> "mark"
                       [] session[r] = "closing" -> "delete"
                       [] OTHER -> "fail", "fail")
  /\ UNCHANGED <<key, rows, started>>

\* update_session_status does not look at the status it replaces.
CloseMark(r) ==
  /\ Call(r, "mark", "cancel", "fail")
  /\ session' = IF Works THEN [session EXCEPT ![r] = "closing"] ELSE session
  /\ UNCHANGED <<key, setup, link, cmd, started>>

CloseCancel(r) ==
  /\ Call(r, "cancel", "delete", "fail")
  /\ cmd' = IF Works /\ cmd[r] = "queued"
            THEN [cmd EXCEPT ![r] = "cancelled"] ELSE cmd
  /\ UNCHANGED <<key, session, setup, link, started>>

\* finish_close: the directory, then the row.
CloseFinish(r) ==
  /\ Call(r, "delete", "fail", "fail")
  /\ session' = IF Works THEN [session EXCEPT ![r] = "closed"] ELSE session
  /\ UNCHANGED <<key, setup, link, cmd, started>>

-----------------------------------------------------------------------------
(* with_idempotency: the end of a request *)

\* Mutant of FinishError: a 5xx is stored like any other response.
FinishErrorStored(r) ==
  /\ rpc[r] = "fail" /\ Works
  /\ key' = IF Own(r) THEN [key EXCEPT !.code = "error", !.res = r] ELSE key
  /\ Answer(r, "error", NoReq)
  /\ UNCHANGED <<submission, rows, up, started, crashes>>

\* A 5xx releases the key.
FinishError(r) ==
  /\ rpc[r] = "fail"
  /\ \/ Works /\ key' = IF Own(r) THEN Released ELSE key
     \/ Fails /\ UNCHANGED key
  /\ Answer(r, "error", NoReq)
  /\ UNCHANGED <<submission, rows, up, started, crashes>>

\* Anything else is stored; if that fails, the guard's Drop still runs.
FinishFinal(r) ==
  LET code == IF rpc[r] = "accept" THEN "accepted" ELSE "rejected" IN
  /\ rpc[r] \in {"accept", "reject"}
  /\ \/ /\ Works
        /\ key' = IF Own(r) /\ key.kind # "compensating"
                  THEN [key EXCEPT !.code = code, !.res = r] ELSE key
     \/ Fails /\ key' = IF Own(r) THEN ReleasedUnlessAdmitted ELSE key
  /\ Answer(r, code, r)
  /\ UNCHANGED <<submission, rows, up, started, crashes>>

\* The client goes away while the handler awaits: the guard's Drop runs.
DropRequest(r) ==
  /\ rpc[r] = "validate" \/ (rpc[r] = "delete" /\ remote)
  /\ \/ Works /\ key' = IF Own(r) THEN ReleasedUnlessAdmitted ELSE key
     \/ Fails /\ UNCHANGED key
  /\ Goto(r, "gone")
  /\ UNCHANGED <<submission, rows, up, reply, started, crashes>>

-----------------------------------------------------------------------------
(* The rest of the daemon, as far as admission meets it *)

\* DELETE /v1/sessions/{id}: sessions are listed before they are admitted.
HandleCloseSession(q) ==
  /\ up /\ Open(q)
  /\ session' = [session EXCEPT ![q] = "closed"]
  /\ cmd' = [cmd EXCEPT ![q] = IF @ = "queued" THEN "cancelled" ELSE @]
  /\ UNCHANGED <<submission, key, setup, link, up, rpc, reply, started, bounds>>

\* The setup task of an admitted session reaches `ready` or `failed`.
SetupEnds(q) ==
  /\ up /\ q \in started /\ setup[q] = "initializing"
  /\ setup' = [setup EXCEPT ![q] = "over"]
  /\ UNCHANGED <<submission, key, session, link, cmd, up, rpc, reply, started,
                 bounds>>

Crash ==
  /\ up /\ crashes < MaxCrashes
  /\ up' = FALSE /\ crashes' = crashes + 1
  /\ rpc' = [r \in Requests |->
               IF rpc[r] \in {"new", "done"} THEN rpc[r] ELSE "gone"]
  /\ UNCHANGED <<submission, key, rows, reply, started, failures>>

\* bootstrap: a remote session without a clone is closed (only a setup task
\* makes one); an interrupted setup is failed, with its run's command and,
\* under close_on_finish, its session; a drained closing session is closed.
Boot ==
  /\ ~ up /\ up' = TRUE
  /\ \E gone \in SUBSET Requests :
       /\ IF remote THEN Requests \ started \subseteq gone ELSE gone = {}
       /\ LET hit == {q \in Requests : setup[q] = "initializing"} IN
          /\ setup' = [q \in Requests |-> IF q \in hit THEN "over" ELSE setup[q]]
          /\ cmd' = [q \in Requests |->
                       IF q \in hit \cap link /\ cmd[q] = "queued"
                       THEN "error" ELSE cmd[q]]
          /\ session' = [q \in Requests |->
               IF Open(q) /\ \/ q \in gone
                             \/ closes /\ q \in link
                                /\ (q \in hit \/ cmd'[q] \in {"error", "cancelled"})
                             \/ session[q] = "closing" /\ cmd'[q] # "queued"
               THEN "closed" ELSE session[q]]
  /\ UNCHANGED <<submission, key, link, rpc, reply, started, bounds>>

-----------------------------------------------------------------------------
RequestStep(r) ==
  \/ BeginInFlight(r) \/ BeginReplay(r) \/ BeginFresh(r) \/ BeginFails(r)
  \/ Validate(r) \/ RecordIntent(r) \/ InsertSession(r) \/ RecordMetadata(r)
  \/ RecordRun(r) \/ EnqueueCommand(r) \/ RecordAdmission(r) \/ Compensate(r)
  \/ CloseRead(r) \/ CloseMark(r) \/ CloseCancel(r) \/ CloseFinish(r)
  \/ FinishError(r) \/ FinishFinal(r) \/ DropRequest(r)
  \/ HandleCloseSession(r) \/ SetupEnds(r)

Next == (\E r \in Requests : RequestStep(r)) \/ Crash \/ Boot

Spec == Init /\ [][Next]_vars

-----------------------------------------------------------------------------
(* Properties *)

Pcs == {"new", "validate", "intent", "insert", "metadata", "link", "enqueue",
        "admit", "compensate", "read", "mark", "cancel", "delete", "fail",
        "accept", "reject", "done", "gone"}

\* Every variable has its type.
TypeOK ==
  /\ route \in Routes /\ remote \in BOOLEAN /\ closes \in BOOLEAN
  /\ key.owner \in Requests \cup {NoReq} /\ key.epoch \in 0 .. MaxCrashes
  /\ key.code \in {"none", "accepted", "rejected"} /\ key.intent \in BOOLEAN
  /\ key.kind \in {"none", "session", "command", "compensating"}
  /\ key.res \in Requests \cup {NoReq}
  /\ session \in [Requests -> {"none", "active", "closing", "closed"}]
  /\ setup \in [Requests -> {"none", "initializing", "over"}]
  /\ link \subseteq Requests
  /\ cmd \in [Requests -> {"none", "queued", "cancelled", "error"}]
  /\ up \in BOOLEAN /\ rpc \in [Requests -> Pcs]
  /\ started \subseteq Requests
  /\ crashes \in 0 .. MaxCrashes /\ failures \in 0 .. MaxFailures

\* However requests, crashes, failed writes and deletes interleave, the work
\* of one key is started at most once, and the key never has two live sessions:
\* a retry creates one only when the session of every earlier request is on its
\* way out (idempotency_begin, the rollback barrier, compensate_session and
\* admitted_intent_to_response together).
OneAdmission ==
  /\ \A r, q \in started : r = q
  /\ \A r, q \in Requests : session[r] = "active" /\ session[q] = "active" => r = q

\* A 202, first hand or replayed, names work that was started; a 5xx was
\* given for work that was not ("nothing was stored").
RepliesAreTrue ==
  \A r \in Requests :
    /\ reply[r].code = "accepted" => reply[r].of \in started
    /\ reply[r].code = "error" => r \notin started

\* "While the original is still being handled" is when a retry is told 409
\* in_flight: some request with the key is still being handled.
InFlightIsHandled ==
  [][\A r \in Requests :
       reply[r].code = "none" /\ reply'[r].code = "in_flight" =>
         \E q \in Requests \ {r} : rpc[q] \notin {"new", "done", "gone"}]_vars

=============================================================================
