------------------------- MODULE RunAdmissionProofs -------------------------
(***************************************************************************)
(* OneAdmission and RepliesAreTrue, for every set of requests with one key, *)
(* on every route, and every number of crashes and failures.                *)
(*                                                                          *)
(* The argument: the row of the key never forgets work that was handed to   *)
(* its owner (Remembered), nor a session that is not on its way out         *)
(* (Guarded), and never takes anything else for admitted work (Honest).     *)
(* RequestShape says what a handler has done when it is at a given await.   *)
(***************************************************************************)
EXTENDS RunAdmission, TLAPS

Codes == {"none", "accepted", "rejected", "error", "in_flight", "mismatch"}

KeyRecord ==
  [owner : Requests \cup {NoReq}, epoch : 0 .. MaxCrashes,
   body : {BodyOf[r] : r \in Requests} \cup {NoReq},
   code : {"none", "accepted", "rejected"}, intent : BOOLEAN,
   kind : {"none", "session", "command", "compensating"},
   res : Requests \cup {NoReq}]

\* The row of the key and the answers, as records: TypeOK names their fields.
RecordType ==
  /\ key \in KeyRecord
  /\ reply \in [Requests -> [code : Codes, of : Requests \cup {NoReq}]]

\* What a handler has written when it is at a given await.
RequestShape ==
  \A r \in Requests :
    /\ rpc[r] \in {"new", "validate", "intent", "insert", "reject"} =>
         session[r] = "none" /\ cmd[r] = "none"
    /\ rpc[r] = "insert" => route # "command"
    /\ rpc[r] = "metadata" => route # "command" /\ session[r] # "none"
    /\ rpc[r] = "link" => route = "run" /\ session[r] # "none"
    /\ rpc[r] = "enqueue" /\ route # "command" =>
         route = "run" /\ session[r] # "none"
    /\ rpc[r] = "admit" =>
         /\ route # "command" /\ session[r] # "none"
         /\ route = "run" => cmd[r] # "none"
    /\ rpc[r] \in {"mark", "cancel", "delete"} => session[r] # "none"
    /\ rpc[r] = "accept" => r \in started
    /\ rpc[r] # "done" => reply[r].code = "none"

\* The one write that is not guarded by the row is of a request that holds it.
CommandOwned ==
  \A r \in Requests :
    rpc[r] = "enqueue" /\ route = "command" =>
      /\ Own(r) /\ key.intent /\ key.kind = "command" /\ key.res = r
      /\ cmd[r] = "none"

\* The resource that an intent of this kind names exists.
Exists(k) == \/ k.kind = "session" /\ session[k.res] # "none"
             \/ k.kind = "command" /\ cmd[k.res] # "none"

\* Work that was started is what the key stands for, for good.
Remembered ==
  \A r \in started :
    /\ rpc[r] \in {"accept", "done", "gone"}
    /\ key.owner = r /\ key.res = r
    /\ key.kind # "compensating"
    /\ key.code = "accepted" \/ (key.code = "none" /\ key.intent /\ Exists(key))

\* A session that is not closing is what the key stands for: the work of its
\* request was started, or the rollback barrier keeps the key from being taken.
Guarded ==
  \A r \in Requests : session[r] = "active" =>
    /\ key.owner = r /\ key.res = r
    /\ r \in started \/ (key.kind = "compensating" /\ key.code = "none" /\ ~ key.intent)

\* A stored 202, or an intent of which anything was written, names work that
\* was started.
Honest ==
  /\ key.code = "accepted" => key.res \in started
  /\ key.code = "none" /\ key.intent =>
       /\ key.res \in Requests
       /\ key.res \in started \/ (session[key.res] = "none" /\ cmd[key.res] = "none")

IInv == /\ TypeOK /\ RecordType /\ RequestShape /\ CommandOwned
        /\ Remembered /\ Guarded /\ Honest /\ RepliesAreTrue

-----------------------------------------------------------------------------
(* What the operations on the row of the key return *)

\* Each of them returns a row.
LEMMA KeyOperatorTypes ==
  ASSUME TypeOK, RecordType, NEW r \in Requests
  PROVE  /\ Current \in KeyRecord
         /\ Released \in KeyRecord /\ ReleasedUnlessAdmitted \in KeyRecord
         /\ Reserved(r) \in KeyRecord /\ WithIntent(r) \in KeyRecord
         /\ WithBarrier(r) \in KeyRecord
         /\ \A code \in {"accepted", "rejected"} :
              [key EXCEPT !.code = code, !.res = r] \in KeyRecord
<1> USE AdmissionAssumption DEF TypeOK, RecordType, KeyRecord
<1>1. NoKey \in KeyRecord /\ key \in KeyRecord
  BY DEF NoKey
<1>2. ASSUME NEW k \in KeyRecord
      PROVE  IntentToResponse(k) \in KeyRecord
  BY <1>2 DEF IntentToResponse
<1>3. Current \in KeyRecord
  BY <1>1, <1>2 DEF Current
<1>4. Released \in KeyRecord
  BY <1>1 DEF Released
<1>5. ReleasedUnlessAdmitted \in KeyRecord
  BY <1>1, <1>2, <1>4 DEF ReleasedUnlessAdmitted
<1>6. Reserved(r) \in KeyRecord
  BY <1>1 DEF Reserved
<1>7. WithIntent(r) \in KeyRecord /\ WithBarrier(r) \in KeyRecord
  BY DEF WithIntent, WithBarrier
<1>8. \A code \in {"accepted", "rejected"} :
        [key EXCEPT !.code = code, !.res = r] \in KeyRecord
  OBVIOUS
<1> QED
  BY <1>3, <1>4, <1>5, <1>6, <1>7, <1>8

\* A row turned into its stored response by admitted_intent_to_response stands
\* for the same work, and only for work that was started.
LEMMA ConvertedIsAdmitted ==
  ASSUME IInv, IntentToResponse(key) # key
  PROVE  /\ IntentToResponse(key) = [key EXCEPT !.code = "accepted"]
         /\ key.code = "none" /\ key.intent /\ Exists(key)
         /\ key.res \in started
BY DEF IInv, TypeOK, RecordType, KeyRecord, Honest, IntentToResponse, Exists

\* While work of the key was started, or one of its sessions is live, neither
\* idempotency_begin nor a release finds the key free.
LEMMA NeverFree ==
  ASSUME IInv, NEW q \in Requests, q \in started \/ session[q] = "active"
  PROVE  /\ Barrier \/ Current.code = "accepted"
         /\ Released = key \/ q \in started
         /\ ReleasedUnlessAdmitted \in {key, [key EXCEPT !.code = "accepted"]}
<1> USE DEF IInv, TypeOK, RecordType, KeyRecord, Barrier, Open
<1>1. CASE q \in started
  BY <1>1 DEF Remembered, IntentToResponse, Exists, Current,
     ReleasedUnlessAdmitted
<1>2. CASE q \notin started
  BY <1>2 DEF Guarded, IntentToResponse, Released, ReleasedUnlessAdmitted
<1> QED
  BY <1>1, <1>2

\* A stored response leaves the row of the request that holds it its own.
LEMMA StoredKeepsRow ==
  ASSUME key \in KeyRecord, NEW r \in Requests, key.owner = r, key.res = r,
         key' \in {key, [key EXCEPT !.code = "accepted"],
                  [key EXCEPT !.code = "accepted", !.res = r]}
  PROVE  /\ key'.owner = r /\ key'.res = r /\ key'.kind = key.kind
         /\ key'.intent = key.intent /\ key'.code \in {key.code, "accepted"}
BY DEF KeyRecord

-----------------------------------------------------------------------------
(* Every step of a request preserves every part of IInv *)

\* The handlers and the store keep to their types; what they write of the key
\* is always a row.
LEMMA TypeStep ==
  ASSUME IInv, NEW r \in Requests, RequestStep(r)
  PROVE  TypeOK' /\ RecordType'
<1> USE AdmissionAssumption DEF IInv, submission, rows, bounds
<1>1. key' \in KeyRecord
  <2> USE KeyOperatorTypes DEF RecordType
  <2>1. CASE UNCHANGED key
    BY <2>1
  <2>2. CASE BeginInFlight(r) \/ BeginReplay(r) \/ BeginFresh(r)
    BY <2>2 DEF BeginInFlight, BeginReplay, BeginFresh
  <2>3. CASE RecordIntent(r) \/ InsertSession(r) \/ RecordAdmission(r) \/ Compensate(r)
    BY <2>3 DEF RecordIntent, InsertSession, RecordAdmission, Compensate
  <2>4. CASE FinishError(r) \/ DropRequest(r)
    BY <2>4 DEF FinishError, DropRequest
  <2>5. CASE FinishFinal(r)
    BY <2>5 DEF FinishFinal
  <2>6. ASSUME \/ BeginFails(r) \/ Validate(r) \/ RecordMetadata(r)
               \/ RecordRun(r) \/ EnqueueCommand(r) \/ CloseRead(r)
               \/ CloseMark(r) \/ CloseCancel(r) \/ CloseFinish(r)
               \/ HandleCloseSession(r) \/ SetupEnds(r)
        PROVE  UNCHANGED key
    BY <2>6 DEF BeginFails, Validate, RecordMetadata, RecordRun,
       EnqueueCommand, CloseRead, CloseMark, CloseCancel, CloseFinish,
       HandleCloseSession, SetupEnds
  <2> QED
    BY <2>1, <2>2, <2>3, <2>4, <2>5, <2>6 DEF RequestStep
<1>2. reply' \in [Requests -> [code : Codes, of : Requests \cup {NoReq}]]
  <2> USE DEF RecordType, Codes
  <2>1. ASSUME NEW code \in Codes, NEW of \in Requests \cup {NoReq}, Answer(r, code, of)
        PROVE  reply' \in [Requests -> [code : Codes, of : Requests \cup {NoReq}]]
    BY <2>1 DEF Answer
  <2>2. CASE UNCHANGED reply
    BY <2>2
  <2>3. CASE BeginInFlight(r) \/ BeginFails(r) \/ FinishError(r)
    BY <2>1, <2>3 DEF BeginInFlight, BeginFails, FinishError
  <2>4. CASE BeginReplay(r)
    <3>1. Current.code \in Codes /\ Current.res \in Requests \cup {NoReq}
      BY KeyOperatorTypes DEF KeyRecord
    <3>2. \/ Answer(r, Current.code, Current.res)
          \/ Answer(r, "mismatch", NoReq)
      BY <2>4 DEF BeginReplay
    <3> QED
      BY <2>1, <3>1, <3>2
  <2>5. CASE FinishFinal(r)
    BY <2>1, <2>5 DEF FinishFinal
  <2>6. ASSUME \/ BeginFresh(r) \/ Validate(r) \/ RecordIntent(r)
               \/ InsertSession(r) \/ RecordMetadata(r) \/ RecordRun(r)
               \/ EnqueueCommand(r) \/ RecordAdmission(r) \/ Compensate(r)
               \/ CloseRead(r) \/ CloseMark(r) \/ CloseCancel(r)
               \/ CloseFinish(r) \/ DropRequest(r) \/ HandleCloseSession(r)
               \/ SetupEnds(r)
        PROVE  UNCHANGED reply
    BY <2>6 DEF BeginFresh, Validate, RecordIntent, InsertSession,
       RecordMetadata, RecordRun, EnqueueCommand, RecordAdmission, Compensate,
       CloseRead, CloseMark, CloseCancel, CloseFinish, DropRequest,
       HandleCloseSession, SetupEnds, Call
  <2> QED
    BY <2>2, <2>3, <2>4, <2>5, <2>6 DEF RequestStep
<1>3. TypeOK'
  <2> USE DEF TypeOK, Pcs, Fails, Works, Goto
  <2>1. UNCHANGED <<route, remote, closes>> /\ UNCHANGED up /\ UNCHANGED crashes
    BY DEF RequestStep, Begin, Call, BeginInFlight, BeginReplay, BeginFresh,
       BeginFails, Validate, RecordIntent, InsertSession, RecordMetadata,
       RecordRun, EnqueueCommand, RecordAdmission, Compensate, CloseRead,
       CloseMark, CloseCancel, CloseFinish, FinishError, FinishFinal,
       DropRequest, HandleCloseSession, SetupEnds
  <2>2. failures' \in 0 .. MaxFailures
    BY DEF RequestStep, Begin, Call, BeginInFlight, BeginReplay, BeginFresh,
       BeginFails, Validate, RecordIntent, InsertSession, RecordMetadata,
       RecordRun, EnqueueCommand, RecordAdmission, Compensate, CloseRead,
       CloseMark, CloseCancel, CloseFinish, FinishError, FinishFinal,
       DropRequest, HandleCloseSession, SetupEnds
  <2>3. rpc' \in [Requests -> Pcs]
    BY DEF RequestStep, Begin, Call, BeginInFlight, BeginReplay, BeginFresh,
       BeginFails, Validate, RecordIntent, InsertSession, RecordMetadata,
       RecordRun, EnqueueCommand, RecordAdmission, Compensate, CloseRead,
       CloseMark, CloseCancel, CloseFinish, FinishError, FinishFinal,
       DropRequest, HandleCloseSession, SetupEnds, Answer
  <2>4. session' \in [Requests -> {"none", "active", "closing", "closed"}]
    BY DEF RequestStep, Begin, Call, BeginInFlight, BeginReplay, BeginFresh,
       BeginFails, Validate, RecordIntent, InsertSession, RecordMetadata,
       RecordRun, EnqueueCommand, RecordAdmission, Compensate, CloseRead,
       CloseMark, CloseCancel, CloseFinish, FinishError, FinishFinal,
       DropRequest, HandleCloseSession, SetupEnds
  <2>5. setup' \in [Requests -> {"none", "initializing", "over"}]
    BY DEF RequestStep, Begin, Call, BeginInFlight, BeginReplay, BeginFresh,
       BeginFails, Validate, RecordIntent, InsertSession, RecordMetadata,
       RecordRun, EnqueueCommand, RecordAdmission, Compensate, CloseRead,
       CloseMark, CloseCancel, CloseFinish, FinishError, FinishFinal,
       DropRequest, HandleCloseSession, SetupEnds
  <2>6. /\ cmd' \in [Requests -> {"none", "queued", "cancelled", "error"}]
        /\ link' \subseteq Requests /\ started' \subseteq Requests
    BY DEF RequestStep, Begin, Call, BeginInFlight, BeginReplay, BeginFresh,
       BeginFails, Validate, RecordIntent, InsertSession, RecordMetadata,
       RecordRun, EnqueueCommand, RecordAdmission, Compensate, CloseRead,
       CloseMark, CloseCancel, CloseFinish, FinishError, FinishFinal,
       DropRequest, HandleCloseSession, SetupEnds
  <2> QED
    BY <1>1, <2>1, <2>2, <2>3, <2>4, <2>5, <2>6 DEF KeyRecord
<1> QED
  BY <1>1, <1>2, <1>3 DEF RecordType

\* Handlers do their writes in the order RequestShape says.
LEMMA ShapeStep ==
  ASSUME IInv, NEW r \in Requests, RequestStep(r)
  PROVE  RequestShape'
<1> USE DEF IInv, TypeOK, RecordType, RequestShape, submission, rows, bounds,
        Goto, Pcs
<1>1. CASE BeginInFlight(r) \/ BeginReplay(r) \/ BeginFresh(r) \/ BeginFails(r)
  BY <1>1 DEF BeginInFlight, BeginReplay, BeginFresh, BeginFails, Begin, Answer
<1>2. CASE Validate(r)
  BY <1>2 DEF Validate, Call
<1>3. CASE RecordIntent(r)
  BY <1>3 DEF RecordIntent, Call
<1>4. CASE InsertSession(r)
  BY <1>4 DEF InsertSession, Call
<1>5. CASE RecordMetadata(r) \/ RecordRun(r)
  BY <1>5 DEF RecordMetadata, RecordRun, Call
<1>6. CASE EnqueueCommand(r)
  BY <1>6 DEF EnqueueCommand, Call
<1>7. CASE RecordAdmission(r)
  BY <1>7 DEF RecordAdmission, Call
<1>8. CASE Compensate(r) \/ CloseRead(r) \/ CloseMark(r) \/ CloseFinish(r)
  BY <1>8 DEF Compensate, CloseRead, CloseMark, CloseFinish, Call
<1>9. CASE CloseCancel(r)
  BY <1>9 DEF CloseCancel, Call
<1>10. CASE FinishError(r) \/ FinishFinal(r) \/ DropRequest(r)
  BY <1>10 DEF FinishError, FinishFinal, DropRequest, Answer
<1>11. CASE HandleCloseSession(r) \/ SetupEnds(r)
  BY <1>11 DEF HandleCloseSession, SetupEnds, Open
<1> QED
  BY <1>1, <1>2, <1>3, <1>4, <1>5, <1>6, <1>7, <1>8, <1>9, <1>10, <1>11
     DEF RequestStep

\* Steps of a request leave the row of the key alone, or write the next row.
LEMMA KeyUntouched ==
  ASSUME NEW r \in Requests,
         \/ BeginFails(r) \/ Validate(r) \/ RecordMetadata(r) \/ RecordRun(r)
         \/ EnqueueCommand(r) \/ CloseRead(r) \/ CloseMark(r)
         \/ CloseCancel(r) \/ CloseFinish(r) \/ HandleCloseSession(r)
         \/ SetupEnds(r)
  PROVE  UNCHANGED <<key, crashes>>
BY DEF BeginFails, Validate, RecordMetadata, RecordRun, EnqueueCommand,
   CloseRead, CloseMark, CloseCancel, CloseFinish, HandleCloseSession,
   SetupEnds, Call, bounds

\* Nobody else takes the key from a request that recorded the intent to
\* enqueue a command: in this daemon a held key is in flight.
LEMMA CommandOwnedStep ==
  ASSUME IInv, NEW r \in Requests, RequestStep(r)
  PROVE  CommandOwned'
<1> USE DEF IInv, TypeOK, RecordType, KeyRecord, CommandOwned, submission, rows,
        bounds, Goto, Own
<1>1. CASE BeginInFlight(r) \/ BeginReplay(r) \/ BeginFresh(r)
  BY <1>1 DEF BeginInFlight, BeginReplay, BeginFresh, Begin, Answer, Barrier,
     Current, IntentToResponse, Reserved, NoKey
<1>2. CASE BeginFails(r) \/ Validate(r) \/ CloseRead(r) \/ SetupEnds(r)
           \/ RecordMetadata(r) \/ RecordRun(r)
  BY <1>2, KeyUntouched DEF BeginFails, Validate, CloseRead, SetupEnds,
     RecordMetadata, RecordRun, Call, Answer, RequestShape
<1>3. CASE RecordIntent(r)
  BY <1>3 DEF RecordIntent, Call, WithIntent, RequestShape
<1>4. CASE InsertSession(r) \/ RecordAdmission(r) \/ Compensate(r)
  BY <1>4 DEF InsertSession, RecordAdmission, Compensate, Call, WithIntent,
     WithBarrier, RequestShape
<1>5. CASE EnqueueCommand(r)
  BY <1>5, KeyUntouched DEF EnqueueCommand, Call
<1>6. CASE CloseMark(r) \/ CloseFinish(r)
  BY <1>6, KeyUntouched DEF CloseMark, CloseFinish, Call
<1>7. CASE CloseCancel(r)
  BY <1>7, KeyUntouched DEF CloseCancel, Call
<1>8. CASE FinishError(r) \/ FinishFinal(r) \/ DropRequest(r)
  BY <1>8 DEF FinishError, FinishFinal, DropRequest, Answer
<1>9. CASE HandleCloseSession(r)
  BY <1>9, KeyUntouched DEF HandleCloseSession
<1> QED
  BY <1>1, <1>2, <1>3, <1>4, <1>5, <1>6, <1>7, <1>8, <1>9 DEF RequestStep

\* Resources never cease to exist, so an intent stays convertible.
LEMMA ResourcesStay ==
  ASSUME IInv, NEW r \in Requests, RequestStep(r)
  PROVE  \A q \in Requests : /\ session[q] # "none" => session'[q] # "none"
                             /\ cmd[q] # "none" => cmd'[q] # "none"
BY DEF IInv, TypeOK, rows, RequestStep, Begin, Call, BeginInFlight, BeginReplay,
   BeginFresh, BeginFails, Validate, RecordIntent, InsertSession,
   RecordMetadata, RecordRun, EnqueueCommand, RecordAdmission, Compensate,
   CloseRead, CloseMark, CloseCancel, CloseFinish, FinishError, FinishFinal,
   DropRequest, HandleCloseSession, SetupEnds

\* Only the request that holds the key adds to what was started, and the row
\* names it from then on.
LEMMA RememberedStep ==
  ASSUME IInv, NEW r \in Requests, RequestStep(r)
  PROVE  Remembered'
<1> USE DEF IInv, TypeOK, RecordType, KeyRecord, Remembered, Exists, submission,
        rows, bounds, Goto
<1>1. CASE BeginInFlight(r) \/ BeginReplay(r)
  <2>1. key' \in {key, Current}
    BY <1>1 DEF BeginInFlight, BeginReplay
  <2> QED
    BY <1>1, <2>1 DEF BeginInFlight, BeginReplay, Begin, Answer, Current,
       IntentToResponse
<1>2. CASE BeginFresh(r)
  <2>1. started = {}
    BY <1>2, NeverFree DEF BeginFresh, NoKey
  <2> QED
    BY <1>2, <2>1 DEF BeginFresh, Begin
<1>3. CASE RecordIntent(r) \/ InsertSession(r) \/ Compensate(r)
  <2>1. key' = key \/ Own(r)
    BY <1>3 DEF RecordIntent, InsertSession, Compensate
  <2>2. Own(r) => started = {}
    BY <1>3 DEF RecordIntent, InsertSession, Compensate, Call, Own
  <2> QED
    BY <1>3, <2>1, <2>2, ResourcesStay DEF RecordIntent, InsertSession,
       Compensate, Call
<1>4. CASE RecordAdmission(r)
  <2>1. CASE Works /\ Own(r)
    <3>1. started = {} /\ started' = {r}
      BY <1>4, <2>1 DEF RecordAdmission, Call, Own
    <3>2. rpc'[r] = "accept"
      BY <1>4, <2>1 DEF RecordAdmission, Call, Works, Fails
    <3>3. /\ key'.owner = r /\ key'.res = r /\ key'.code = "none" /\ key'.intent
          /\ key'.kind = IF route = "session" THEN "session" ELSE "command"
      <4>1. key' = WithIntent(r)
        BY <1>4, <2>1 DEF RecordAdmission
      <4>2. key \in KeyRecord /\ key.owner = r /\ key.code = "none"
        BY <2>1 DEF Own, TypeOK, RecordType
      <4>3. WithIntent(r).code = key.code /\ WithIntent(r).owner = key.owner
        BY <4>2 DEF WithIntent, KeyRecord
      <4>4. /\ WithIntent(r).res = r /\ WithIntent(r).intent
            /\ WithIntent(r).kind = IF route = "session" THEN "session" ELSE "command"
        BY <4>2 DEF WithIntent, KeyRecord
      <4> QED
        BY <4>1, <4>2, <4>3, <4>4
    <3>4. Exists(key)'
      <4>1. /\ session[r] # "none" /\ route \in {"session", "run"}
            /\ route = "run" => cmd[r] # "none"
        BY <1>4, AdmissionAssumption DEF RecordAdmission, Call, RequestShape
      <4>2. UNCHANGED <<session, cmd>>
        BY <1>4 DEF RecordAdmission
      <4> QED
        BY <3>3, <4>1, <4>2
    <3> QED
      BY <3>1, <3>2, <3>3, <3>4
  <2>2. CASE ~ (Works /\ Own(r))
    BY <1>4, <2>2 DEF RecordAdmission, Call
  <2> QED
    BY <2>1, <2>2
<1>5. CASE EnqueueCommand(r)
  <2>1. UNCHANGED key
    BY <1>5, KeyUntouched
  <2>2. CASE started' = started
    <3>1. \A q \in started : rpc'[q] = rpc[q]
      BY <1>5 DEF EnqueueCommand, Call
    <3> QED
      BY <2>1, <2>2, <3>1, <1>5, ResourcesStay
  <2>3. CASE started' # started
    <3>1. /\ route = "command" /\ started' = started \cup {r}
          /\ cmd' = [cmd EXCEPT ![r] = "queued"] /\ Works
      BY <1>5, <2>3, AdmissionAssumption DEF EnqueueCommand, Call, RequestShape
    <3>2. /\ key.owner = r /\ key.code = "none" /\ key.intent
          /\ key.kind = "command" /\ key.res = r
      BY <1>5, <3>1 DEF EnqueueCommand, Call, CommandOwned, Own
    <3>3. started' = {r}
      BY <3>1, <3>2
    <3>4. rpc'[r] = "accept"
      BY <1>5, <3>1 DEF EnqueueCommand, Call, Works, Fails
    <3> QED
      BY <2>1, <3>1, <3>2, <3>3, <3>4
  <2> QED
    BY <2>2, <2>3
<1>6. CASE \/ BeginFails(r) \/ Validate(r) \/ RecordMetadata(r) \/ RecordRun(r)
           \/ CloseRead(r) \/ CloseMark(r) \/ CloseCancel(r) \/ CloseFinish(r)
           \/ HandleCloseSession(r) \/ SetupEnds(r)
  <2>1. UNCHANGED <<key, started>>
    BY <1>6, KeyUntouched DEF BeginFails, Validate, RecordMetadata, RecordRun,
       CloseRead, CloseMark, CloseCancel, CloseFinish, HandleCloseSession,
       SetupEnds
  <2>2. \A q \in started : rpc'[q] = rpc[q]
    BY <1>6 DEF BeginFails, Validate, RecordMetadata, RecordRun, CloseRead,
       CloseMark, CloseCancel, CloseFinish, HandleCloseSession, SetupEnds,
       Call, Answer
  <2> QED
    BY <2>1, <2>2, ResourcesStay
<1>7. CASE FinishError(r) \/ DropRequest(r)
  <2>1. r \notin started
    BY <1>7 DEF FinishError, DropRequest
  <2>2. started # {} => UNCHANGED key
    BY <1>7, <2>1 DEF FinishError, DropRequest, Own
  <2> QED
    BY <1>7, <2>1, <2>2 DEF FinishError, DropRequest, Answer
<1>8. CASE FinishFinal(r)
  <2>1. UNCHANGED <<started, session, cmd>> /\ \A q \in Requests \ {r} : rpc'[q] = rpc[q]
    BY <1>8 DEF FinishFinal, Answer
  <2>2. CASE r \in started
    <3>1. rpc[r] = "accept" /\ rpc'[r] = "done" /\ started = {r}
      BY <1>8, <2>2 DEF FinishFinal, Answer
    <3>2. key' \in {key, [key EXCEPT !.code = "accepted"],
                   [key EXCEPT !.code = "accepted", !.res = r]}
      BY <1>8, <2>2, <3>1, NeverFree DEF FinishFinal
    <3>3. /\ key'.owner = r /\ key'.res = r /\ key'.kind = key.kind
          /\ key'.intent = key.intent /\ key'.code \in {key.code, "accepted"}
      BY <2>2, <3>2, StoredKeepsRow
    <3>4. Exists(key) => Exists(key)'
      BY <2>1, <2>2, <3>3
    <3> QED
      BY <2>1, <2>2, <3>1, <3>3, <3>4
  <2>3. CASE r \notin started
    <3>1. Own(r) => started = {}
      BY <2>3 DEF Own
    <3>2. started = {} \/ UNCHANGED key
      BY <1>8, <3>1 DEF FinishFinal
    <3> QED
      BY <2>1, <2>3, <3>2
  <2> QED
    BY <2>2, <2>3
<1> QED
  BY <1>1, <1>2, <1>3, <1>4, <1>5, <1>6, <1>7, <1>8 DEF RequestStep

\* A session becomes active only in the transaction that sets the barrier, and
\* only its end or the start of its work lifts the barrier.
LEMMA GuardedStep ==
  ASSUME IInv, NEW r \in Requests, RequestStep(r)
  PROVE  Guarded'
<1> USE DEF IInv, TypeOK, RecordType, KeyRecord, Guarded, submission, rows,
        bounds, Goto
<1>1. CASE BeginInFlight(r) \/ BeginReplay(r)
  <2>1. Barrier => UNCHANGED key
    BY <1>1 DEF BeginInFlight, BeginReplay
  <2>2. ~ Barrier => key' = Current
    BY <1>1 DEF BeginInFlight, BeginReplay
  <2>3. UNCHANGED <<session, started>>
    BY <1>1 DEF BeginInFlight, BeginReplay, Begin
  <2> QED
    BY <2>1, <2>2, <2>3 DEF Remembered, Barrier, Open, Current, IntentToResponse
<1>2. CASE BeginFresh(r)
  <2>1. \A q \in Requests : session[q] # "active"
    BY <1>2, NeverFree DEF BeginFresh, NoKey, Remembered, Barrier
  <2> QED
    BY <1>2, <2>1 DEF BeginFresh, Begin
<1>3. CASE RecordIntent(r)
  <2>1. \A q \in Requests : session[q] = "active" => ~ Own(r)
    BY <1>3 DEF RecordIntent, Call, Own, RequestShape
  <2> QED
    BY <1>3, <2>1 DEF RecordIntent
<1>4. CASE InsertSession(r)
  <2>1. CASE Works /\ Own(r)
    <3>1. \A q \in Requests : session[q] # "active"
      BY <1>4, <2>1 DEF InsertSession, Call, Own, RequestShape
    <3>2. session' = [session EXCEPT ![r] = "active"] /\ key' = WithBarrier(r)
      BY <1>4, <2>1 DEF InsertSession
    <3> QED
      BY <2>1, <3>1, <3>2 DEF WithBarrier, Own
  <2>2. CASE ~ (Works /\ Own(r))
    BY <1>4, <2>2 DEF InsertSession
  <2> QED
    BY <2>1, <2>2
<1>5. CASE RecordAdmission(r) \/ Compensate(r)
  <2>1. CASE Own(r) /\ \E q \in Requests : session[q] = "active"
    <3>1. \A q \in Requests : session[q] = "active" => q = r
      BY <2>1 DEF Own
    <3>2. UNCHANGED session
      BY <1>5 DEF RecordAdmission, Compensate
    <3>3. \/ UNCHANGED <<key, started>>
          \/ key' = WithIntent(r) /\ r \in started'
          \/ key' = WithBarrier(r) /\ UNCHANGED started
      BY <1>5, <2>1 DEF RecordAdmission, Compensate
    <3>4. /\ WithIntent(r).owner = r /\ WithIntent(r).res = r
          /\ WithBarrier(r).owner = r /\ WithBarrier(r).res = r
          /\ WithBarrier(r).kind = "compensating" /\ ~ WithBarrier(r).intent
          /\ WithBarrier(r).code = "none"
      BY <2>1 DEF WithIntent, WithBarrier, Own
    <3> QED
      BY <3>1, <3>2, <3>3, <3>4
  <2>2. CASE ~ Own(r)
    BY <1>5, <2>2 DEF RecordAdmission, Compensate
  <2>3. CASE \A q \in Requests : session[q] # "active"
    BY <1>5, <2>3 DEF RecordAdmission, Compensate
  <2> QED
    BY <2>1, <2>2, <2>3
<1>6. CASE \/ BeginFails(r) \/ Validate(r) \/ RecordMetadata(r) \/ RecordRun(r)
           \/ EnqueueCommand(r) \/ CloseRead(r) \/ CloseMark(r)
           \/ CloseCancel(r) \/ CloseFinish(r) \/ HandleCloseSession(r)
           \/ SetupEnds(r)
  <2>1. UNCHANGED key /\ started \subseteq started'
    BY <1>6, KeyUntouched DEF BeginFails, Validate, RecordMetadata, RecordRun,
       EnqueueCommand, CloseRead, CloseMark, CloseCancel, CloseFinish,
       HandleCloseSession, SetupEnds
  <2>2. \A q \in Requests : session'[q] = "active" => session[q] = "active"
    BY <1>6 DEF BeginFails, Validate, RecordMetadata, RecordRun,
       EnqueueCommand, CloseRead, CloseMark, CloseCancel, CloseFinish,
       HandleCloseSession, SetupEnds
  <2> QED
    BY <2>1, <2>2
<1>7. CASE FinishError(r) \/ FinishFinal(r) \/ DropRequest(r)
  <2>1. UNCHANGED <<session, started>>
    BY <1>7 DEF FinishError, FinishFinal, DropRequest
  <2>2. ASSUME NEW q \in Requests, session[q] = "active", key' # key
        PROVE  q \in started /\ key'.owner = q /\ key'.res = q
    <3>1. Own(r)
      BY <1>7, <2>2 DEF FinishError, FinishFinal, DropRequest
    <3>2. q = r /\ key.owner = r /\ key.res = r
      BY <2>2, <3>1 DEF Own
    <3>3. rpc[r] \notin {"validate", "reject"}
      BY <2>2, <3>2 DEF RequestShape
    <3>4. rpc[r] \in {"delete", "fail"} => r \notin started
      BY DEF Remembered
    <3>5. CASE r \notin started
      <4>1. Released = key /\ rpc[r] # "accept"
        BY <2>2, <3>2, <3>5, NeverFree DEF RequestShape
      <4>2. key' = ReleasedUnlessAdmitted
        BY <1>7, <2>2, <3>3, <4>1 DEF FinishError, FinishFinal, DropRequest
      <4>3. IntentToResponse(key) # key
        BY <2>2, <4>1, <4>2 DEF ReleasedUnlessAdmitted
      <4> QED
        BY <3>2, <3>5, <4>3, ConvertedIsAdmitted
    <3>6. CASE r \in started
      <4>1. FinishFinal(r) /\ rpc[r] = "accept"
        BY <1>7, <3>3, <3>4, <3>6 DEF FinishError, FinishFinal, DropRequest
      <4>2. key' \in {key, [key EXCEPT !.code = "accepted"],
                     [key EXCEPT !.code = "accepted", !.res = r]}
        BY <3>6, <4>1, NeverFree DEF FinishFinal
      <4> QED
        BY <3>2, <3>6, <4>2, StoredKeepsRow
    <3> QED
      BY <3>5, <3>6
  <2> QED
    BY <2>1, <2>2
<1> QED
  BY <1>1, <1>2, <1>3, <1>4, <1>5, <1>6, <1>7 DEF RequestStep

\* A 202 is stored only for work that was started, and an intent whose work was
\* not started names nothing that exists.
LEMMA HonestStep ==
  ASSUME IInv, NEW r \in Requests, RequestStep(r)
  PROVE  Honest'
<1> USE DEF IInv, TypeOK, RecordType, KeyRecord, Honest, submission, rows,
        bounds, Goto
<1>1. CASE BeginInFlight(r) \/ BeginReplay(r)
  <2>1. UNCHANGED <<started, session, cmd>> /\ key' \in {key, Current}
    BY <1>1 DEF BeginInFlight, BeginReplay, Begin
  <2>2. Current \in {NoKey, IntentToResponse(key)}
    BY DEF Current, IntentToResponse, NoKey
  <2>3. key' \in {key, NoKey, [key EXCEPT !.code = "accepted"]}
    BY <2>1, <2>2, ConvertedIsAdmitted
  <2>4. key' = [key EXCEPT !.code = "accepted"] => key' = key \/ key.res \in started
    BY <2>1, <2>2, ConvertedIsAdmitted DEF NoKey
  <2> QED
    BY <2>1, <2>3, <2>4 DEF NoKey
<1>2. CASE BeginFresh(r)
  BY <1>2 DEF BeginFresh, Begin, Reserved, NoKey
<1>3. CASE RecordIntent(r)
  BY <1>3 DEF RecordIntent, Call, WithIntent, RequestShape, Own
<1>4. CASE InsertSession(r) \/ Compensate(r)
  <2>1. CASE Own(r) /\ key' = WithBarrier(r)
    BY <2>1 DEF WithBarrier, Own
  <2>2. CASE UNCHANGED <<key, session, cmd, started>>
    BY <2>2
  <2> QED
    BY <1>4, <2>1, <2>2 DEF InsertSession, Compensate
<1>5. CASE RecordAdmission(r)
  <2>1. CASE Own(r) /\ key' = WithIntent(r) /\ r \in started'
    BY <2>1 DEF WithIntent, Own
  <2>2. CASE UNCHANGED <<key, session, cmd, started>>
    BY <2>2
  <2> QED
    BY <1>5, <2>1, <2>2 DEF RecordAdmission
<1>6. CASE EnqueueCommand(r)
  <2>1. UNCHANGED <<key, session>> /\ started \subseteq started'
    BY <1>6, KeyUntouched DEF EnqueueCommand
  <2>2. \A q \in Requests \ {r} : cmd'[q] = cmd[q]
    BY <1>6 DEF EnqueueCommand
  <2>3. r \in started' \/ session[r] # "none" \/ cmd' = cmd
    BY <1>6 DEF EnqueueCommand, Call, RequestShape
  <2> QED
    BY <2>1, <2>2, <2>3
<1>7. CASE CloseMark(r) \/ CloseFinish(r) \/ CloseCancel(r) \/ HandleCloseSession(r)
  <2>1. UNCHANGED <<key, started>>
    BY <1>7, KeyUntouched DEF CloseMark, CloseFinish, CloseCancel,
       HandleCloseSession
  <2>2. \A q \in Requests : cmd[q] = "none" => cmd'[q] = "none"
    BY <1>7 DEF CloseMark, CloseFinish, CloseCancel, HandleCloseSession
  <2>3. \A q \in Requests : session[q] = "none" => session'[q] = "none"
    BY <1>7 DEF CloseMark, CloseFinish, CloseCancel, HandleCloseSession, Call,
       RequestShape, Open
  <2> QED
    BY <2>1, <2>2, <2>3
<1>8. CASE \/ BeginFails(r) \/ Validate(r) \/ RecordMetadata(r) \/ RecordRun(r)
           \/ CloseRead(r) \/ SetupEnds(r)
  <2>1. UNCHANGED <<key, session, cmd, started>>
    BY <1>8, KeyUntouched DEF BeginFails, Validate, RecordMetadata, RecordRun,
       CloseRead, SetupEnds
  <2> QED
    BY <2>1
<1>9. CASE FinishError(r) \/ FinishFinal(r) \/ DropRequest(r)
  <2>1. UNCHANGED <<session, cmd, started>>
    BY <1>9 DEF FinishError, FinishFinal, DropRequest
  <2>2. \/ key' \in {key, NoKey, Released, ReleasedUnlessAdmitted}
        \/ rpc[r] = "accept" /\ key' = [key EXCEPT !.code = "accepted", !.res = r]
        \/ rpc[r] = "reject" /\ key' = [key EXCEPT !.code = "rejected", !.res = r]
    BY <1>9 DEF FinishError, FinishFinal, DropRequest
  <2>3. /\ Released \in {key, NoKey}
        /\ ReleasedUnlessAdmitted \in {key, NoKey, IntentToResponse(key)}
    BY DEF Released, ReleasedUnlessAdmitted
  <2>4. CASE key' = IntentToResponse(key)
    BY <2>1, <2>4, ConvertedIsAdmitted
  <2>5. CASE key' \in {key, NoKey}
    BY <2>1, <2>5 DEF NoKey
  <2>6. CASE rpc[r] = "accept" /\ key' = [key EXCEPT !.code = "accepted", !.res = r]
    BY <2>1, <2>6 DEF RequestShape
  <2>7. CASE rpc[r] = "reject" /\ key' = [key EXCEPT !.code = "rejected", !.res = r]
    BY <2>1, <2>7
  <2> QED
    BY <2>2, <2>3, <2>4, <2>5, <2>6, <2>7
<1> QED
  BY <1>1, <1>2, <1>3, <1>4, <1>5, <1>6, <1>7, <1>8, <1>9 DEF RequestStep

\* An answer that names work is given when the work was started; nothing is
\* started for a request that was told of an error.
LEMMA RepliesStep ==
  ASSUME IInv, NEW r \in Requests, RequestStep(r)
  PROVE  RepliesAreTrue'
<1> USE DEF IInv, TypeOK, RecordType, KeyRecord, RepliesAreTrue, submission,
        rows, bounds, Goto
<1>1. CASE UNCHANGED <<reply, started>>
  BY <1>1
<1>2. CASE EnqueueCommand(r) \/ RecordAdmission(r)
  <2>1. rpc[r] \in {"enqueue", "admit"} /\ UNCHANGED reply
    BY <1>2 DEF EnqueueCommand, RecordAdmission, Call
  <2>2. started \subseteq started' /\ started' \subseteq started \cup {r}
    BY <1>2 DEF EnqueueCommand, RecordAdmission
  <2> QED
    BY <2>1, <2>2 DEF RequestShape
<1>3. CASE BeginInFlight(r) \/ BeginFails(r) \/ FinishError(r)
  <2>1. r \notin started
    BY <1>3 DEF BeginInFlight, BeginFails, FinishError, Begin, Remembered
  <2> QED
    BY <1>3, <2>1 DEF BeginInFlight, BeginFails, FinishError, Begin, Answer
<1>4. CASE BeginReplay(r)
  <2>1. Current.code = "accepted" => Current.res \in started
    BY ConvertedIsAdmitted DEF Current, IntentToResponse, NoKey, Honest
  <2>2. Current.code # "error"
    BY KeyOperatorTypes
  <2> QED
    BY <1>4, <2>1, <2>2 DEF BeginReplay, Begin, Answer
<1>5. CASE FinishFinal(r)
  BY <1>5 DEF FinishFinal, Answer, RequestShape
<1> QED
  BY <1>1, <1>2, <1>3, <1>4, <1>5 DEF RequestStep, Begin, Call, BeginFresh,
     Validate, RecordIntent, InsertSession, RecordMetadata, RecordRun,
     Compensate, CloseRead, CloseMark, CloseCancel, CloseFinish, DropRequest,
     HandleCloseSession, SetupEnds

-----------------------------------------------------------------------------
(* The daemon's own steps *)

\* A crash takes the handlers, not the row: the intents and barriers it left
\* keep what they say.
LEMMA CrashStep ==
  ASSUME IInv, Crash
  PROVE  IInv'
<1> USE AdmissionAssumption DEF IInv, Crash, submission, rows
<1>1. TypeOK' /\ RecordType'
  <2>1. rpc' \in [Requests -> Pcs]
    BY DEF TypeOK, Pcs
  <2>2. crashes' \in 0 .. MaxCrashes
    BY DEF TypeOK
  <2> QED
    BY <2>1, <2>2 DEF TypeOK, RecordType
<1>2. RequestShape' /\ CommandOwned'
  BY DEF TypeOK, RequestShape, CommandOwned
<1>3. Remembered' /\ Guarded' /\ Honest' /\ RepliesAreTrue'
  BY DEF TypeOK, Remembered, Guarded, Honest, RepliesAreTrue, Exists
<1> QED
  BY <1>1, <1>2, <1>3

\* Bootstrap ends sessions and commands and never makes one.
LEMMA BootKeepsInvariant ==
  ASSUME IInv, Boot
  PROVE  IInv'
<1> USE AdmissionAssumption DEF IInv, submission, bounds
<1>1. /\ UNCHANGED <<submission, key, link, rpc, reply, started, bounds>>
      /\ up' = TRUE
      /\ setup' \in [Requests -> {"none", "initializing", "over"}]
      /\ cmd' \in [Requests -> {"none", "queued", "cancelled", "error"}]
      /\ session' \in [Requests -> {"none", "active", "closing", "closed"}]
  BY DEF Boot, TypeOK
<1>2. \A q \in Requests :
        /\ session'[q] = "active" => session[q] = "active"
        /\ (session'[q] = "none") <=> (session[q] = "none")
        /\ (cmd'[q] = "none") <=> (cmd[q] = "none")
  BY DEF Boot, TypeOK, Open
<1>3. TypeOK' /\ RecordType'
  BY <1>1 DEF TypeOK, RecordType
<1>4. RequestShape' /\ CommandOwned'
  BY <1>1, <1>2 DEF RequestShape, CommandOwned, Own
<1>5. Remembered' /\ Guarded' /\ Honest' /\ RepliesAreTrue'
  BY <1>1, <1>2 DEF Remembered, Guarded, Honest, RepliesAreTrue, Exists,
     TypeOK
<1> QED
  BY <1>3, <1>4, <1>5

-----------------------------------------------------------------------------
(* The theorems *)

\* The key is free and nothing exists.
LEMMA InitIInv == Init => IInv
<1> SUFFICES ASSUME Init PROVE IInv
  OBVIOUS
<1> USE AdmissionAssumption DEF Init
<1>1. TypeOK /\ RecordType
  BY DEF TypeOK, RecordType, KeyRecord, NoKey, NoReply, Codes, Pcs
<1>2. RequestShape /\ CommandOwned
  BY DEF RequestShape, CommandOwned, NoReply
<1>3. Remembered /\ Guarded /\ Honest /\ RepliesAreTrue
  BY DEF Remembered, Guarded, Honest, RepliesAreTrue, NoKey, NoReply
<1> QED
  BY <1>1, <1>2, <1>3 DEF IInv

\* Every step preserves the invariant.
LEMMA NextIInv == IInv /\ [Next]_vars => IInv'
<1> SUFFICES ASSUME IInv, [Next]_vars PROVE IInv'
  OBVIOUS
<1>1. CASE UNCHANGED vars
  BY <1>1 DEF vars, submission, rows, bounds, IInv, TypeOK, RecordType,
     RequestShape, CommandOwned, Remembered, Guarded, Honest, RepliesAreTrue,
     Own, Exists
<1>2. ASSUME NEW r \in Requests, RequestStep(r)
      PROVE  IInv'
  BY <1>2, TypeStep, ShapeStep, CommandOwnedStep, RememberedStep, GuardedStep,
     HonestStep, RepliesStep DEF IInv
<1> QED
  BY <1>1, <1>2, CrashStep, BootKeepsInvariant DEF Next

\* Types, the shape of the handlers, and what the row stands for, at any time.
THEOREM InductiveInvariant == Spec => []IInv
BY InitIInv, NextIInv, PTL DEF Spec

\* Every variable keeps its type: a row holds no answer but a 202 or a 4xx.
THEOREM TypeCorrect == Spec => []TypeOK
<1>1. IInv => TypeOK
  BY DEF IInv
<1> QED
  BY <1>1, InductiveInvariant, PTL

\* The work of one key is started at most once, and the key never has two live
\* sessions, however many retries, crashes and failed writes there are.
THEOREM AdmittedOnce == Spec => []OneAdmission
<1>1. IInv => OneAdmission
  BY DEF IInv, TypeOK, Remembered, Guarded, OneAdmission
<1> QED
  BY <1>1, InductiveInvariant, PTL

\* A 202 names work that was started; a 5xx is never given for work that was.
THEOREM RepliesHonest == Spec => []RepliesAreTrue
<1>1. IInv => RepliesAreTrue
  BY DEF IInv
<1> QED
  BY <1>1, InductiveInvariant, PTL
=============================================================================
