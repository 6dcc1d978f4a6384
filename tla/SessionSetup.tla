---------------------------- MODULE SessionSetup ----------------------------
(***************************************************************************)
(* The setup of one API session (session_setup.rs): clone, branch, merges, *)
(* opening of the session, ready checks, and the three places its end is   *)
(* recorded in: the session's row, setup_state.json and the clone.         *)
(*                                                                         *)
(* The stages before the end are all "running" here: whoever reads the     *)
(* setup status only asks whether it is ready, failed or neither.          *)
(***************************************************************************)
EXTENDS Sequences

VARIABLES
  plan,     \* what was asked for, and the bounds (see RunSetup)
  status,   \* sessions.status: "active", "closing" or "closed"
  setup,    \* sessions.setup_status: "running", "ready" or "failed"
  file,     \* setup_state.json: "none", "ready" or "failed"
  clone,    \* the clone's directory exists
  memory,   \* the session is in the SessionManager
  task,     \* what the setup task does next
  todo,     \* stages of the clone left
  outcome,  \* SessionSetupState.status: "running", "ready" or "failed"
  fired,    \* the setup's cancellation token has fired
  failed    \* the call that failed ("none": no call has)

disk == <<status, setup, file, clone>>
local == <<task, todo, outcome>>
setupVars == <<plan, disk, memory, local, fired, failed>>

Remote == plan.stages # <<>>

\* One call of a behaviour may fail: the code logs it and goes on.
Fails(call) == plan.fault /\ failed = "none" /\ failed' = call

\* mark_failed: the clone is deleted next ("drop"), or kept ("record").
MarkFailed(next) == outcome' = "failed" /\ task' = next

\* As Advance, to one more stage whatever is left
AdvanceUnchecked(left) ==
  IF fired THEN MarkFailed("drop") /\ UNCHANGED todo
  ELSE todo' = left /\ task' = "stage" /\ UNCHANGED outcome

\* cancelled_here, then the stages left; a stage that fails goes to "drop" too.
Advance(left) ==
  IF fired THEN MarkFailed("drop") /\ UNCHANGED todo
  ELSE /\ todo' = left /\ UNCHANGED outcome
       /\ task' = IF left = <<>> THEN "open" ELSE "stage"

-----------------------------------------------------------------------------
(* The steps of SessionSetup::run *)

\* After the delay that lets the acknowledgement out
Begin ==
  /\ task = "start" /\ Advance(todo)
  /\ UNCHANGED <<plan, disk, memory, fired, failed>>

\* git clone makes the directory ...
CloneStarts ==
  /\ task = "stage" /\ Head(todo) = "clone"
  /\ task' = "cloning" /\ clone' = TRUE
  /\ UNCHANGED <<plan, status, setup, file, memory, todo, outcome, fired, failed>>

\* ... and ends when the origin answers, or fails without its directory;
CloneAnswers ==
  /\ task = "cloning"
  /\ \/ clone /\ Advance(Tail(todo))
     \/ MarkFailed("drop") /\ UNCHANGED todo
  /\ UNCHANGED <<plan, disk, memory, fired, failed>>

\* As CloneKilled, while the clone does not watch the token
CloneKilledNever ==
  task = "cloning" /\ fired /\ UNCHANGED setupVars

\* a cancel kills it.
CloneKilled ==
  /\ task = "cloning" /\ fired /\ Advance(todo)
  /\ UNCHANGED <<plan, disk, memory, fired, failed>>

\* setup_branch and merge_refs
StageEnds ==
  /\ task = "stage" /\ Head(todo) # "clone"
  /\ \/ clone /\ Advance(Tail(todo))
     \/ MarkFailed("drop") /\ UNCHANGED todo
  /\ UNCHANGED <<plan, disk, memory, fired, failed>>

OpenSession ==
  /\ task = "open"
  /\ \/ memory' = TRUE /\ task' = "ready" /\ UNCHANGED outcome
     \/ MarkFailed("drop") /\ UNCHANGED memory
  /\ UNCHANGED <<plan, disk, todo, fired, failed>>

\* The agent, the runtime or the builtin configuration cannot be resolved: the
\* only failures that keep the clone.
ReadyCannotStart ==
  /\ task = "ready" /\ MarkFailed("record")
  /\ UNCHANGED <<plan, disk, memory, todo, fired, failed>>

\* The ready checks end, at their deadline at the latest; a cancel wins.
ReadyEnds ==
  /\ task = "ready"
  /\ \/ MarkFailed("drop")
     \/ ~fired /\ outcome' = "ready" /\ task' = "record"
  /\ UNCHANGED <<plan, disk, memory, todo, fired, failed>>

DeleteClone ==
  /\ task = "drop" /\ task' = "record"
  /\ \/ clone' = (clone /\ ~Remote) /\ UNCHANGED failed
     \/ Remote /\ Fails("drop") /\ UNCHANGED clone
  /\ UNCHANGED <<plan, status, setup, file, memory, todo, outcome, fired>>

PersistStatus ==
  /\ task = "record" /\ task' = "save"
  /\ \/ setup' = outcome /\ UNCHANGED failed
     \/ Fails("persist") /\ UNCHANGED setup
  /\ UNCHANGED <<plan, status, file, clone, memory, todo, outcome, fired>>

SaveSetupState ==
  /\ task = "save" /\ task' = "over"
  /\ \/ file' = outcome /\ UNCHANGED failed
     \/ Fails("save") /\ UNCHANGED file
  /\ UNCHANGED <<plan, status, setup, clone, memory, todo, outcome, fired>>

\* Everything but an answer of the origin comes by itself.
SetupStep ==
  \/ Begin \/ CloneStarts \/ CloneKilled \/ StageEnds
  \/ OpenSession \/ ReadyCannotStart \/ ReadyEnds
  \/ DeleteClone \/ PersistStatus \/ SaveSetupState
=============================================================================
