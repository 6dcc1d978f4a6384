-------------------------- MODULE CommandLifecycle --------------------------
(***************************************************************************)
(* What the API server promises a client about one submitted command,      *)
(* whatever its workers, its cancel and close handlers and its restarts     *)
(* do.  A command is queued once, may run several attempts (a later one     *)
(* only after a crash), and ends once.  As soon as the outcome of an        *)
(* attempt is on disk that outcome is what the command ends with, and no    *)
(* further attempt starts.                                                  *)
(***************************************************************************)
EXTENDS Naturals

CONSTANT Commands       \* the ids a client may be given

VARIABLES
  status,      \* the row's status; "none" before the row exists
  attempt,     \* 1-based number of the current attempt
  outcome      \* the outcome on disk, "none" while there is none

vars == <<status, attempt, outcome>>

Terminal == {"done", "error", "cancelled"}
Statuses == {"none", "queued", "running"} \cup Terminal

(***************************************************************************)
(* The steps a single command may take.  Next lets several commands step    *)
(* at once: closing a session cancels its whole queue in one statement.     *)
(***************************************************************************)
Submit(c) == /\ status[c] = "none" /\ status'[c] = "queued"
             /\ attempt'[c] = attempt[c] /\ outcome'[c] = "none"

Claim(c) == /\ status[c] = "queued" /\ status'[c] = "running"
            /\ attempt'[c] = attempt[c] /\ outcome'[c] = "none"

\* The outcome of the running attempt becomes durable before the row does.
Record(c) == /\ status[c] = "running" /\ status'[c] = "running"
             /\ outcome[c] = "none" /\ outcome'[c] \in Terminal
             /\ attempt'[c] = attempt[c]

\* The row becomes terminal; a recorded outcome decides how.
Finish(c) == /\ status[c] \in {"queued", "running"}
             /\ status'[c] \in Terminal
             /\ status[c] = "queued" => status'[c] # "done"
             /\ outcome[c] # "none" => status'[c] = outcome[c]
             /\ outcome'[c] = status'[c]
             /\ attempt'[c] = attempt[c]

\* A restart runs the command again only if no outcome was recorded.
Requeue(c) == /\ status[c] = "running" /\ status'[c] = "queued"
              /\ outcome[c] = "none" /\ outcome'[c] = "none"
              /\ attempt'[c] = attempt[c] + 1

Same(c) == /\ status'[c] = status[c] /\ attempt'[c] = attempt[c]
           /\ outcome'[c] = outcome[c]

Init == /\ status = [c \in Commands |-> "none"]
        /\ attempt = [c \in Commands |-> 1]
        /\ outcome = [c \in Commands |-> "none"]

Step(c) == \/ Submit(c) \/ Claim(c) \/ Record(c) \/ Finish(c)
           \/ Requeue(c) \/ Same(c)

Next == \A c \in Commands : Step(c)

Spec == Init /\ [][Next]_vars

=============================================================================
