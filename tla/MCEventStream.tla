---------------------------- MODULE MCEventStream ----------------------------
(* Finite instances of EventStream for TLC. *)
EXTENDS EventStream

Bounded == {"log", "write", "cancel", "crash", "timeout", "drop"}

\* A command or a run, the sequence numbers a client of one step does not see, and
\* how many failures, cancels, crashes, early deadlines and lost connections
With(run, skips, left) ==
  [run |-> run, skips |-> skips,
   left |-> [k \in Bounded |-> IF k \in DOMAIN left THEN left[k] ELSE 0]]

AllPlans == {
  With(FALSE, {}, [crash |-> 1, write |-> 1]),
  With(TRUE, {0}, [crash |-> 1, cancel |-> 1]),
  With(FALSE, {}, [log |-> 1, timeout |-> 1]),
  With(FALSE, {}, [timeout |-> 1, drop |-> 1]) }
=============================================================================
