---------------------------- MODULE MCSquadTasks ----------------------------
(* Finite instances of SquadTasks for TLC. *)
EXTENDS SquadTasks

\* The tasks there are at first, the names used later, the values
\* maxConcurrentEvaluations takes, the repair attempts (3 in the code), and how
\* many requests and faults there are
With(names, fresh, caps, repairs, left) ==
  [names |-> names, fresh |-> fresh, caps |-> caps, repairs |-> repairs,
   left |-> [k \in Requests \cup Faults |-> IF k \in DOMAIN left THEN left[k] ELSE 0]]

AllPlans == {
  With(<<"n", "m">>, {}, {0, 1}, 0, [trigger |-> 1, pause |-> 1]),
  With(<<"n", "m">>, {}, {2}, 0, <<>>),
  With(<<"n">>, {}, {2}, 0, [cancel |-> 1]),
  With(<<"n">>, {"n"}, {2}, 0, [create |-> 1, delete |-> 1, cancel |-> 1]),
  With(<<"n">>, {}, {1}, 1, [trigger |-> 1, cancel |-> 1,
                            stop |-> 1, crash |-> 1, fail |-> 1]) }
=============================================================================
