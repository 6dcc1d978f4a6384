---------------------------- MODULE MCWorkflowRun ----------------------------
(* Finite instances of WorkflowRun for TLC. *)
EXTENDS WorkflowRun

\* b and c after a; a and b before c; b after a, though listed first; no edges.
Fan   == [order |-> <<"a", "b", "c">>,
          deps |-> [s \in {"a", "b", "c"} |-> IF s = "a" THEN <<>> ELSE <<"a">>]]
Join  == [order |-> <<"a", "b", "c">>,
          deps |-> [s \in {"a", "b", "c"} |-> IF s = "c" THEN <<"a", "b">> ELSE <<>>]]
Chain == [order |-> <<"b", "a">>,
          deps |-> [s \in {"a", "b"} |-> IF s = "b" THEN <<"a">> ELSE <<>>]]
Wide  == [order |-> <<"a", "b", "c">>, deps |-> [s \in {"a", "b", "c"} |-> <<>>]]

Run(dag, cap, yolo, board, aborts, cleans, times) ==
  [dag |-> dag, cap |-> cap, yolo |-> yolo, board |-> board,
   aborts |-> aborts, cleanup |-> cleans, times |-> times]

AllRuns == {
  Run(Wide, 2, TRUE, 0, {}, FALSE, 1),
  Run(Join, 2, FALSE, 0, {"a", "setup"}, FALSE, 1),
  Run(Chain, 1, TRUE, 0, {"teardown"}, TRUE, 1),
  Run(Chain, 1, FALSE, 0, {}, FALSE, 2),
  Run(Chain, 1, FALSE, 2, {}, FALSE, 1),
  Run(Fan, 2, TRUE, 1, {"a"}, FALSE, 1),
  Run(Wide, 2, FALSE, 1, {"a", "b"}, FALSE, 1) }

CommitPushPoll == <<"commit", "push", "poll", "shell">>
=============================================================================
