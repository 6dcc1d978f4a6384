--------------------------- MODULE MCCommandQueue ---------------------------
(* Finite instances of CommandQueue for TLC. *)
EXTENDS CommandQueue, TLC

CONSTANTS c1, c2, s1, w1, w2, d1, d2

OneSession == [c \in Commands |-> s1]

\* The workers of the pool are interchangeable, and so are the commands of one
\* session when none of them is a workflow.
QueueSymmetry == Permutations(Workers) \cup Permutations(Commands)
=============================================================================
