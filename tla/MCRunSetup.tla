----------------------------- MODULE MCRunSetup -----------------------------
(* Finite instances of RunSetup for TLC. *)
EXTENDS RunSetup

CloneStages == <<"clone">>
AllStages == <<"clone", "branch", "merge">>

\* A run or a plain session, closed on finish or not, with these stages, a
\* failing call or none, and this many cancels, deletes and crashes
With(run, close, stages, fault, cancels, deletes, crashes) ==
  [run |-> run, close |-> close, stages |-> stages, fault |-> fault,
   cancels |-> cancels, deletes |-> deletes, crashes |-> crashes]

AllPlans == UNION {
  {With(TRUE, close, AllStages, FALSE, 1, 0, 1) : close \in BOOLEAN},
  {With(TRUE, FALSE, CloneStages, FALSE, 1, 1, 0),
   With(TRUE, TRUE, CloneStages, FALSE, 0, 1, 1),
   With(TRUE, TRUE, CloneStages, FALSE, 0, 0, 2)},
  {With(TRUE, close, CloneStages, TRUE, 1, 0, 1) : close \in BOOLEAN},
  {With(TRUE, close, <<>>, TRUE, 0, 1, 1) : close \in BOOLEAN},
  {With(FALSE, FALSE, CloneStages, TRUE, 0, 1, 1)} }
=============================================================================
