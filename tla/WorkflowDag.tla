---------------------------- MODULE WorkflowDag ----------------------------
(***************************************************************************)
(* The dependency graph of a workflow (data/workflow_dag.rs) and the pure  *)
(* operations a saved run is resumed with (data/workflow_state.rs,         *)
(* command/commands/exec_workflow/prepare.rs).                             *)
(*                                                                         *)
(* A graph is a record: `order` is the sequence of step names as the       *)
(* workflow file lists them, `deps` maps a step to its `depends_on`, in    *)
(* the order written.  A run's progress is a function from steps to        *)
(* statuses.  `completed_steps` is not kept apart: set_status makes it the *)
(* set of the steps that are `succeeded` or `skipped`.                     *)
(***************************************************************************)
EXTENDS Naturals, Sequences, SequencesExt

Status == {"pending", "running", "succeeded", "failed", "cancelled", "skipped"}
Done == {"succeeded", "skipped"}
Terminal == Done \cup {"failed", "cancelled"}

StepsOf(dag) == ToSet(dag.order)
DepsOf(dag, s) == ToSet(dag.deps[s])
Completed(st) == {s \in DOMAIN st : st[s] \in Done}

\* The steps and their dependencies are lists, and step names identify steps:
\* the workflow file promises it and nothing checks it.
WellFormed(dag) ==
  /\ dag.order \in Seq(StepsOf(dag))
  /\ \A i, j \in DOMAIN dag.order : dag.order[i] = dag.order[j] => i = j
  /\ \A s \in StepsOf(dag) : dag.deps[s] \in Seq(DepsOf(dag, s))

----------------------------------------------------------------------------
(* Building a graph: validate_references and detect_cycle. *)

ValidReferences(dag) == \A s \in StepsOf(dag) : DepsOf(dag, s) \subseteq StepsOf(dag)

\* What a loop over `seq` makes of `base`.  The body is a function of what the
\* loop has so far and of the next element; FoldLeft takes an operator, which
\* proofs could not cite.
Walk(body, base, seq) ==
  LET after[i \in 0..Len(seq)] ==
        IF i = 0 THEN base ELSE body[<<after[i - 1], seq[i]>>]
  IN after[Len(seq)]

\* The loop body of cycle_dfs on a path of nodes (in_stack): does the next
\* dependency close a cycle, and what has been visited; it goes into a
\* dependency that was not.  The recursion ends because the path grows.
CycleDfs(dag) ==
  LET S == StepsOf(dag)
      Found == [cyclic : BOOLEAN, visited : SUBSET S]
      look[path \in SUBSET S] ==
        [x \in Found \X S |->
           LET found == x[1] d == x[2] IN
           IF found.cyclic \/ d \in found.visited \ path THEN found
           ELSE IF d \in path THEN [found EXCEPT !.cyclic = TRUE]
           ELSE Walk(look[path \cup {d}],
                     [found EXCEPT !.visited = @ \cup {d}], dag.deps[d])]
  IN look

DetectCycle(dag) ==
  Walk(CycleDfs(dag)[{}], [cyclic |-> FALSE, visited |-> {}], dag.order).cyclic

\* WorkflowDag::build accepts the steps.
BuildAccepts(dag) == ValidReferences(dag) /\ ~DetectCycle(dag)

----------------------------------------------------------------------------
(* Scheduling. *)

\* filter(): what is left of a sequence when only the members of X stay.  It
\* takes a set, where SelectSeq takes an operator, so that proofs can cite it.
Kept(seq, X) ==
  LET kept[i \in 0..Len(seq)] ==
        IF i = 0 THEN <<>>
        ELSE IF seq[i] \in X THEN Append(kept[i - 1], seq[i]) ELSE kept[i - 1]
  IN kept[Len(seq)]

\* Mutant of ReadySteps: one finished dependency is enough.
ReadyOnAny(dag, completed) ==
  Kept(dag.order, {s \in StepsOf(dag) \ completed :
                     DepsOf(dag, s) = {} \/ DepsOf(dag, s) \cap completed # {}})

\* ready_steps: not completed, every dependency completed, in source order.
ReadySteps(dag, completed) ==
  Kept(dag.order, {s \in StepsOf(dag) \ completed : DepsOf(dag, s) \subseteq completed})

\* The loop body of topo_dfs: a step is put out after its dependencies.  The
\* nodes visited are those on the path and those put out.
TopoDfs(dag) ==
  LET S == StepsOf(dag)
      put[path \in SUBSET S] ==
        [x \in Seq(S) \X S |->
           LET out == x[1] d == x[2] IN
           IF d \in path \cup ToSet(out) THEN out
           ELSE Append(Walk(put[path \cup {d}], out, dag.deps[d]), d)]
  IN put

\* topological_order: depth first from each step in source order.
TopologicalOrder(dag) == Walk(TopoDfs(dag)[{}], <<>>, dag.order)

IsComplete(st) == \A s \in DOMAIN st : st[s] \in Terminal

\* direct dependencies of a group outside it, direct and transitive dependents.
DependenciesOf(dag, group) == UNION {DepsOf(dag, s) : s \in group} \ group
DependentsOf(dag, roots) ==
  LET S == StepsOf(dag)
      reach[k \in 0..Len(dag.order)] ==
        IF k = 0 THEN roots
        ELSE reach[k-1] \cup {s \in S : DepsOf(dag, s) \cap reach[k-1] # {}}
  IN reach[Len(dag.order)] \ roots

----------------------------------------------------------------------------
(* Resuming a saved run. *)

SetAll(st, steps, v) == [s \in DOMAIN st |-> IF s \in steps THEN v ELSE st[s]]

\* resume_stop_point: the place of the first failed or cancelled step, else of
\* the first one that never succeeded; 0 when there is nothing left to resume.
ResumeStopPoint(dag, st) ==
  LET order == TopologicalOrder(dag)
      first(v) == LET at == {i \in DOMAIN order : st[order[i]] \in v}
                  IN IF at = {} THEN 0 ELSE CHOOSE i \in at : \A j \in at : i <= j
  IN IF first({"failed", "cancelled"}) # 0 THEN first({"failed", "cancelled"})
     ELSE first(Status \ Done)

\* workflow_resume_start_points: the stop point, the step before, the one after.
ResumeStartPoints(dag, st) ==
  LET order == TopologicalOrder(dag)
      stop == ResumeStopPoint(dag, st)
  IN IF stop = 0 THEN {}
     ELSE {order[i] : i \in DOMAIN order \cap {stop - 1, stop, stop + 1}}

\* Mutant of RewindTo: what precedes `start` is left as it was.
RewindOnly(dag, st, start) ==
  LET order == TopologicalOrder(dag)
      at == CHOOSE i \in DOMAIN order : order[i] = start
  IN SetAll(st, ToSet(SubSeq(order, at, Len(order))), "pending")

\* rewind_to: `start` and what follows it is pending again, what precedes it
\* and never succeeded is skipped.
RewindTo(dag, st, start) ==
  LET order == TopologicalOrder(dag)
      at == CHOOSE i \in DOMAIN order : order[i] = start
  IN [s \in DOMAIN st |->
        LET i == CHOOSE j \in DOMAIN order : order[j] = s
        IN IF i >= at THEN "pending"
           ELSE IF st[s] \in Done THEN st[s] ELSE "skipped"]

\* The resets of WorkflowEngine::resume: what was running when the run died
\* and what it left failed or cancelled is pending again.
ResetUnfinished(st) ==
  [s \in DOMAIN st |-> IF st[s] \in Done THEN st[s] ELSE "pending"]

----------------------------------------------------------------------------
(* Reference definitions, over every graph on three steps, one unknown name *)
(* among the dependencies.                                                  *)

AllGraphs ==
  LET order == <<"b", "a", "c">> names == <<"c", "x", "a", "b">>
  IN {[order |-> order, deps |-> [s \in ToSet(order) |->
                                   Kept(names, d[s])]] :
        d \in [ToSet(order) -> SUBSET ToSet(names)]}

\* No set of steps in which each waits for another one of the set.
Acyclic(dag) ==
  \A C \in (SUBSET StepsOf(dag)) \ {{}} : \E s \in C : DepsOf(dag, s) \cap C = {}

InOrder(dag, order) ==
  /\ Len(order) = Len(dag.order) /\ ToSet(order) = StepsOf(dag)
  /\ \A i \in DOMAIN order : DepsOf(dag, order[i]) \subseteq ToSet(SubSeq(order, 1, i - 1))

\* The smallest set that has the roots and every step that waits for one of it.
Closed(dag, C) == \A s \in StepsOf(dag) : DepsOf(dag, s) \cap C # {} => s \in C
WaitFor(dag, roots, C) ==
  /\ roots \subseteq C /\ Closed(dag, C)
  /\ \A B \in SUBSET StepsOf(dag) : roots \subseteq B /\ Closed(dag, B) => C \subseteq B

\* What a graph promises: see DagLaws of WorkflowRun.
Lawful(dag) ==
  /\ BuildAccepts(dag) <=> ValidReferences(dag) /\ Acyclic(dag)
  /\ BuildAccepts(dag) =>
       /\ InOrder(dag, TopologicalOrder(dag))
       /\ \A roots \in SUBSET StepsOf(dag) :
            WaitFor(dag, roots, roots \cup DependentsOf(dag, roots))
       /\ \A st \in [StepsOf(dag) -> Status] :
            /\ (ResumeStartPoints(dag, st) = {}) <=> (Completed(st) = StepsOf(dag))
            /\ \A start \in ResumeStartPoints(dag, st) :
                 LET st2 == ResetUnfinished(RewindTo(dag, st, start))
                 IN /\ start \in ToSet(ReadySteps(dag, Completed(st2)))
                    /\ \A s \in Completed(st2) : DepsOf(dag, s) \subseteq Completed(st2)
=============================================================================
