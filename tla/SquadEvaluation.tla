--------------------------- MODULE SquadEvaluation ---------------------------
(***************************************************************************)
(* What one evaluation of a squad task does between two looks of the       *)
(* scheduler: LocalTaskEvaluator::evaluate. A leader agent decides whether *)
(* the task triggers and writes a workflow; the workflow is validated, sent *)
(* back to the leader a bounded number of times, and executed.             *)
(*                                                                         *)
(* An evaluation is a record [task, name, parked, pc, attempt, agent,      *)
(* outcome, cancelled] in the hands of SquadTasks:                         *)
(*   parked     the task carried a backoff when it was selected            *)
(*   attempt    repair attempts used, while it is undecided                *)
(*   agent      its container: "none", "up", or "killed" from outside      *)
(*   outcome    "failed", or "done": not triggered, or workflow executed   *)
(*   cancelled  its cancellation token has fired                           *)
(***************************************************************************)
EXTENDS Naturals

\* The evaluation future has not returned yet, so a cancel still wins over it.
Undecided(e) == e.pc \in {"prepare", "leader", "workflow"}

Decides(e, outcome) ==
  [e EXCEPT !.pc = "decided", !.agent = "none", !.attempt = 0, !.outcome = outcome]

LeaderRuns(e) == [e EXCEPT !.pc = "leader", !.agent = "up"]

\* How a leader's container can end. One that was killed by somebody else looks
\* like one that crashed; only the launcher's own countdown is told apart.
Exits(e) == IF e.agent = "killed" THEN {"crashed"} ELSE {"clean", "crashed", "idle"}

\* What a leader may have left as the verdict of this run.
Verdicts == {"missing", "broken", "untriggered", "triggered"}

\* decide_leader_outcome. A crash is a failure whatever the verdict; an idle
\* leader that was ended before it wrote one has not triggered.
Decision(exit, verdict) ==
  CASE exit = "crashed"                         -> "failed"
    [] exit # "crashed" /\ verdict = "triggered"   -> "validate"
    [] exit # "crashed" /\ verdict = "untriggered" -> "done"
    [] exit = "idle" /\ verdict = "missing"        -> "done"
    [] OTHER                                    -> "failed"

\* The workflow in the task's directory, this run's or an earlier one's, is valid
\* and its agents' images are there: its first step starts.
WorkflowRuns(e) == [e EXCEPT !.pc = "workflow", !.agent = "up"]

\* WorkflowRepairLoop::record: one that is not goes back to the leader, `max`
\* times at most.
Repair(e, max) ==
  IF e.attempt + 1 > max
  THEN Decides(e, "failed")
  ELSE LeaderRuns([e EXCEPT !.attempt = @ + 1])

Validation(e, max) == {WorkflowRuns(e), Repair(e, max)}

\* The leader's container ended. Only the first attempt reads the verdict.
AfterLeader(e, max, exit, verdict) ==
  IF (e.attempt > 0 /\ exit # "crashed") \/ Decision(exit, verdict) = "validate"
  THEN Validation(e, max)
  ELSE {Decides(e, Decision(exit, verdict))}

LeaderEnds(e, max) ==
  UNION {AfterLeader(e, max, exit, verdict) : exit \in Exits(e), verdict \in Verdicts}

\* The workflow ran to its end. One whose step was killed may still succeed: the
\* engine retries a step.
WorkflowEnds(e) == {Decides(e, "done"), Decides(e, "failed")}

\* Where the evaluation can be at its next await. An error on the way (a session,
\* an image, a launch, redirected git metadata) fails the run anywhere.
Continues(e, max) ==
  {Decides(e, "failed")} \cup
    CASE e.pc = "prepare"  -> {LeaderRuns(e)}
      [] e.pc = "leader"   -> LeaderEnds(e, max)
      [] e.pc = "workflow" -> WorkflowEnds(e)
=============================================================================
