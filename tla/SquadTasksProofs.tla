--------------------------- MODULE SquadTasksProofs ---------------------------
(***************************************************************************)
(* The invariants of SquadTasks, for every set of tasks and runs and every  *)
(* plan of requests and faults: one evaluation of a task at a time, a cancel *)
(* that reaches it, and a cap that holds over all ticks.                    *)
(*                                                                          *)
(* What the properties say of the evaluations that live depends on what the *)
(* tick has selected and not dispatched yet: TickOK says that, and RowsKept *)
(* which row an undecided evaluation has when requests delete and create    *)
(* tasks meanwhile.                                                         *)
(***************************************************************************)
EXTENDS SquadTasks, FiniteSetTheorems, SequenceTheorems, TLAPS

\* The tasks the tick has selected are different, fit into the cap with what is
\* in flight, and nobody evaluates them: no `running` row but that of the run
\* the tick has just opened, which is nobody's yet.
TickOK ==
  /\ tick.opened # NoRun => tick.todo # <<>>
  /\ tick.todo # <<>> => inFlight + Len(tick.todo) <= tick.cap
  /\ \A i, j \in DOMAIN tick.todo : tick.todo[i].task = tick.todo[j].task => i = j
  /\ \A i \in DOMAIN tick.todo, r \in RunIds :
       /\ Running(r) /\ runs[r].task = tick.todo[i].task => i = 1 /\ r = tick.opened
       /\ r \in Live /\ Undecided(evals[r]) => evals[r].task # tick.todo[i].task
  /\ tick.opened # NoRun =>
       /\ tick.opened \notin Live
       /\ \/ runs[tick.opened] = Row(tick.todo[1].task, "running")
          \/ runs[tick.opened] = NoRun /\ tick.todo[1].task \notin Stored

\* A daemon that is not there has nothing in memory.
DownOK == daemon \in {"stopped", "crashed"} => tick = Idle /\ Live = {}

\* An evaluation that is not decided has its row, until its task is deleted.
RowsKept ==
  \A r \in Live : Undecided(evals[r]) =>
    \/ runs[r] = Row(evals[r].task, "running")
    \/ runs[r] = NoRun /\ evals[r].task \notin Stored

\* An evaluation that is decided has an outcome for its row.
OutcomeKnown ==
  \A r \in Live : evals[r].pc = "decided" => evals[r].outcome # "none"

IInv ==
  /\ TypeOK /\ TickOK /\ DownOK /\ OutcomeKnown
  /\ RowsKept /\ OneEvaluation /\ CancelReachesRun
-----------------------------------------------------------------------------
(* The helpers of the model *)

\* A bounded request or fault leaves bounds, and the same repair attempts.
LEMMA SpendKeeps ==
  ASSUME plan \in Bounds, NEW kind \in Requests \cup Faults, Spend(kind)
  PROVE  plan' \in Bounds /\ plan'.repairs = plan.repairs
<1>1. plan.left \in [Requests \cup Faults -> Nat] /\ plan.left[kind] > 0
  BY DEF Bounds, Spend
<1>2. plan' = [plan EXCEPT !.left = [plan.left EXCEPT ![kind] = @ - 1]]
  BY DEF Spend
<1>3. [plan.left EXCEPT ![kind] = @ - 1] \in [Requests \cup Faults -> Nat]
  BY <1>1
<1> QED
  BY <1>2, <1>3 DEF Bounds

\* What is in the tables is a task, a run or an evaluation.
LEMMA TaskFields ==
  ASSUME tasks \in [TaskIds -> {NoTask} \cup TaskRow], NEW t \in Stored
  PROVE  t \in TaskIds /\ tasks[t] \in TaskRow
BY DEF Stored

LEMMA RunFields ==
  ASSUME runs \in [RunIds -> {NoRun} \cup RunRow], NEW r \in RunIds, Running(r)
  PROVE  runs[r] \in RunRow /\ runs[r] # NoRun /\ runs[r] = Row(runs[r].task, "running")
<1>1. runs[r] \in RunRow /\ runs[r].status = "running"
  BY DEF Running
<1> QED
  BY <1>1, IdAssumption DEF RunRow, Row

LEMMA EvalFields ==
  ASSUME evals \in [RunIds -> {NoEval} \cup Evaluation], NEW r \in Live
  PROVE  r \in RunIds /\ evals[r] \in Evaluation
BY DEF Live

\* A running row is a row, that of its task and no other.
LEMMA RowIsARow ==
  ASSUME NEW t \in TaskIds, NEW status \in {"running", "canceled", "failed", "done"}
  PROVE  /\ Row(t, status) \in RunRow /\ Row(t, status) # NoRun
         /\ Row(t, status).task = t /\ Row(t, status).status = status
BY IdAssumption DEF Row, RunRow

\* The slot a new run takes belongs to no row and no evaluation.
LEMMA FreeRunIsFree ==
  ASSUME FreeRuns # {}
  PROVE  FreeRun \in RunIds /\ FreeRun \notin Live /\ runs[FreeRun] = NoRun
         /\ FreeRun # NoRun
<1>1. FreeRun \in FreeRuns
  BY DEF FreeRun
<1> QED
  BY <1>1, IdAssumption DEF FreeRuns

\* Taking an element out of a sequence without duplicates leaves one that does
\* not have it.
LEMMA RemoveAtProperties ==
  ASSUME NEW S, NEW s \in Seq(S), NEW k \in 1..Len(s),
         \A i, j \in DOMAIN s : s[i] = s[j] => i = j
  PROVE  /\ Seqs!RemoveAt(s, k) \in Seq(S)
         /\ \A i, j \in DOMAIN Seqs!RemoveAt(s, k) :
              Seqs!RemoveAt(s, k)[i] = Seqs!RemoveAt(s, k)[j] => i = j
         /\ \A i \in DOMAIN Seqs!RemoveAt(s, k) : Seqs!RemoveAt(s, k)[i] # s[k]
<1> DEFINE a == SubSeq(s, 1, k - 1)
           b == SubSeq(s, k + 1, Len(s))
<1>1. a \in Seq(S) /\ Len(a) = k - 1 /\ \A i \in 1..Len(a) : a[i] = s[i]
  BY SubSeqProperties
<1>2. b \in Seq(S) /\ Len(b) = Len(s) - k /\ \A i \in 1..Len(b) : b[i] = s[k + i]
  BY SubSeqProperties
<1> HIDE DEF a, b
<1>3. Seqs!RemoveAt(s, k) = a \o b
  BY DEF Seqs!RemoveAt, a, b
<1>4. a \o b \in Seq(S) /\ Len(a \o b) = Len(s) - 1
  <2>1. a \o b \in Seq(S) /\ Len(a \o b) = Len(a) + Len(b)
    BY <1>1, <1>2, ConcatProperties
  <2>2. Len(s) \in Nat
    OBVIOUS
  <2> QED
    BY <1>1, <1>2, <2>1, <2>2
<1>5. ASSUME NEW i \in 1..(Len(s) - 1)
      PROVE  (a \o b)[i] = s[IF i < k THEN i ELSE i + 1]
  <2>1. (a \o b)[i] = IF i <= Len(a) THEN a[i] ELSE b[i - Len(a)]
    BY <1>1, <1>2, <1>4, ConcatProperties
  <2>2. CASE i < k
    BY <1>1, <2>1, <2>2
  <2>3. CASE ~ (i < k)
    <3>1. i - Len(a) \in 1..Len(b)
      BY <1>1, <1>2, <2>3
    <3>2. b[i - Len(a)] = s[k + (i - Len(a))]
      BY <1>2, <3>1
    <3>3. k + (i - Len(a)) = i + 1
      BY <1>1
    <3> QED
      BY <1>1, <2>1, <2>3, <3>2, <3>3
  <2> QED
    BY <2>2, <2>3
<1>6. DOMAIN (a \o b) = 1..(Len(s) - 1)
  BY <1>4
<1>7. ASSUME NEW i \in 1..(Len(s) - 1), NEW j \in 1..(Len(s) - 1),
             (a \o b)[i] = (a \o b)[j]
      PROVE  i = j
  <2> DEFINE f(n) == IF n < k THEN n ELSE n + 1
  <2>1. f(i) \in 1..Len(s) /\ f(j) \in 1..Len(s)
    OBVIOUS
  <2>2. s[f(i)] = s[f(j)]
    BY <1>5, <1>7
  <2>3. f(i) = f(j)
    BY <2>1, <2>2
  <2> QED
    BY <2>3
<1>8. ASSUME NEW i \in 1..(Len(s) - 1)
      PROVE  (a \o b)[i] # s[k]
  <2> DEFINE f == IF i < k THEN i ELSE i + 1
  <2>1. f \in 1..Len(s) /\ f # k
    OBVIOUS
  <2>2. (a \o b)[i] = s[f]
    BY <1>5
  <2> HIDE DEF f
  <2> QED
    BY <2>1, <2>2
<1> QED
  BY <1>3, <1>4, <1>6, <1>7, <1>8

\* The order of the last runs without a task: every other task once.
LEMMA WithoutProperties ==
  ASSUME order \in Seq(Stored), \A i, j \in DOMAIN order : order[i] = order[j] => i = j,
         NEW t
  PROVE  /\ Without(t) \in Seq(Stored)
         /\ \A i, j \in DOMAIN Without(t) : Without(t)[i] = Without(t)[j] => i = j
         /\ \A i \in DOMAIN Without(t) : Without(t)[i] # t
<1>1. CASE \E i \in DOMAIN order : order[i] = t
  <2>1. LastRun(t) \in DOMAIN order /\ order[LastRun(t)] = t
    BY <1>1 DEF LastRun
  <2>2. LastRun(t) \in 1..Len(order) /\ LastRun(t) # 0
    BY <2>1
  <2> QED
    BY <2>1, <2>2, RemoveAtProperties DEF Without
<1>2. CASE ~ \E i \in DOMAIN order : order[i] = t
  BY <1>2 DEF Without, LastRun
<1> QED
  BY <1>1, <1>2

\* Wherever an evaluation goes on, it stays that of its task and has repair
\* attempts left, or is decided.
LEMMA ContinuesKeeps ==
  ASSUME NEW e \in Evaluation, NEW max \in Nat, e.attempt <= max, Undecided(e),
         NEW next \in Continues(e, max)
  PROVE  /\ next \in Evaluation
         /\ next.task = e.task /\ next.name = e.name /\ next.cancelled = e.cancelled
         /\ next.attempt <= max
         /\ next.pc = "decided" => next.outcome # "none"
<1> DEFINE Kept(n) == /\ n \in Evaluation
                      /\ n.task = e.task /\ n.name = e.name /\ n.cancelled = e.cancelled
                      /\ n.attempt <= max
                      /\ n.pc = "decided" => n.outcome # "none"
<1>1. \A out \in {"failed", "done"} : Kept(Decides(e, out))
  <2> TAKE out \in {"failed", "done"}
  <2>1. Decides(e, out) \in Evaluation
    BY DEF Decides, Evaluation
  <2>2. /\ Decides(e, out).task = e.task /\ Decides(e, out).name = e.name
        /\ Decides(e, out).cancelled = e.cancelled /\ Decides(e, out).attempt = 0
        /\ Decides(e, out).outcome = out
    BY DEF Decides, Evaluation
  <2> QED
    BY <2>1, <2>2
<1>2. Kept(LeaderRuns(e)) /\ Kept(WorkflowRuns(e))
  BY DEF LeaderRuns, WorkflowRuns, Evaluation
<1>3. Kept(Repair(e, max))
  <2>1. CASE e.attempt + 1 > max
    BY <1>1, <2>1 DEF Repair
  <2>2. CASE ~ (e.attempt + 1 > max)
    <3>1. e.attempt \in Nat
      BY DEF Evaluation
    <3> DEFINE n == LeaderRuns([e EXCEPT !.attempt = @ + 1])
    <3>2. [e EXCEPT !.attempt = @ + 1] \in Evaluation
      BY <3>1 DEF Evaluation
    <3>3. n \in Evaluation
      BY <3>2 DEF LeaderRuns, Evaluation
    <3>4. /\ n.task = e.task /\ n.name = e.name
          /\ n.cancelled = e.cancelled /\ n.attempt = e.attempt + 1
          /\ n.pc = "leader"
      BY DEF LeaderRuns, Evaluation
    <3> QED
      BY <2>2, <3>1, <3>3, <3>4 DEF Repair
  <2> QED
    BY <2>1, <2>2
<1>4. \A exit \in Exits(e), verdict \in Verdicts :
        \A n \in AfterLeader(e, max, exit, verdict) : Kept(n)
  <2> HIDE DEF Kept
  <2> SUFFICES ASSUME NEW exit \in Exits(e), NEW verdict \in Verdicts,
                      NEW n \in AfterLeader(e, max, exit, verdict)
               PROVE  Kept(n)
    OBVIOUS
  <2>1. CASE n \in Validation(e, max)
    BY <1>2, <1>3, <2>1 DEF Validation
  <2>2. CASE n \notin Validation(e, max)
    <3>1. n = Decides(e, Decision(exit, verdict)) /\ Decision(exit, verdict) # "validate"
      BY <2>2 DEF AfterLeader
    <3>2. Decision(exit, verdict) \in {"failed", "done", "validate"}
      BY DEF Decision
    <3> QED
      BY <1>1, <3>1, <3>2
  <2> QED
    BY <2>1, <2>2
<1>5. CASE e.pc = "prepare"
  BY <1>1, <1>2, <1>5 DEF Continues
<1>6. CASE e.pc = "leader"
  BY <1>1, <1>4, <1>6 DEF Continues, LeaderEnds
<1>7. CASE e.pc = "workflow"
  BY <1>1, <1>7 DEF Continues, WorkflowEnds
<1> QED
  BY <1>5, <1>6, <1>7 DEF Undecided
-----------------------------------------------------------------------------
(* What a step of an evaluation leaves alone *)

\* Evaluations go on: the same ones live, for the same tasks, and none that was
\* decided is undecided again.
GoesOn ==
  /\ evals' \in [RunIds -> {NoEval} \cup Evaluation]
  /\ Live' = Live
  /\ \A q \in Live : /\ evals'[q].task = evals[q].task
                     /\ evals'[q].attempt <= plan'.repairs
                     /\ Undecided(evals'[q]) => Undecided(evals[q])
                     /\ evals'[q].pc = "decided" => evals'[q].outcome # "none"

\* If only one evaluation changes, and stays one of its task, evaluations go on.
LEMMA OneGoesOn ==
  ASSUME TypeOK, OutcomeKnown, NEW r \in Live, NEW next \in Evaluation,
         evals' = [evals EXCEPT ![r] = next], next.task = evals[r].task,
         next.attempt <= plan.repairs, Undecided(next) => Undecided(evals[r]),
         next.pc = "decided" => next.outcome # "none",
         plan'.repairs = plan.repairs
  PROVE  GoesOn
<1>1. evals \in [RunIds -> {NoEval} \cup Evaluation] /\ r \in RunIds /\ evals[r] # NoEval
      /\ \A q \in Live : evals[q].attempt <= plan.repairs
  BY DEF TypeOK, Live
<1>2. next # NoEval
  BY IdAssumption
<1>3. evals' \in [RunIds -> {NoEval} \cup Evaluation]
  BY <1>1
<1>4. Live' = Live
  BY <1>1, <1>2 DEF Live
<1> QED
  BY <1>1, <1>3, <1>4 DEF GoesOn, Live, OutcomeKnown

\* The fields of an evaluation that lives
LEMMA LiveFields ==
  ASSUME TypeOK, NEW r \in Live
  PROVE  /\ r \in RunIds /\ evals[r] \in Evaluation
         /\ evals[r].task \in TaskIds /\ evals[r].name \in Names
         /\ evals[r].attempt \in Nat /\ evals[r].attempt <= plan.repairs
         /\ evals[r].outcome \in {"none", "failed", "done"}
<1>1. r \in RunIds /\ evals[r] \in Evaluation
  BY DEF TypeOK, Live
<1>2. evals[r].attempt <= plan.repairs
  BY DEF TypeOK
<1> QED
  BY <1>1, <1>2 DEF Evaluation

\* The await that ends, the steps after the decision, and the cancel.
LEMMA EvaluationGoesOn ==
  ASSUME TypeOK, OutcomeKnown, NEW r \in RunIds,
         Evaluate(r) \/ FinishRun(r) \/ Settle(r) \/ CancelRun(r) \/ StopContainers(r)
  PROVE  GoesOn
<1>1. r \in Live
  BY DEF Evaluate, FinishRun, Settle, CancelRun, StopContainers
<1>2. evals[r] \in Evaluation /\ evals[r].attempt <= plan.repairs
  BY <1>1, LiveFields
<1>3. plan \in Bounds /\ plan.repairs \in Nat
  BY DEF TypeOK, Bounds
<1>4. plan' = plan \/ plan'.repairs = plan.repairs
  BY <1>3, SpendKeeps DEF Evaluate, FinishRun, Settle, CancelRun, StopContainers,
     Records, Faults
<1>5. CASE Evaluate(r)
  <2>1. PICK next \in Continues(evals[r], plan.repairs) :
          evals' = [evals EXCEPT ![r] = next]
    BY <1>5 DEF Evaluate
  <2>2. Undecided(evals[r])
    BY <1>5 DEF Evaluate, Evaluates
  <2> QED
    BY <1>1, <1>2, <1>3, <1>4, <2>1, <2>2, ContinuesKeeps, OneGoesOn
<1>6. ASSUME NEW pc \in {"settle", "over", "stopping"},
             evals' = [evals EXCEPT ![r].pc = pc]
      PROVE  GoesOn
  <2> DEFINE next == [evals[r] EXCEPT !.pc = pc]
  <2>1. /\ next \in Evaluation /\ next.task = evals[r].task
        /\ next.attempt = evals[r].attempt
        /\ ~ Undecided(next) /\ next.pc = pc
    BY <1>2 DEF Evaluation, Undecided
  <2>2. evals' = [evals EXCEPT ![r] = next]
    BY <1>6
  <2> QED
    BY <1>1, <1>2, <1>4, <2>1, <2>2, OneGoesOn
<1>7. CASE FinishRun(r)
  BY <1>6, <1>7 DEF FinishRun
<1>8. CASE Settle(r)
  BY <1>6, <1>8 DEF Settle
<1>9. CASE CancelRun(r)
  BY <1>6, <1>9 DEF CancelRun
<1>10. CASE StopContainers(r)
  <2>1. CASE evals' = [evals EXCEPT ![r].pc = "over"]
    BY <1>6, <2>1
  <2>2. CASE /\ evals' = [q \in RunIds |->
                            IF q = r THEN [Stopped(r, evals[r]) EXCEPT !.pc = "over"]
                            ELSE IF q \in Live THEN Stopped(r, evals[q]) ELSE NoEval]
             /\ plan' = plan
    <3>1. ASSUME NEW q \in Live
          PROVE  /\ Stopped(r, evals[q]) \in Evaluation
                 /\ Stopped(r, evals[q]).task = evals[q].task
                 /\ Stopped(r, evals[q]).attempt = evals[q].attempt
                 /\ Stopped(r, evals[q]).pc = evals[q].pc
                 /\ Stopped(r, evals[q]).outcome = evals[q].outcome
      <4>1. evals[q] \in Evaluation
        BY LiveFields
      <4> QED
        BY <4>1 DEF Stopped, Evaluation
    <3> DEFINE over == [Stopped(r, evals[r]) EXCEPT !.pc = "over"]
    <3>2. /\ over \in Evaluation /\ over.task = evals[r].task
          /\ over.attempt = evals[r].attempt /\ ~ Undecided(over) /\ over.pc = "over"
      BY <1>1, <3>1 DEF Evaluation, Undecided
    <3> HIDE DEF over
    <3>3. \A q \in Live : /\ evals'[q] \in Evaluation /\ evals'[q].task = evals[q].task
                          /\ evals'[q].attempt = evals[q].attempt
                          /\ Undecided(evals'[q]) => Undecided(evals[q])
                          /\ evals'[q].pc = "decided" => evals'[q].outcome # "none"
      BY <2>2, <3>1, <3>2 DEF Undecided, Live, over, OutcomeKnown
    <3>4. \A q \in RunIds \ Live : evals'[q] = NoEval
      BY <1>1, <2>2
    <3>5. evals' \in [RunIds -> {NoEval} \cup Evaluation]
      <4>1. \A q \in RunIds : evals'[q] \in {NoEval} \cup Evaluation
        BY <3>3, <3>4
      <4> QED
        BY <2>2, <4>1
    <3>6. Live' = Live
      BY <3>3, <3>4, IdAssumption DEF Live
    <3> QED
      BY <2>2, <3>3, <3>5, <3>6, LiveFields DEF GoesOn
  <2> QED
    BY <1>10, <2>1, <2>2 DEF StopContainers
<1> QED
  BY <1>5, <1>7, <1>8, <1>9, <1>10

\* The token of a cancel
LEMMA CancelGoesOn ==
  ASSUME TypeOK, OutcomeKnown, CancelReachesRun, NEW t \in TaskIds, FireCancel(t)
  PROVE  GoesOn
<1>1. CASE handles[t] = NoRun
  BY <1>1, LiveFields DEF FireCancel, GoesOn, TypeOK, Live, OutcomeKnown
<1>2. CASE handles[t] # NoRun
  <2> DEFINE r == handles[t]
             next == [evals[r] EXCEPT !.cancelled = TRUE]
  <2>1. r \in Live
    BY <1>2 DEF CancelReachesRun
  <2>2. evals' = [evals EXCEPT ![r] = next] /\ plan' = plan
    BY <1>2 DEF FireCancel
  <2>3. evals[r] \in Evaluation /\ evals[r].attempt <= plan.repairs
    BY <2>1, LiveFields
  <2>4. /\ next \in Evaluation /\ next.task = evals[r].task
        /\ next.attempt = evals[r].attempt /\ next.pc = evals[r].pc
        /\ next.outcome = evals[r].outcome
    BY <2>3 DEF Evaluation
  <2> HIDE DEF r, next
  <2> QED
    BY <2>1, <2>2, <2>3, <2>4, OneGoesOn DEF Undecided, OutcomeKnown
<1> QED
  BY <1>1, <1>2

\* An evaluation writes the row of its own run, and a row that runs afterwards
\* ran before.
LEMMA EvaluationRows ==
  ASSUME TypeOK, OutcomeKnown, NEW r \in RunIds, EvaluationStep(r)
  PROVE  /\ runs' \in [RunIds -> {NoRun} \cup RunRow]
         /\ r \in Live
         /\ \A q \in RunIds : q # r => runs'[q] = runs[q]
         /\ \A q \in RunIds : Running(q)' => Running(q) /\ runs'[q] = runs[q]
         /\ runs' # runs => ~ Undecided(evals'[r]) \/ evals'[r] = NoEval
<1> USE DEF EvaluationStep
<1>1. runs \in [RunIds -> {NoRun} \cup RunRow]
  BY DEF TypeOK
<1>2. r \in Live
  BY DEF Evaluate, FinishRun, Settle, CancelRun, StopContainers, DropGuard
<1>3. /\ evals[r].outcome \in {"none", "failed", "done"}
      /\ evals \in [RunIds -> {NoEval} \cup Evaluation]
  BY <1>2, LiveFields DEF TypeOK
<1>4. CASE UNCHANGED runs
  BY <1>1, <1>2, <1>4 DEF Running
<1>5. ASSUME NEW status \in {"canceled", "failed", "done"}, runs' = Finished(r, status)
      PROVE  /\ runs' \in [RunIds -> {NoRun} \cup RunRow]
             /\ \A q \in RunIds : q # r => runs'[q] = runs[q]
             /\ \A q \in RunIds : Running(q)' => Running(q) /\ runs'[q] = runs[q]
  <2>1. CASE ~ Running(r)
    BY <1>1, <1>5, <2>1 DEF Finished, Running
  <2>2. CASE Running(r)
    <3>1. runs' = [runs EXCEPT ![r] = [runs[r] EXCEPT !.status = status]]
      BY <1>5, <2>2 DEF Finished
    <3>2. runs[r] \in RunRow
      BY <1>1, <2>2, RunFields
    <3>3. [runs[r] EXCEPT !.status = status] \in RunRow
          /\ [runs[r] EXCEPT !.status = status].status = status
      BY <3>2 DEF RunRow
    <3> QED
      BY <1>1, <3>1, <3>3 DEF Running
  <2> QED
    BY <2>1, <2>2
<1>6. CASE FinishRun(r) /\ runs' # runs
  BY <1>2, <1>3, <1>5, <1>6 DEF OutcomeKnown, FinishRun, Records, Undecided, Evaluation
<1>7. CASE CancelRun(r) /\ runs' # runs
  BY <1>2, <1>3, <1>5, <1>7 DEF CancelRun, Records, Undecided, Evaluation
<1>8. CASE DropGuard(r) /\ runs' # runs
  BY <1>1, <1>2, <1>3, <1>8 DEF DropGuard, Running
<1> QED
  BY <1>4, <1>6, <1>7, <1>8 DEF Evaluate, Settle, StopContainers, store
-----------------------------------------------------------------------------
(* Tasks and rows *)

TasksOK ==
  /\ tasks \in [TaskIds -> {NoTask} \cup TaskRow]
  /\ \A t, u \in Stored : tasks[t].name = tasks[u].name => t = u

\* The rows of the tasks change, and no task comes, goes or is renamed.
SameTasks ==
  /\ tasks' \in [TaskIds -> {NoTask} \cup TaskRow]
  /\ Stored' = Stored
  /\ \A t \in Stored : tasks'[t].name = tasks[t].name

\* What changes columns of tasks other than the name is such a change.
LEMMA ColumnsChange ==
  ASSUME TasksOK, tasks' = [t \in TaskIds |-> tasks'[t]],
         \A t \in TaskIds :
           \/ tasks'[t] = tasks[t]
           \/ /\ t \in Stored /\ tasks'[t] \in TaskRow
              /\ tasks'[t].name = tasks[t].name
  PROVE  SameTasks
<1>1. \A t \in TaskIds : tasks'[t] \in {NoTask} \cup TaskRow
  BY DEF TasksOK
<1>2. tasks' \in [TaskIds -> {NoTask} \cup TaskRow]
  BY <1>1
<1>3. \A t \in TaskIds : tasks[t] = NoTask <=> tasks'[t] = NoTask
  BY IdAssumption DEF Stored
<1> QED
  BY <1>2, <1>3 DEF SameTasks, Stored

LEMMA OneTaskChanges ==
  ASSUME TasksOK, NEW t \in Stored, NEW row \in TaskRow, row.name = tasks[t].name,
         tasks' = [tasks EXCEPT ![t] = row]
  PROVE  SameTasks
<1>1. DOMAIN tasks = TaskIds /\ t \in TaskIds
  BY DEF TasksOK, Stored
<1>2. tasks' = [u \in TaskIds |-> tasks'[u]]
  BY <1>1
<1>3. \A u \in TaskIds : tasks'[u] = IF u = t THEN row ELSE tasks[u]
  BY <1>1
<1> QED
  BY <1>2, <1>3, ColumnsChange

\* A run opened: the request is honoured, and the task ran last.
LEMMA HonouredTask ==
  ASSUME TasksOK, NEW t \in Stored, tasks' = Honoured(t)
  PROVE  SameTasks
<1>1. t \in TaskIds /\ tasks[t] \in TaskRow
  BY DEF TasksOK, Stored
<1> DEFINE row == [tasks[t] EXCEPT !.trigger = FALSE, !.rested = FALSE]
<1>2. row \in TaskRow /\ row.name = tasks[t].name
  BY <1>1 DEF TaskRow
<1>3. tasks' = [tasks EXCEPT ![t] = row]
  BY <1>1 DEF Honoured, TasksOK
<1> HIDE DEF row
<1> QED
  BY <1>2, <1>3, OneTaskChanges

LEMMA BackoffSet ==
  ASSUME TasksOK, NEW name, NEW to \in {"none", "parked", "past"},
         tasks' = SetBackoff(name, to)
  PROVE  SameTasks
<1>1. \A t \in Stored : /\ [tasks[t] EXCEPT !.backoff = to] \in TaskRow
                        /\ [tasks[t] EXCEPT !.backoff = to].name = tasks[t].name
  <2> TAKE t \in Stored
  <2>1. tasks[t] \in TaskRow
    BY DEF TasksOK, Stored
  <2> QED
    BY <2>1 DEF TaskRow
<1>2. tasks' = [t \in TaskIds |-> tasks'[t]]
  BY DEF SetBackoff
<1>3. \A t \in TaskIds :
        tasks'[t] = IF t \in Named(name) THEN [tasks[t] EXCEPT !.backoff = to]
                    ELSE tasks[t]
  BY DEF SetBackoff
<1> QED
  BY <1>1, <1>2, <1>3, ColumnsChange DEF Named

\* The steps that change columns of tasks
LEMMA TasksStay ==
  ASSUME TasksOK,
         \/ UNCHANGED tasks
         \/ OpenRun
         \/ \E r \in RunIds : Settle(r)
         \/ \E t \in TaskIds : SetStatus(t) \/ TimePasses(t)
         \/ \E name \in Names : RequestTrigger(name)
  PROVE  SameTasks
<1>1. \A t \in Stored : t \in TaskIds /\ tasks[t] \in TaskRow
  BY DEF TasksOK, Stored
<1>2. CASE UNCHANGED tasks
  BY <1>2 DEF TasksOK, SameTasks, Stored
<1>3. CASE OpenRun
  BY <1>2, <1>3, HonouredTask DEF OpenRun
<1>4. ASSUME NEW r \in RunIds, Settle(r)
      PROVE  SameTasks
  BY <1>2, <1>4, BackoffSet DEF Settle
<1>5. ASSUME NEW t \in TaskIds, SetStatus(t) \/ TimePasses(t)
      PROVE  SameTasks
  <2>1. t \in Stored
    BY <1>5 DEF SetStatus, TimePasses, Rests, BackoffPasses
  <2>2. tasks[t] \in TaskRow /\ DOMAIN tasks = TaskIds
    BY <1>1, <2>1 DEF TasksOK
  <2>3. CASE SetStatus(t)
    <3> DEFINE row == [tasks[t] EXCEPT !.active = ~ tasks[t].active]
    <3>1. row \in TaskRow /\ row.name = tasks[t].name
      BY <2>2 DEF TaskRow
    <3>2. tasks' = [tasks EXCEPT ![t] = row]
      BY <2>2, <2>3 DEF SetStatus
    <3> QED
      BY <2>1, <3>1, <3>2, OneTaskChanges
  <2>4. CASE Rests(t)
    <3> DEFINE row == [tasks[t] EXCEPT !.rested = TRUE]
    <3>1. row \in TaskRow /\ row.name = tasks[t].name
      BY <2>2 DEF TaskRow
    <3>2. tasks' = [tasks EXCEPT ![t] = row]
      BY <2>2, <2>4 DEF Rests
    <3> QED
      BY <2>1, <3>1, <3>2, OneTaskChanges
  <2>5. CASE BackoffPasses(t)
    <3> DEFINE row == [tasks[t] EXCEPT !.backoff = "past"]
    <3>1. row \in TaskRow /\ row.name = tasks[t].name
      BY <2>2 DEF TaskRow
    <3>2. tasks' = [tasks EXCEPT ![t] = row]
      BY <2>2, <2>5 DEF BackoffPasses
    <3> QED
      BY <2>1, <3>1, <3>2, OneTaskChanges
  <2> QED
    BY <1>5, <2>3, <2>4, <2>5 DEF TimePasses
<1>6. ASSUME NEW name \in Names, RequestTrigger(name)
      PROVE  SameTasks
  <2> DEFINE row(t) == [tasks[t] EXCEPT !.trigger = TRUE, !.backoff = "none"]
  <2>1. tasks' = [t \in TaskIds |-> IF t \in Named(name) THEN row(t) ELSE tasks[t]]
    BY <1>6 DEF RequestTrigger
  <2>2. \A t \in Stored : row(t) \in TaskRow /\ row(t).name = tasks[t].name
    BY <1>1 DEF TaskRow
  <2> HIDE DEF row
  <2>3. tasks' = [t \in TaskIds |-> tasks'[t]]
    BY <2>1
  <2>4. \A t \in TaskIds : tasks'[t] = IF t \in Named(name) THEN row(t) ELSE tasks[t]
    BY <2>1
  <2> QED
    BY <2>2, <2>3, <2>4, ColumnsChange DEF Named
<1> QED
  BY <1>2, <1>3, <1>4, <1>5, <1>6

\* A new task has a name nobody has, a deleted one is gone.
LEMMA TaskCreated ==
  ASSUME TasksOK, NEW name \in Names, NEW t \in TaskIds \ Stored, Named(name) = {},
         tasks' = [tasks EXCEPT ![t] = NewTask(name)]
  PROVE  TasksOK' /\ Stored' = Stored \cup {t}
<1>1. NewTask(name) \in TaskRow /\ NewTask(name).name = name
  BY DEF NewTask, TaskRow
<1>2. NewTask(name) # NoTask
  BY <1>1, IdAssumption
<1>3. tasks' \in [TaskIds -> {NoTask} \cup TaskRow] /\ tasks'[t] = NewTask(name)
      /\ \A u \in TaskIds : u # t => tasks'[u] = tasks[u]
  BY <1>1 DEF TasksOK
<1>4. Stored' = Stored \cup {t}
  BY <1>2, <1>3 DEF Stored
<1>5. \A u \in Stored : tasks[u].name # name
  BY DEF Named
<1> QED
  BY <1>1, <1>3, <1>4, <1>5 DEF TasksOK, Stored

LEMMA TaskDeleted ==
  ASSUME TasksOK, NEW t \in Stored, tasks' = [tasks EXCEPT ![t] = NoTask]
  PROVE  TasksOK' /\ Stored' = Stored \ {t}
<1>1. tasks' \in [TaskIds -> {NoTask} \cup TaskRow] /\ tasks'[t] = NoTask
      /\ \A u \in TaskIds : u # t => tasks'[u] = tasks[u]
  BY DEF TasksOK, Stored
<1>2. Stored' = Stored \ {t}
  BY <1>1 DEF Stored
<1> QED
  BY <1>1, <1>2 DEF TasksOK, Stored

\* A sequence of some tasks is one of more tasks, and of fewer if it has none of
\* the others.
LEMMA SeqOfFewer ==
  ASSUME NEW S, NEW T, NEW s \in Seq(S), \A i \in DOMAIN s : s[i] \in T
  PROVE  s \in Seq(T)
<1>1. Len(s) \in Nat /\ DOMAIN s = 1..Len(s) /\ s = [i \in 1..Len(s) |-> s[i]]
  OBVIOUS
<1> QED
  BY <1>1, IsASeq

-----------------------------------------------------------------------------
(* The parts of the type invariant *)

OrderOK ==
  /\ order \in Seq(Stored)
  /\ \A i, j \in DOMAIN order : order[i] = order[j] => i = j

RunsOK == runs \in [RunIds -> {NoRun} \cup RunRow] /\ lost \subseteq RunIds

TickType == tick \in [todo : Seq(Snapshots), opened : RunIds \cup {NoRun}, cap : Nat]

EvalsOK ==
  /\ IsFiniteSet(Live) /\ inFlight = Cardinality(Live)
  /\ evals \in [RunIds -> {NoEval} \cup Evaluation]
  /\ \A r \in Live : evals[r].attempt <= plan.repairs

RequestsOK ==
  /\ daemon \in {"up", "draining", "stopped", "crashed"}
  /\ handles \in [TaskIds -> RunIds \cup {NoRun}]
  /\ triggers \subseteq Names /\ cancels \subseteq TaskIds

LEMMA TypeParts ==
  TypeOK <=> /\ TasksOK /\ OrderOK /\ RunsOK /\ TickType /\ EvalsOK /\ RequestsOK
             /\ plan \in Bounds
BY DEF TypeOK, TasksOK, OrderOK, RunsOK, TickType, EvalsOK, RequestsOK

\* Requests and faults are counted, repair attempts are what they are.
LEMMA PlanStep ==
  ASSUME plan \in Bounds, [Next]_vars
  PROVE  plan' \in Bounds /\ plan'.repairs = plan.repairs
<1>1. CASE UNCHANGED plan
  BY <1>1
<1>2. ASSUME NEW r \in RunIds,
             Evaluate(r) \/ Settle(r) \/ DropGuard(r)
      PROVE  UNCHANGED plan
  BY <1>2 DEF Evaluate, Settle, DropGuard, store, memory, requests
<1>3. ASSUME NEW t \in TaskIds,
             FireCancel(t) \/ TimePasses(t)
      PROVE  UNCHANGED plan
  BY <1>3 DEF FireCancel, TimePasses, Rests, BackoffPasses, store, memory, requests
<1>4. ASSUME NEW name \in Names,
             RequestTrigger(name)
      PROVE  UNCHANGED plan
  BY <1>4 DEF RequestTrigger, store, memory, requests
<1>5. ASSUME TickSelects \/ OpenRun \/ Dispatch \/ Drained \/ Boot
      PROVE  UNCHANGED plan
  BY <1>5 DEF TickSelects, OpenRun, Dispatch, Drained, Boot, store, memory, requests
<1>6. CASE PrepareFails
  BY <1>6, SpendKeeps DEF PrepareFails, Requests, Faults
<1>7. ASSUME NEW r \in RunIds, FinishRun(r)
      PROVE  plan' \in Bounds /\ plan'.repairs = plan.repairs
  BY <1>7, SpendKeeps DEF FinishRun, Records, Requests, Faults
<1>8. ASSUME NEW r \in RunIds, CancelRun(r)
      PROVE  plan' \in Bounds /\ plan'.repairs = plan.repairs
  BY <1>8, SpendKeeps DEF CancelRun, Records, Requests, Faults
<1>9. ASSUME NEW r \in RunIds, StopContainers(r)
      PROVE  plan' \in Bounds /\ plan'.repairs = plan.repairs
  BY <1>9, SpendKeeps DEF StopContainers, Requests, Faults
<1>10. ASSUME NEW name \in Names, Create(name)
      PROVE  plan' \in Bounds /\ plan'.repairs = plan.repairs
  BY <1>10, SpendKeeps DEF Create, Requests, Faults
<1>11. ASSUME NEW t \in TaskIds, SetStatus(t)
      PROVE  plan' \in Bounds /\ plan'.repairs = plan.repairs
  BY <1>11, SpendKeeps DEF SetStatus, Requests, Faults
<1>12. ASSUME NEW t \in TaskIds, AskTrigger(t)
      PROVE  plan' \in Bounds /\ plan'.repairs = plan.repairs
  BY <1>12, SpendKeeps DEF AskTrigger, Requests, Faults
<1>13. ASSUME NEW t \in TaskIds, AskCancel(t)
      PROVE  plan' \in Bounds /\ plan'.repairs = plan.repairs
  BY <1>13, SpendKeeps DEF AskCancel, Requests, Faults
<1>14. ASSUME NEW t \in TaskIds, Delete(t)
      PROVE  plan' \in Bounds /\ plan'.repairs = plan.repairs
  BY <1>14, SpendKeeps DEF Delete, Requests, Faults
<1>15. CASE Shutdown
  BY <1>15, SpendKeeps DEF Shutdown, Requests, Faults
<1>16. CASE Crash
  BY <1>16, SpendKeeps DEF Crash, Forgets, Requests, Faults
<1>17. CASE CrashInStart
  BY <1>17, SpendKeeps DEF CrashInStart, Forgets, DiesInStart, Requests, Faults
<1>18. CASE StartFails
  BY <1>18, SpendKeeps DEF StartFails, Requests, Faults
<1> QED
  BY <1>1, <1>2, <1>3, <1>4, <1>5, <1>6, <1>7, <1>8, <1>9, <1>10, <1>11,
     <1>12, <1>13, <1>14, <1>15, <1>16, <1>17, <1>18
     DEF Next, TickStep, EvaluationStep, Request, HandlerStep, vars, store, memory,
         requests

\* Tasks have rows and different names.
LEMMA TasksStep ==
  ASSUME TypeOK, [Next]_vars
  PROVE  TasksOK'
<1>0. TasksOK
  BY TypeParts
<1>a. SameTasks => TasksOK'
  BY <1>0 DEF SameTasks, TasksOK, Stored
<1>1. CASE UNCHANGED tasks
  BY <1>0, <1>1 DEF TasksOK, Stored
<1>2. ASSUME NEW r \in RunIds,
             Evaluate(r) \/ FinishRun(r) \/ CancelRun(r) \/
             StopContainers(r) \/ DropGuard(r)
      PROVE  UNCHANGED tasks
  BY <1>2 DEF Evaluate, FinishRun, CancelRun, StopContainers, DropGuard, Records,
     store, memory, requests
<1>3. ASSUME NEW t \in TaskIds,
             AskTrigger(t) \/ AskCancel(t) \/ FireCancel(t)
      PROVE  UNCHANGED tasks
  BY <1>3 DEF AskTrigger, AskCancel, FireCancel, store, memory, requests
<1>4. ASSUME TickSelects \/ StartFails \/ PrepareFails \/ Dispatch \/
             Shutdown \/ Drained \/ Crash \/ CrashInStart \/ Boot
      PROVE  UNCHANGED tasks
  BY <1>4 DEF TickSelects, StartFails, PrepareFails, Dispatch, Shutdown, Drained, Crash,
     CrashInStart, Boot, Forgets, DiesInStart, store, memory, requests
<1>5. CASE OpenRun
  BY <1>0, <1>a, <1>5, TasksStay
<1>6. ASSUME NEW r \in RunIds, Settle(r)
      PROVE  TasksOK'
  BY <1>0, <1>a, <1>6, TasksStay
<1>7. ASSUME NEW name \in Names, Create(name)
      PROVE  TasksOK'
  <2>1. PICK t \in Unused : tasks' = [tasks EXCEPT ![t] = NewTask(name)]
    BY <1>7 DEF Create
  <2> QED
    BY <1>0, <1>7, <2>1, TaskCreated DEF Create, Unused
<1>8. ASSUME NEW t \in TaskIds, SetStatus(t)
      PROVE  TasksOK'
  BY <1>0, <1>a, <1>8, TasksStay
<1>9. ASSUME NEW t \in TaskIds, Delete(t)
      PROVE  TasksOK'
  BY <1>0, <1>9, TaskDeleted DEF Delete
<1>10. ASSUME NEW name \in Names, RequestTrigger(name)
      PROVE  TasksOK'
  BY <1>0, <1>a, <1>10, TasksStay
<1>11. ASSUME NEW t \in TaskIds, TimePasses(t)
      PROVE  TasksOK'
  BY <1>0, <1>a, <1>11, TasksStay
<1> QED
  BY <1>1, <1>2, <1>3, <1>4, <1>5, <1>6, <1>7, <1>8, <1>9, <1>10, <1>11
     DEF Next, TickStep, EvaluationStep, Request, HandlerStep, vars, store, memory,
         requests

\* The order of the last runs names stored tasks, each once.
LEMMA OrderStep ==
  ASSUME TypeOK, [Next]_vars
  PROVE  OrderOK'
<1>0. TasksOK /\ OrderOK
  BY TypeParts
<1>a. Stored' = Stored /\ order' = order => OrderOK'
  BY <1>0 DEF OrderOK
<1>b. \A t : /\ Without(t) \in Seq(Stored)
             /\ \A i, j \in DOMAIN Without(t) : Without(t)[i] = Without(t)[j] => i = j
             /\ \A i \in DOMAIN Without(t) : Without(t)[i] # t
  BY <1>0, WithoutProperties DEF OrderOK
<1>1. CASE UNCHANGED <<tasks, order>>
  BY <1>a, <1>1 DEF Stored
<1>2. ASSUME NEW r \in RunIds,
             Evaluate(r) \/ FinishRun(r) \/ CancelRun(r) \/
             StopContainers(r) \/ DropGuard(r)
      PROVE  UNCHANGED <<tasks, order>>
  BY <1>2 DEF Evaluate, FinishRun, CancelRun, StopContainers, DropGuard, Records,
     store, memory, requests
<1>3. ASSUME NEW t \in TaskIds,
             AskTrigger(t) \/ AskCancel(t) \/ FireCancel(t)
      PROVE  UNCHANGED <<tasks, order>>
  BY <1>3 DEF AskTrigger, AskCancel, FireCancel, store, memory, requests
<1>4. ASSUME TickSelects \/ StartFails \/ PrepareFails \/ Dispatch \/
             Shutdown \/ Drained \/ Crash \/ CrashInStart \/ Boot
      PROVE  UNCHANGED <<tasks, order>>
  BY <1>4 DEF TickSelects, StartFails, PrepareFails, Dispatch, Shutdown, Drained, Crash,
     CrashInStart, Boot, Forgets, DiesInStart, store, memory, requests
<1>5. CASE OpenRun
  <2>1. SameTasks
    BY <1>0, <1>5, TasksStay
  <2>2. CASE UNCHANGED order
    BY <1>a, <2>1, <2>2 DEF SameTasks
  <2>3. CASE ~ UNCHANGED order
    <3> DEFINE t == Head(tick.todo).task
    <3>1. t \in Stored /\ order' = Append(Without(t), t)
      BY <1>5, <2>3 DEF OpenRun, RanLast
    <3> HIDE DEF t
    <3>2. Append(Without(t), t) \in Seq(Stored)
      BY <1>b, <3>1, AppendProperties
    <3>3. \A i, j \in DOMAIN Append(Without(t), t) :
            Append(Without(t), t)[i] = Append(Without(t), t)[j] => i = j
      BY <1>b, <3>1
    <3> QED
      BY <2>1, <3>1, <3>2, <3>3 DEF SameTasks, OrderOK
  <2> QED
    BY <2>2, <2>3
<1>6. ASSUME NEW r \in RunIds, Settle(r)
      PROVE  OrderOK'
  BY <1>0, <1>a, <1>6, TasksStay DEF Settle, SameTasks
<1>7. ASSUME NEW name \in Names, Create(name)
      PROVE  OrderOK'
  <2>1. PICK t \in Unused : tasks' = [tasks EXCEPT ![t] = NewTask(name)]
    BY <1>7 DEF Create
  <2>2. Stored' = Stored \cup {t}
    BY <1>0, <1>7, <2>1, TaskCreated DEF Create, Unused
  <2>3. order' = order
    BY <1>7 DEF Create
  <2>4. order \in Seq(Stored \cup {t})
    BY <1>0, SeqOfFewer DEF OrderOK
  <2> QED
    BY <1>0, <2>2, <2>3, <2>4 DEF OrderOK
<1>8. ASSUME NEW t \in TaskIds, SetStatus(t)
      PROVE  OrderOK'
  BY <1>0, <1>a, <1>8, TasksStay DEF SetStatus, SameTasks
<1>9. ASSUME NEW t \in TaskIds, Delete(t)
      PROVE  OrderOK'
  <2>1. Stored' = Stored \ {t} /\ order' = Without(t)
    BY <1>0, <1>9, TaskDeleted DEF Delete
  <2>2. \A i \in DOMAIN Without(t) : Without(t)[i] \in Stored \ {t}
    BY <1>b
  <2>3. Without(t) \in Seq(Stored \ {t})
    BY <1>b, <2>2, SeqOfFewer
  <2> QED
    BY <1>b, <2>1, <2>3 DEF OrderOK
<1>10. ASSUME NEW name \in Names, RequestTrigger(name)
      PROVE  OrderOK'
  BY <1>0, <1>a, <1>10, TasksStay DEF RequestTrigger, SameTasks
<1>11. ASSUME NEW t \in TaskIds, TimePasses(t)
      PROVE  OrderOK'
  BY <1>0, <1>a, <1>11, TasksStay DEF TimePasses, Rests, BackoffPasses, SameTasks
<1> QED
  BY <1>1, <1>2, <1>3, <1>4, <1>5, <1>6, <1>7, <1>8, <1>9, <1>10, <1>11
     DEF Next, TickStep, EvaluationStep, Request, HandlerStep, vars, store, memory,
         requests

\* The rows of the runs are rows.
LEMMA RunsStep ==
  ASSUME TypeOK, OutcomeKnown, TickOK, [Next]_vars
  PROVE  RunsOK'
<1>0. RunsOK /\ TickType /\ plan \in Bounds
  BY TypeParts
<1>a. ASSUME NEW t \in TaskIds, NEW r \in RunIds
      PROVE  Inserted(t, r) \in [RunIds -> {NoRun} \cup RunRow]
  BY <1>0, RowIsARow DEF RunsOK, Inserted
<1>b. tick.todo # <<>> => Head(tick.todo).task \in TaskIds
  <2>1. tick.todo # <<>> => Head(tick.todo) \in Snapshots
    BY <1>0 DEF TickType
  <2> QED
    BY <2>1 DEF Snapshots
<1>c. ASSUME NEW r \in RunIds, EvaluationStep(r), lost' \subseteq lost \cup {r}
      PROVE  RunsOK'
  BY <1>0, <1>c, EvaluationRows DEF RunsOK
<1> USE DEF RunsOK
<1>1. CASE UNCHANGED <<runs, lost>>
  BY <1>0, <1>1
<1>2. ASSUME NEW r \in RunIds,
             Evaluate(r) \/ Settle(r)
      PROVE  UNCHANGED <<runs, lost>>
  BY <1>2 DEF Evaluate, Settle, store, memory, requests
<1>3. ASSUME NEW t \in TaskIds,
             SetStatus(t) \/ AskTrigger(t) \/ AskCancel(t) \/ FireCancel(t) \/
             TimePasses(t)
      PROVE  UNCHANGED <<runs, lost>>
  BY <1>3 DEF SetStatus, AskTrigger, AskCancel, FireCancel, TimePasses, Rests,
     BackoffPasses, store, memory, requests
<1>4. ASSUME NEW name \in Names,
             Create(name) \/ RequestTrigger(name)
      PROVE  UNCHANGED <<runs, lost>>
  BY <1>4 DEF Create, RequestTrigger, store, memory, requests
<1>5. ASSUME TickSelects \/ Dispatch \/ Shutdown \/ Drained
      PROVE  UNCHANGED <<runs, lost>>
  BY <1>5 DEF TickSelects, Dispatch, Shutdown, Drained, store, memory, requests
<1>6. CASE OpenRun
  <2>1. CASE UNCHANGED runs
    BY <1>0, <1>6, <2>1 DEF OpenRun
  <2>2. CASE ~ UNCHANGED runs
    BY <1>0, <1>a, <1>b, <1>6, <2>2, FreeRunIsFree DEF OpenRun
  <2> QED
    BY <2>1, <2>2
<1>7. CASE PrepareFails
  BY <1>0, <1>7 DEF PrepareFails
<1>8. ASSUME NEW r \in RunIds, FinishRun(r)
      PROVE  RunsOK'
  BY <1>0, <1>c, <1>8 DEF EvaluationStep, FinishRun, Records
<1>9. ASSUME NEW r \in RunIds, CancelRun(r)
      PROVE  RunsOK'
  BY <1>0, <1>c, <1>9 DEF EvaluationStep, CancelRun, Records
<1>10. ASSUME NEW r \in RunIds, StopContainers(r)
      PROVE  RunsOK'
  BY <1>0, <1>c, <1>10 DEF EvaluationStep, StopContainers
<1>11. ASSUME NEW r \in RunIds, DropGuard(r)
      PROVE  RunsOK'
  BY <1>0, <1>c, <1>11 DEF EvaluationStep, DropGuard
<1>12. ASSUME NEW t \in TaskIds, Delete(t)
      PROVE  RunsOK'
  BY <1>0, <1>12 DEF Delete
<1>13. CASE Crash
  BY <1>0, <1>13 DEF Crash
<1>14. CASE CrashInStart
  BY <1>0, <1>a, <1>b, <1>14, FreeRunIsFree DEF CrashInStart, DiesInStart
<1>15. CASE Boot
  BY <1>0, <1>15 DEF Boot, Reconciled
<1>16. CASE StartFails
  BY <1>0, <1>a, <1>b, <1>16, FreeRunIsFree DEF StartFails
<1> QED
  BY <1>1, <1>2, <1>3, <1>4, <1>5, <1>6, <1>7, <1>8, <1>9, <1>10, <1>11,
     <1>12, <1>13, <1>14, <1>15, <1>16
     DEF Next, TickStep, EvaluationStep, Request, HandlerStep, vars, store, memory,
         requests

\* The head of the list is its first element, and the tick has it from a task.
LEMMA HeadOfTodo ==
  ASSUME TickType, tick.todo # <<>>
  PROVE  /\ tick.todo \in Seq(Snapshots) /\ Len(tick.todo) \in Nat \ {0}
         /\ Head(tick.todo) = tick.todo[1] /\ 1 \in DOMAIN tick.todo
         /\ DOMAIN tick.todo = 1..Len(tick.todo)
         /\ Head(tick.todo) \in Snapshots /\ tick.todo[1].task \in TaskIds
         /\ \A i \in DOMAIN tick.todo : tick.todo[i].task \in TaskIds
<1>1. tick.todo \in Seq(Snapshots)
  BY DEF TickType
<1>2. /\ Head(tick.todo) = tick.todo[1] /\ 1 \in DOMAIN tick.todo
      /\ Len(tick.todo) \in Nat \ {0} /\ DOMAIN tick.todo = 1..Len(tick.todo)
  BY <1>1
<1>3. \A i \in DOMAIN tick.todo : tick.todo[i] \in Snapshots
  BY <1>1
<1> QED
  BY <1>1, <1>2, <1>3 DEF Snapshots

\* The evaluation a tick dispatches
LEMMA DispatchStarts ==
  ASSUME IInv, Dispatch
  PROVE  /\ tick.opened \in RunIds /\ tick.opened \notin Live /\ tick.opened # NoRun
         /\ tick.todo # <<>>
         /\ Live' = Live \cup {tick.opened}
         /\ \A r \in Live : evals'[r] = evals[r]
         /\ evals' = [evals EXCEPT ![tick.opened] = evals'[tick.opened]]
         /\ evals'[tick.opened] \in Evaluation
         /\ evals'[tick.opened].task = tick.todo[1].task
         /\ evals'[tick.opened].pc = "prepare" /\ evals'[tick.opened].attempt = 0
         /\ tick.todo[1].task \in TaskIds
<1>0. EvalsOK /\ TickType /\ TickOK
  BY TypeParts DEF IInv
<1> DEFINE o == tick.opened
           new == Spawned(Head(tick.todo))
<1>1. o \in RunIds /\ o \notin Live /\ o # NoRun /\ tick.todo # <<>>
  BY <1>0 DEF Dispatch, TickOK, TickType
<1>2. /\ Head(tick.todo) \in Snapshots /\ Head(tick.todo) = tick.todo[1]
      /\ tick.todo[1].task \in TaskIds
  BY <1>0, <1>1, HeadOfTodo
<1>3. /\ new \in Evaluation /\ new.task = tick.todo[1].task
      /\ new.pc = "prepare" /\ new.attempt = 0
  BY <1>2 DEF Spawned, Snapshots, Evaluation
<1>4. evals' = [evals EXCEPT ![o] = new] /\ new # NoEval
  BY <1>3, IdAssumption DEF Dispatch
<1> HIDE DEF new
<1> QED
  BY <1>0, <1>1, <1>2, <1>3, <1>4 DEF Live, EvalsOK

\* What a step does to the evaluations that live: none comes or goes, or the one
\* that was opened starts, or one that is over ends, or the daemon dies.
EvalChange ==
  \/ GoesOn /\ UNCHANGED <<inFlight, handles>>
  \/ Dispatch
  \/ \E r \in Live : DropGuard(r) /\ Live' = Live \ {r}
  \/ Live' = {} /\ Forgets

\* These are all there are.
LEMMA EvalChanges ==
  ASSUME IInv, [Next]_vars
  PROVE  EvalChange
<1>0. /\ EvalsOK /\ TickType /\ plan \in Bounds
      /\ TypeOK /\ OutcomeKnown /\ CancelReachesRun /\ TickOK
  BY TypeParts DEF IInv
<1>a. plan' \in Bounds /\ plan'.repairs = plan.repairs
  BY <1>0, PlanStep
<1>b. GoesOn /\ UNCHANGED <<inFlight, handles>> => EvalChange
  BY DEF EvalChange
<1>c. Forgets => EvalChange
  BY DEF EvalChange, Forgets, Live
<1>1. CASE UNCHANGED <<evals, inFlight, handles>>
  <2>1. GoesOn
    BY <1>0, <1>1, <1>a DEF GoesOn, EvalsOK, Live, OutcomeKnown
  <2> QED
    BY <1>1, <1>b, <2>1
<1>2. ASSUME NEW t \in TaskIds,
             SetStatus(t) \/ AskTrigger(t) \/ AskCancel(t) \/ Delete(t) \/
             TimePasses(t)
      PROVE  UNCHANGED <<evals, inFlight, handles>>
  BY <1>2 DEF SetStatus, AskTrigger, AskCancel, Delete, TimePasses, Rests,
     BackoffPasses, store, memory, requests
<1>3. ASSUME NEW name \in Names,
             Create(name) \/ RequestTrigger(name)
      PROVE  UNCHANGED <<evals, inFlight, handles>>
  BY <1>3 DEF Create, RequestTrigger, store, memory, requests
<1>4. ASSUME TickSelects \/ OpenRun \/ StartFails \/ PrepareFails \/
             Shutdown \/ Drained \/ Boot
      PROVE  UNCHANGED <<evals, inFlight, handles>>
  BY <1>4 DEF TickSelects, OpenRun, StartFails, PrepareFails, Shutdown, Drained,
     Boot, store, memory, requests
<1>5. CASE Dispatch
  BY <1>5 DEF EvalChange
<1>6. ASSUME NEW r \in RunIds, Evaluate(r)
      PROVE  EvalChange
  BY <1>0, <1>b, <1>6, EvaluationGoesOn DEF Evaluate
<1>7. ASSUME NEW r \in RunIds, FinishRun(r)
      PROVE  EvalChange
  BY <1>0, <1>b, <1>7, EvaluationGoesOn DEF FinishRun
<1>8. ASSUME NEW r \in RunIds, Settle(r)
      PROVE  EvalChange
  BY <1>0, <1>b, <1>8, EvaluationGoesOn DEF Settle
<1>9. ASSUME NEW r \in RunIds, CancelRun(r)
      PROVE  EvalChange
  BY <1>0, <1>b, <1>9, EvaluationGoesOn DEF CancelRun
<1>10. ASSUME NEW r \in RunIds, StopContainers(r)
      PROVE  EvalChange
  BY <1>0, <1>b, <1>10, EvaluationGoesOn DEF StopContainers
<1>11. ASSUME NEW r \in RunIds, DropGuard(r)
      PROVE  EvalChange
  <2>1. r \in Live /\ evals' = [evals EXCEPT ![r] = NoEval]
    BY <1>11 DEF DropGuard
  <2>2. Live' = Live \ {r}
    BY <1>0, <2>1 DEF Live, EvalsOK
  <2> QED
    BY <1>11, <2>1, <2>2 DEF EvalChange
<1>12. ASSUME NEW t \in TaskIds, FireCancel(t)
      PROVE  EvalChange
  BY <1>0, <1>b, <1>12, CancelGoesOn DEF FireCancel
<1>13. CASE Crash
  BY <1>c, <1>13 DEF Crash
<1>14. CASE CrashInStart
  BY <1>c, <1>14 DEF CrashInStart
<1> QED
  BY <1>1, <1>2, <1>3, <1>4, <1>5, <1>6, <1>7, <1>8, <1>9, <1>10, <1>11,
     <1>12, <1>13, <1>14
     DEF Next, TickStep, EvaluationStep, Request, HandlerStep, vars, store, memory,
         requests

\* The counter of the scheduler is the number of evaluations that live.
LEMMA EvalsStep ==
  ASSUME IInv, [Next]_vars
  PROVE  EvalsOK' /\ OutcomeKnown'
<1>0. /\ EvalsOK /\ TickType /\ plan \in Bounds
      /\ TypeOK /\ OutcomeKnown /\ TickOK
  BY TypeParts DEF IInv
<1>a. plan' \in Bounds /\ plan'.repairs = plan.repairs /\ plan.repairs \in Nat
  BY <1>0, PlanStep DEF Bounds
<1>b. IsFiniteSet(Live) /\ inFlight = Cardinality(Live)
  BY <1>0 DEF EvalsOK
<1>1. CASE GoesOn /\ UNCHANGED <<inFlight, handles>>
  BY <1>b, <1>1 DEF GoesOn, EvalsOK, OutcomeKnown
<1>2. CASE Dispatch
  <2>1. inFlight' = inFlight + 1
    BY <1>2 DEF Dispatch
  <2>2. IsFiniteSet(Live') /\ inFlight' = Cardinality(Live')
    BY <1>b, <1>2, <2>1, DispatchStarts, FS_AddElement
  <2>3. evals' \in [RunIds -> {NoEval} \cup Evaluation]
    BY <1>0, <1>2, DispatchStarts DEF EvalsOK
  <2>4. \A r \in Live' : /\ evals'[r].attempt <= plan'.repairs
                         /\ evals'[r].pc = "decided" => evals'[r].outcome # "none"
    BY <1>0, <1>2, <1>a, DispatchStarts DEF EvalsOK, OutcomeKnown
  <2> QED
    BY <2>2, <2>3, <2>4 DEF EvalsOK, OutcomeKnown
<1>3. ASSUME NEW r \in Live, DropGuard(r), Live' = Live \ {r}
      PROVE  EvalsOK' /\ OutcomeKnown'
  <2>1. evals' = [evals EXCEPT ![r] = NoEval] /\ inFlight' = inFlight - 1
    BY <1>3 DEF DropGuard
  <2>2. IsFiniteSet(Live') /\ inFlight' = Cardinality(Live')
    BY <1>b, <1>3, <2>1, FS_RemoveElement
  <2>3. evals' \in [RunIds -> {NoEval} \cup Evaluation]
    BY <1>0, <2>1 DEF EvalsOK
  <2>4. \A q \in Live' : evals'[q] = evals[q]
    BY <1>0, <1>3, <2>1 DEF EvalsOK, Live
  <2> QED
    BY <1>0, <1>3, <1>a, <2>2, <2>3, <2>4 DEF EvalsOK, OutcomeKnown
<1>4. CASE Live' = {} /\ Forgets
  BY <1>4, FS_EmptySet DEF Forgets, EvalsOK, OutcomeKnown
<1> QED
  BY <1>1, <1>2, <1>3, <1>4, EvalChanges DEF EvalChange

\* What a tick takes: different due tasks, as many as the cap leaves.
LEMMA SelectionFits ==
  ASSUME EvalsOK, plan \in Bounds, NEW cap \in plan.caps, NEW due \in Selections
  PROVE  LET free == Capacity(AtLeastOne(cap))
             taken == IF free < Len(due) THEN free ELSE Len(due)
         IN  /\ AtLeastOne(cap) \in Nat /\ inFlight \in Nat
             /\ taken \in Nat /\ taken <= Len(due)
             /\ taken > 0 => inFlight + taken <= AtLeastOne(cap)
             /\ \A i \in 1..taken : due[i] \in Due
             /\ \A i, j \in 1..taken : due[i] = due[j] => i = j
<1>1. IsFiniteSet(Due)
  BY IdAssumption, FS_Subset DEF Due
<1>2. Cardinality(Due) \in Nat /\ inFlight \in Nat
  BY <1>1, FS_CardinalityType DEF EvalsOK
<1>3. /\ due \in [1..Cardinality(Due) -> Due]
      /\ \A i, j \in DOMAIN due : i # j => due[i] # due[j]
  BY DEF Selections
<1>4. Len(due) = Cardinality(Due)
  BY <1>2, <1>3
<1>5. AtLeastOne(cap) \in Nat
  BY DEF AtLeastOne, Bounds
<1> QED
  BY <1>2, <1>3, <1>4, <1>5 DEF Capacity

\* The tick holds snapshots of tasks and a run.
LEMMA TickTypeStep ==
  ASSUME IInv, [Next]_vars
  PROVE  TickType'
<1>0. TasksOK /\ TickType /\ plan \in Bounds /\ EvalsOK /\ TickOK
  BY TypeParts DEF IInv
<1>a. Idle \in [todo : Seq(Snapshots), opened : RunIds \cup {NoRun}, cap : Nat]
  BY DEF Idle
<1>b. /\ tick.todo \in Seq(Snapshots) /\ tick.opened \in RunIds \cup {NoRun}
      /\ tick.cap \in Nat
  BY <1>0 DEF TickType
<1>c. tick.todo # <<>> => Tail(tick.todo) \in Seq(Snapshots)
  BY <1>b
<1>d. tick.todo # <<>> =>
        NextTodo \in [todo : Seq(Snapshots), opened : RunIds \cup {NoRun}, cap : Nat]
  BY <1>0, <1>a, <1>c DEF TickType, NextTodo
<1> USE DEF TickType
<1>1. CASE UNCHANGED tick
  BY <1>0, <1>1
<1>2. ASSUME NEW r \in RunIds,
             Evaluate(r) \/ FinishRun(r) \/ Settle(r) \/ CancelRun(r) \/
             StopContainers(r) \/ DropGuard(r)
      PROVE  UNCHANGED tick
  BY <1>2 DEF Evaluate, FinishRun, Settle, CancelRun, StopContainers, DropGuard,
     Records, store, memory, requests
<1>3. ASSUME NEW t \in TaskIds,
             SetStatus(t) \/ AskTrigger(t) \/ AskCancel(t) \/ Delete(t) \/
             FireCancel(t) \/ TimePasses(t)
      PROVE  UNCHANGED tick
  BY <1>3 DEF SetStatus, AskTrigger, AskCancel, Delete, FireCancel, TimePasses, Rests,
     BackoffPasses, store, memory, requests
<1>4. ASSUME NEW name \in Names,
             Create(name) \/ RequestTrigger(name)
      PROVE  UNCHANGED tick
  BY <1>4 DEF Create, RequestTrigger, store, memory, requests
<1>5. ASSUME Shutdown \/ Drained \/ Boot
      PROVE  UNCHANGED tick
  BY <1>5 DEF Shutdown, Drained, Boot, store, memory, requests
<1>6. CASE TickSelects
  <2>1. PICK cap \in plan.caps, due \in Selections :
          LET free == Capacity(AtLeastOne(cap))
              taken == IF free < Len(due) THEN free ELSE Len(due)
          IN  /\ taken > 0
              /\ tick' = [todo |-> [i \in 1..taken |-> Snapshot(due[i])],
                          opened |-> NoRun, cap |-> AtLeastOne(cap)]
    BY <1>6 DEF TickSelects
  <2> DEFINE taken == IF Capacity(AtLeastOne(cap)) < Len(due)
                      THEN Capacity(AtLeastOne(cap)) ELSE Len(due)
  <2>2. /\ tick' = [todo |-> [i \in 1..taken |-> Snapshot(due[i])],
                    opened |-> NoRun, cap |-> AtLeastOne(cap)]
        /\ AtLeastOne(cap) \in Nat /\ taken \in Nat
        /\ \A i \in 1..taken : due[i] \in Due
    BY <1>0, <2>1, SelectionFits
  <2>3. \A i \in 1..taken : Snapshot(due[i]) \in Snapshots
    BY <1>0, <2>2 DEF Snapshot, Snapshots, Due, Wants, TasksOK, TaskRow
  <2>4. [i \in 1..taken |-> Snapshot(due[i])] \in Seq(Snapshots)
    BY <2>2, <2>3
  <2> QED
    BY <2>2, <2>4
<1>7. CASE OpenRun
  <2>1. CASE tick' = [tick EXCEPT !.opened = FreeRun] /\ FreeRuns # {}
    BY <1>0, <2>1, FreeRunIsFree
  <2>2. CASE tick' = IF Len(tick.todo) = 1 THEN Idle ELSE [tick EXCEPT !.todo = Tail(@)]
    BY <1>0, <1>a, <1>c, <1>7, <2>2 DEF OpenRun
  <2> QED
    BY <1>7, <2>1, <2>2 DEF OpenRun
<1>8. CASE PrepareFails
  BY <1>0, <1>d, <1>8 DEF PrepareFails, TickOK
<1>9. CASE Dispatch
  BY <1>0, <1>d, <1>9 DEF Dispatch, TickOK
<1>10. CASE Crash
  BY <1>a, <1>10 DEF Crash, Forgets
<1>11. CASE CrashInStart
  BY <1>a, <1>11 DEF CrashInStart, Forgets
<1>12. CASE StartFails
  BY <1>d, <1>12 DEF StartFails
<1> QED
  BY <1>1, <1>2, <1>3, <1>4, <1>5, <1>6, <1>7, <1>8, <1>9, <1>10, <1>11, <1>12
     DEF Next, TickStep, EvaluationStep, Request, HandlerStep, vars, store, memory,
         requests

\* The requests name tasks, and handles name runs.
LEMMA RequestsStep ==
  ASSUME TypeOK, TickOK, [Next]_vars
  PROVE  RequestsOK'
<1>0. TasksOK /\ RequestsOK /\ TickType
  BY TypeParts
<1> USE <1>0 DEF RequestsOK
<1>1. CASE UNCHANGED <<daemon, handles, triggers, cancels>>
  BY <1>1
<1>2. ASSUME NEW r \in RunIds,
             Evaluate(r) \/ FinishRun(r) \/ Settle(r) \/ CancelRun(r) \/
             StopContainers(r)
      PROVE  UNCHANGED <<daemon, handles, triggers, cancels>>
  BY <1>2 DEF Evaluate, FinishRun, Settle, CancelRun, StopContainers, Records, store,
     memory, requests
<1>3. ASSUME NEW t \in TaskIds,
             SetStatus(t) \/ Delete(t) \/ TimePasses(t)
      PROVE  UNCHANGED <<daemon, handles, triggers, cancels>>
  BY <1>3 DEF SetStatus, Delete, TimePasses, Rests, BackoffPasses, store, memory,
     requests
<1>4. ASSUME NEW name \in Names,
             Create(name)
      PROVE  UNCHANGED <<daemon, handles, triggers, cancels>>
  BY <1>4 DEF Create, store, memory, requests
<1>5. ASSUME TickSelects \/ OpenRun \/ StartFails \/ PrepareFails
      PROVE  UNCHANGED <<daemon, handles, triggers, cancels>>
  BY <1>5 DEF TickSelects, OpenRun, StartFails, PrepareFails, store, memory,
     requests
<1>6. CASE Dispatch
  BY <1>6 DEF Dispatch, TickType, requests
<1>7. ASSUME NEW r \in RunIds, DropGuard(r)
      PROVE  RequestsOK'
  BY <1>7 DEF DropGuard, Released, requests
<1>8. ASSUME NEW t \in TaskIds, AskTrigger(t)
      PROVE  RequestsOK'
  BY <1>8 DEF AskTrigger, TasksOK, Stored, TaskRow, store, memory
<1>9. ASSUME NEW t \in TaskIds, AskCancel(t)
      PROVE  RequestsOK'
  BY <1>9 DEF AskCancel, store, memory
<1>10. ASSUME NEW name \in Names, RequestTrigger(name)
      PROVE  RequestsOK'
  BY <1>10 DEF RequestTrigger, memory
<1>11. ASSUME NEW t \in TaskIds, FireCancel(t)
      PROVE  RequestsOK'
  BY <1>11 DEF FireCancel
<1>12. CASE Shutdown
  BY <1>12 DEF Shutdown, store, memory
<1>13. CASE Drained
  BY <1>13 DEF Drained, memory, requests
<1>14. CASE Crash
  BY <1>14 DEF Crash, Forgets
<1>15. CASE CrashInStart
  BY <1>15 DEF CrashInStart, Forgets
<1>16. CASE Boot
  BY <1>16 DEF Boot, memory, requests
<1> QED
  BY <1>1, <1>2, <1>3, <1>4, <1>5, <1>6, <1>7, <1>8, <1>9, <1>10, <1>11,
     <1>12, <1>13, <1>14, <1>15, <1>16
     DEF Next, TickStep, EvaluationStep, Request, HandlerStep, vars, store, memory,
         requests

\* The variables keep their types.
LEMMA TypeStep ==
  ASSUME IInv, [Next]_vars
  PROVE  TypeOK'
<1>1. TypeOK /\ OutcomeKnown /\ TickOK /\ plan \in Bounds
  BY TypeParts DEF IInv
<1>2. plan' \in Bounds
  BY <1>1, PlanStep
<1>3. TasksOK' /\ OrderOK' /\ RunsOK' /\ TickType' /\ EvalsOK' /\ RequestsOK'
  BY <1>1, TasksStep, OrderStep, RunsStep, TickTypeStep, EvalsStep, RequestsStep
<1> QED
  BY <1>2, <1>3
     DEF TypeOK, TasksOK, OrderOK, RunsOK, TickType, EvalsOK, RequestsOK

-----------------------------------------------------------------------------
(* What requests, cancels and crashes leave of runs and evaluations *)

RowsUnique ==
  \A r, q \in RunIds : Running(r) /\ Running(q) /\ runs[r].task = runs[q].task => r = q

\* The rows that run afterwards ran before, for the same task.
RowsEnd ==
  \A q \in RunIds : Running(q)' => Running(q) /\ runs'[q] = runs[q]

\* The tick inserts the row of a run of its next task.
Opens(t) ==
  /\ tick.todo # <<>> /\ tick.opened = NoRun /\ FreeRuns # {}
  /\ t = tick.todo[1].task /\ runs' = Inserted(t, FreeRun)

\* A row that runs is one that ran, but for the row the tick inserts.
LEMMA RowsEndOrOpen ==
  ASSUME IInv, [Next]_vars
  PROVE  RowsEnd \/ \E t \in TaskIds : Opens(t)
<1>0. /\ RunsOK /\ TickType /\ TypeOK /\ OutcomeKnown
  BY TypeParts DEF IInv
<1>a. ASSUME NEW r \in RunIds, EvaluationStep(r)
      PROVE  RowsEnd
  BY <1>0, <1>a, EvaluationRows DEF RowsEnd
<1>b. runs' = runs => RowsEnd
  BY DEF RowsEnd, Running
<1>1. CASE UNCHANGED runs
  BY <1>1, <1>b
<1>2. ASSUME NEW r \in RunIds,
             Evaluate(r) \/ Settle(r) \/ StopContainers(r)
      PROVE  UNCHANGED runs
  BY <1>2 DEF Evaluate, Settle, StopContainers, store, memory, requests
<1>3. ASSUME NEW t \in TaskIds,
             SetStatus(t) \/ AskTrigger(t) \/ AskCancel(t) \/ FireCancel(t) \/
             TimePasses(t)
      PROVE  UNCHANGED runs
  BY <1>3 DEF SetStatus, AskTrigger, AskCancel, FireCancel, TimePasses, Rests,
     BackoffPasses, store, memory, requests
<1>4. ASSUME NEW name \in Names,
             Create(name) \/ RequestTrigger(name)
      PROVE  UNCHANGED runs
  BY <1>4 DEF Create, RequestTrigger, store, memory, requests
<1>5. ASSUME TickSelects \/ Dispatch \/ Shutdown \/ Drained
      PROVE  UNCHANGED runs
  BY <1>5 DEF TickSelects, Dispatch, Shutdown, Drained, store, memory, requests
<1>6. ASSUME OpenRun
      PROVE  RowsEnd \/ \E t \in TaskIds : Opens(t)
  BY <1>0, <1>b, <1>6, HeadOfTodo DEF OpenRun, Opens
<1>7. CASE PrepareFails
  BY <1>0, <1>7 DEF PrepareFails, RowsEnd, Running, RunsOK
<1>8. ASSUME NEW r \in RunIds, FinishRun(r)
      PROVE  RowsEnd
  BY <1>a, <1>8 DEF EvaluationStep
<1>9. ASSUME NEW r \in RunIds, CancelRun(r)
      PROVE  RowsEnd
  BY <1>a, <1>9 DEF EvaluationStep
<1>10. ASSUME NEW r \in RunIds, DropGuard(r)
      PROVE  RowsEnd
  BY <1>a, <1>10 DEF EvaluationStep
<1>11. ASSUME NEW t \in TaskIds, Delete(t)
      PROVE  RowsEnd
  BY <1>0, <1>11 DEF Delete, RowsEnd, Running, RunsOK
<1>12. CASE Crash
  BY <1>0, <1>12 DEF Crash, RowsEnd, Running, RunsOK
<1>13. ASSUME CrashInStart
      PROVE  RowsEnd \/ \E t \in TaskIds : Opens(t)
  BY <1>0, <1>13, HeadOfTodo DEF CrashInStart, DiesInStart, Opens
<1>14. CASE Boot
  BY <1>0, <1>14 DEF Boot, Reconciled, RowsEnd, Running, RunsOK
<1>15. ASSUME StartFails
       PROVE  RowsEnd \/ \E t \in TaskIds : Opens(t)
  BY <1>0, <1>b, <1>15, HeadOfTodo DEF StartFails, Opens
<1> QED
  BY <1>1, <1>2, <1>3, <1>4, <1>5, <1>6, <1>7, <1>8, <1>9, <1>10, <1>11,
     <1>12, <1>13, <1>14, <1>15
     DEF Next, TickStep, EvaluationStep, Request, HandlerStep, vars, store, memory,
         requests

\* A task has one running row.
LEMMA RowsUniqueStep ==
  ASSUME IInv, [Next]_vars
  PROVE  RowsUnique'
<1>0. RunsOK /\ RowsUnique /\ TickOK /\ TickType
  BY TypeParts DEF IInv, OneEvaluation, RowsUnique
<1>1. CASE RowsEnd
  BY <1>0, <1>1 DEF RowsEnd, RowsUnique
<1>2. ASSUME NEW t \in TaskIds, Opens(t)
      PROVE  RowsUnique'
  <2>1. \A r \in RunIds : Running(r) => runs[r].task # t
    BY <1>0, <1>2, HeadOfTodo, IdAssumption DEF TickOK, Opens
  <2>2. /\ FreeRun \in RunIds /\ runs'[FreeRun] = Row(t, "running")
        /\ Row(t, "running").task = t
        /\ \A q \in RunIds \ {FreeRun} : runs'[q] = runs[q]
    BY <1>0, <1>2, FreeRunIsFree, RowIsARow DEF Opens, Inserted, RunsOK
  <2>3. \A r \in RunIds \ {FreeRun} : Running(r)' => Running(r) /\ runs'[r].task # t
    BY <2>1, <2>2 DEF Running
  <2> QED
    BY <1>0, <2>2, <2>3 DEF RowsUnique
<1> QED
  BY <1>1, <1>2, RowsEndOrOpen

\* A handle names the evaluation of its task.
LEMMA CancelReachesRunStep ==
  ASSUME IInv, [Next]_vars
  PROVE  CancelReachesRun'
<1>0. /\ RequestsOK /\ TickType /\ TickOK /\ CancelReachesRun /\ EvalsOK
  BY TypeParts DEF IInv
<1>1. CASE Dispatch
  <2> DEFINE o == tick.opened
             k == tick.todo[1].task
  <2>1. handles' = [handles EXCEPT ![k] = o] /\ k \in TaskIds
    BY <1>0, <1>1, DispatchStarts, HeadOfTodo DEF Dispatch
  <2>2. \A r \in Live : Undecided(evals[r]) => evals[r].task # k
    BY <1>0, <1>1, DispatchStarts, HeadOfTodo DEF TickOK, Live
  <2>3. \A r \in Live : evals[r].task \in TaskIds
    BY <1>0 DEF EvalsOK, Live, Evaluation
  <2>4. o \notin Live /\ o # NoRun /\ Live' = Live \cup {o} /\ evals'[o].task = k
        /\ \A r \in Live : evals'[r] = evals[r]
    BY <1>1, DispatchStarts
  <2> HIDE DEF o, k
  <2> QED
    BY <1>0, <2>1, <2>2, <2>3, <2>4 DEF CancelReachesRun, RequestsOK
<1>2. ASSUME NEW r \in Live, DropGuard(r), Live' = Live \ {r}
      PROVE  CancelReachesRun'
  <2>1. /\ handles' = Released(r) /\ r # NoRun
        /\ \A q \in Live' : evals'[q] = evals[q]
    BY <1>0, <1>2, IdAssumption DEF DropGuard, EvalsOK, Live
  <2>2. \A t \in TaskIds : handles'[t] = IF handles[t] = r THEN NoRun ELSE handles[t]
    BY <1>0, <2>1 DEF Released, RequestsOK, CancelReachesRun, EvalsOK, Live, Evaluation
  <2>3. \A q \in Live' : evals[q].task \in TaskIds
    BY <1>0, <1>2 DEF EvalsOK, Live, Evaluation
  <2> QED
    BY <1>0, <1>2, <2>1, <2>2, <2>3 DEF CancelReachesRun
<1>3. CASE GoesOn /\ UNCHANGED <<inFlight, handles>>
  BY <1>0, <1>3 DEF GoesOn, CancelReachesRun
<1>4. CASE Live' = {} /\ Forgets
  BY <1>4 DEF Forgets, CancelReachesRun
<1> QED
  BY <1>1, <1>2, <1>3, <1>4, EvalChanges DEF EvalChange

\* An undecided evaluation keeps its row, unless its task is deleted.
LEMMA RowsKeptStep ==
  ASSUME IInv, [Next]_vars
  PROVE  RowsKept'
<1>0. /\ TypeOK /\ TasksOK /\ RunsOK /\ TickType /\ EvalsOK /\ RequestsOK
      /\ OutcomeKnown /\ RowsKept /\ TickOK /\ DownOK /\ CancelReachesRun /\ IInv
  BY TypeParts DEF IInv
<1>a. ASSUME GoesOn, Stored' = Stored,
             \A q \in Live : Undecided(evals'[q]) => runs'[q] = runs[q]
      PROVE  RowsKept'
  BY <1>0, <1>a DEF GoesOn, RowsKept
<1>b. ASSUME UNCHANGED evals, Stored' = Stored, \A q \in Live : runs'[q] = runs[q]
      PROVE  RowsKept'
  BY <1>0, <1>b DEF RowsKept, Live
<1>1. CASE UNCHANGED <<runs, tasks, evals>>
  BY <1>1, <1>b DEF Stored
<1>2. ASSUME NEW t \in TaskIds,
             AskTrigger(t) \/ AskCancel(t)
      PROVE  UNCHANGED <<runs, tasks, evals>>
  BY <1>2 DEF AskTrigger, AskCancel, store, memory, requests
<1>3. ASSUME TickSelects \/ Shutdown \/ Drained
      PROVE  UNCHANGED <<runs, tasks, evals>>
  BY <1>3 DEF TickSelects, Shutdown, Drained, store, memory, requests
<1>4. CASE OpenRun
  <2>1. Stored' = Stored
    BY <1>0, <1>4, TasksStay DEF SameTasks
  <2>2. \A q \in Live : runs'[q] = runs[q]
    BY <1>0, <1>4, FreeRunIsFree DEF OpenRun, Inserted, RunsOK, Live
  <2> QED
    BY <1>b, <1>4, <2>1, <2>2 DEF OpenRun
<1>5. CASE PrepareFails
  <2>1. \A q \in Live : runs'[q] = runs[q]
    BY <1>0, <1>5 DEF PrepareFails, TickOK, RunsOK, Live
  <2> QED
    BY <1>b, <1>5, <2>1 DEF PrepareFails, Stored
<1>6. CASE Dispatch
  <2>1. UNCHANGED <<tasks, runs>>
    BY <1>6 DEF Dispatch, store
  <2> QED
    BY <1>0, <1>6, <2>1, DispatchStarts DEF RowsKept, TickOK, Stored
<1>7. ASSUME NEW r \in RunIds, Evaluate(r)
      PROVE  RowsKept'
  <2>1. GoesOn
    BY <1>0, <1>7, EvaluationGoesOn
  <2>2. \A q \in Live : Undecided(evals'[q]) => runs'[q] = runs[q]
    BY <1>0, <1>7, <2>1, EvaluationRows, IdAssumption DEF GoesOn, EvaluationStep, Live
  <2>3. Stored' = Stored
    BY <1>0, <1>7, TasksStay DEF SameTasks, Evaluate, store
  <2> QED
    BY <1>a, <2>1, <2>2, <2>3
<1>8. ASSUME NEW r \in RunIds, FinishRun(r)
      PROVE  RowsKept'
  <2>1. GoesOn
    BY <1>0, <1>8, EvaluationGoesOn
  <2>2. \A q \in Live : Undecided(evals'[q]) => runs'[q] = runs[q]
    BY <1>0, <1>8, <2>1, EvaluationRows, IdAssumption DEF GoesOn, EvaluationStep, Live
  <2>3. Stored' = Stored
    BY <1>0, <1>8, TasksStay DEF SameTasks, FinishRun, Records, store
  <2> QED
    BY <1>a, <2>1, <2>2, <2>3
<1>9. ASSUME NEW r \in RunIds, Settle(r)
      PROVE  RowsKept'
  <2>1. GoesOn
    BY <1>0, <1>9, EvaluationGoesOn
  <2>2. \A q \in Live : Undecided(evals'[q]) => runs'[q] = runs[q]
    BY <1>0, <1>9, <2>1, EvaluationRows, IdAssumption DEF GoesOn, EvaluationStep, Live
  <2>3. Stored' = Stored
    BY <1>0, <1>9, TasksStay DEF SameTasks, Settle, store
  <2> QED
    BY <1>a, <2>1, <2>2, <2>3
<1>10. ASSUME NEW r \in RunIds, CancelRun(r)
      PROVE  RowsKept'
  <2>1. GoesOn
    BY <1>0, <1>10, EvaluationGoesOn
  <2>2. \A q \in Live : Undecided(evals'[q]) => runs'[q] = runs[q]
    BY <1>0, <1>10, <2>1, EvaluationRows, IdAssumption DEF GoesOn, EvaluationStep, Live
  <2>3. Stored' = Stored
    BY <1>0, <1>10, TasksStay DEF SameTasks, CancelRun, Records, store
  <2> QED
    BY <1>a, <2>1, <2>2, <2>3
<1>11. ASSUME NEW r \in RunIds, StopContainers(r)
      PROVE  RowsKept'
  <2>1. GoesOn
    BY <1>0, <1>11, EvaluationGoesOn
  <2>2. \A q \in Live : Undecided(evals'[q]) => runs'[q] = runs[q]
    BY <1>0, <1>11, <2>1, EvaluationRows, IdAssumption DEF GoesOn, EvaluationStep, Live
  <2>3. Stored' = Stored
    BY <1>0, <1>11, TasksStay DEF SameTasks, StopContainers, store
  <2> QED
    BY <1>a, <2>1, <2>2, <2>3
<1>12. ASSUME NEW r \in RunIds, DropGuard(r)
      PROVE  RowsKept'
  <2>1. r \in Live /\ UNCHANGED tasks
    BY <1>12 DEF DropGuard
  <2>2. \A q \in Live' : q \in Live /\ q # r /\ evals'[q] = evals[q]
    BY <1>0, <1>12, <2>1 DEF DropGuard, EvalsOK, Live
  <2>3. \A q \in RunIds : q # r => runs'[q] = runs[q]
    BY <1>0, <1>12, EvaluationRows DEF EvaluationStep
  <2> QED
    BY <1>0, <2>1, <2>2, <2>3 DEF RowsKept, Stored, Live
<1>13. ASSUME NEW name \in Names, Create(name)
      PROVE  RowsKept'
  <2>1. PICK t \in Unused : tasks' = [tasks EXCEPT ![t] = NewTask(name)]
    BY <1>13 DEF Create
  <2>2. Stored' = Stored \cup {t} /\ \A r \in Live : evals[r].task # t
    BY <1>0, <1>13, <2>1, TaskCreated DEF Create, Unused
  <2>3. UNCHANGED <<runs, evals>>
    BY <1>13 DEF Create, memory
  <2> QED
    BY <1>0, <2>2, <2>3 DEF RowsKept, Live
<1>14. ASSUME NEW t \in TaskIds, SetStatus(t)
      PROVE  RowsKept'
  <2>1. Stored' = Stored
    BY <1>0, <1>14, TasksStay DEF SameTasks
  <2> QED
    BY <1>b, <1>14, <2>1 DEF SetStatus, memory
<1>15. ASSUME NEW t \in TaskIds, Delete(t)
      PROVE  RowsKept'
  <2>1. Stored' = Stored \ {t} /\ UNCHANGED evals /\ t \in TaskIds
    BY <1>0, <1>15, TaskDeleted DEF Delete, memory
  <2>2. \A q \in RunIds :
          runs'[q] = IF runs[q] # NoRun /\ runs[q].task = t THEN NoRun ELSE runs[q]
    BY <1>15 DEF Delete
  <2>3. \A q \in Live : /\ Row(evals[q].task, "running") # NoRun
                        /\ Row(evals[q].task, "running").task = evals[q].task
    BY <1>0, RowIsARow DEF EvalsOK, Live, Evaluation
  <2> QED
    BY <1>0, <2>1, <2>2, <2>3 DEF RowsKept, Live
<1>16. ASSUME NEW name \in Names, RequestTrigger(name)
      PROVE  RowsKept'
  <2>1. Stored' = Stored
    BY <1>0, <1>16, TasksStay DEF SameTasks
  <2> QED
    BY <1>b, <1>16, <2>1 DEF RequestTrigger, memory
<1>17. ASSUME NEW t \in TaskIds, FireCancel(t)
      PROVE  RowsKept'
  <2>1. GoesOn
    BY <1>0, <1>17, CancelGoesOn
  <2> QED
    BY <1>a, <1>17, <2>1 DEF FireCancel, store, Stored
<1>18. ASSUME NEW t \in TaskIds, TimePasses(t)
      PROVE  RowsKept'
  <2>1. Stored' = Stored
    BY <1>0, <1>18, TasksStay DEF SameTasks
  <2> QED
    BY <1>b, <1>18, <2>1 DEF TimePasses, Rests, BackoffPasses, memory
<1>19. CASE Crash
  BY <1>19 DEF Crash, Forgets, RowsKept, Live
<1>20. CASE CrashInStart
  BY <1>20 DEF CrashInStart, Forgets, RowsKept, Live
<1>21. CASE Boot
  BY <1>0, <1>21 DEF Boot, DownOK, RowsKept, memory, Live
<1>22. CASE StartFails
  <2>1. \A q \in Live : runs'[q] = runs[q]
    BY <1>0, <1>22, FreeRunIsFree DEF StartFails, Inserted, RunsOK, Live
  <2> QED
    BY <1>b, <1>22, <2>1 DEF StartFails, Stored
<1> QED
  BY <1>1, <1>2, <1>3, <1>4, <1>5, <1>6, <1>7, <1>8, <1>9, <1>10, <1>11,
     <1>12, <1>13, <1>14, <1>15, <1>16, <1>17, <1>18, <1>19, <1>20, <1>21,
     <1>22
     DEF Next, TickStep, EvaluationStep, Request, HandlerStep, vars, store, memory,
         requests

\* A daemon that is down has forgotten its tick and its evaluations.
LEMMA DownStep ==
  ASSUME IInv, [Next]_vars
  PROVE  DownOK'
<1>0. /\ DownOK /\ EvalsOK /\ TickType /\ TickOK
      /\ TypeOK /\ OutcomeKnown /\ CancelReachesRun
  BY TypeParts DEF IInv
<1>a. ASSUME GoesOn, UNCHANGED <<daemon, tick>>
      PROVE  DownOK'
  BY <1>0, <1>a DEF GoesOn, DownOK
<1>b. tick.todo # <<>> \/ tick.opened # NoRun => daemon \notin {"stopped", "crashed"}
  BY <1>0 DEF DownOK, Idle
<1>1. CASE UNCHANGED <<daemon, tick, evals>>
  BY <1>0, <1>1 DEF DownOK, Live
<1>2. ASSUME NEW t \in TaskIds,
             SetStatus(t) \/ AskTrigger(t) \/ AskCancel(t) \/ Delete(t) \/
             TimePasses(t)
      PROVE  UNCHANGED <<daemon, tick, evals>>
  BY <1>2 DEF SetStatus, AskTrigger, AskCancel, Delete, TimePasses, Rests,
     BackoffPasses, store, memory, requests
<1>3. ASSUME NEW name \in Names,
             Create(name) \/ RequestTrigger(name)
      PROVE  UNCHANGED <<daemon, tick, evals>>
  BY <1>3 DEF Create, RequestTrigger, store, memory, requests
<1>4. CASE TickSelects
  BY <1>4 DEF TickSelects, DownOK
<1>5. CASE OpenRun
  BY <1>b, <1>5 DEF OpenRun, DownOK
<1>6. CASE PrepareFails
  BY <1>b, <1>6 DEF PrepareFails, DownOK
<1>7. CASE Dispatch
  BY <1>b, <1>7 DEF Dispatch, DownOK
<1>8. ASSUME NEW r \in RunIds, Evaluate(r)
      PROVE  DownOK'
  BY <1>0, <1>a, <1>8, EvaluationGoesOn DEF Evaluate
<1>9. ASSUME NEW r \in RunIds, FinishRun(r)
      PROVE  DownOK'
  BY <1>0, <1>a, <1>9, EvaluationGoesOn DEF FinishRun, Records
<1>10. ASSUME NEW r \in RunIds, Settle(r)
      PROVE  DownOK'
  BY <1>0, <1>a, <1>10, EvaluationGoesOn DEF Settle
<1>11. ASSUME NEW r \in RunIds, CancelRun(r)
      PROVE  DownOK'
  BY <1>0, <1>a, <1>11, EvaluationGoesOn DEF CancelRun, Records
<1>12. ASSUME NEW r \in RunIds, StopContainers(r)
      PROVE  DownOK'
  BY <1>0, <1>a, <1>12, EvaluationGoesOn DEF StopContainers
<1>13. ASSUME NEW r \in RunIds, DropGuard(r)
      PROVE  DownOK'
  BY <1>0, <1>13 DEF DropGuard, DownOK
<1>14. ASSUME NEW t \in TaskIds, FireCancel(t)
      PROVE  DownOK'
  BY <1>0, <1>a, <1>14, CancelGoesOn DEF FireCancel
<1>15. CASE Shutdown
  BY <1>15 DEF Shutdown, DownOK
<1>16. CASE Drained
  BY <1>0, <1>16 DEF Drained, DownOK, memory, Live
<1>17. CASE Crash
  BY <1>17 DEF Crash, Forgets, DownOK, Live
<1>18. CASE CrashInStart
  BY <1>18 DEF CrashInStart, Forgets, DownOK, Live
<1>19. CASE Boot
  BY <1>19 DEF Boot, DownOK
<1>20. CASE StartFails
  BY <1>b, <1>20 DEF StartFails, DownOK
<1> QED
  BY <1>1, <1>2, <1>3, <1>4, <1>5, <1>6, <1>7, <1>8, <1>9, <1>10, <1>11,
     <1>12, <1>13, <1>14, <1>15, <1>16, <1>17, <1>18, <1>19, <1>20
     DEF Next, TickStep, EvaluationStep, Request, HandlerStep, vars, store, memory,
         requests

\* While the tick goes on as it was, rows end, evaluations end or are decided.
LEMMA TickStays ==
  ASSUME TickOK, TickType, inFlight \in Nat, inFlight' \in Nat,
         UNCHANGED tick, inFlight' <= inFlight, RowsEnd, Live' \subseteq Live,
         \A r \in Live' : Undecided(evals'[r]) =>
           Undecided(evals[r]) /\ evals'[r].task = evals[r].task,
         tick.opened # NoRun =>
           \/ runs'[tick.opened] = Row(tick.todo[1].task, "running")
           \/ runs'[tick.opened] = NoRun /\ tick.todo[1].task \notin Stored'
  PROVE  TickOK'
<1>1. tick.todo \in Seq(Snapshots) /\ tick.cap \in Nat /\ Len(tick.todo) \in Nat
  BY DEF TickType
<1>2. tick.todo # <<>> => inFlight' + Len(tick.todo) <= tick.cap
  BY <1>1 DEF TickOK
<1>3. \A i \in DOMAIN tick.todo, r \in RunIds :
        Running(r)' /\ runs'[r].task = tick.todo[i].task => i = 1 /\ r = tick.opened
  BY DEF TickOK, RowsEnd
<1>4. \A i \in DOMAIN tick.todo, r \in RunIds :
        r \in Live' /\ Undecided(evals'[r]) => evals'[r].task # tick.todo[i].task
  BY DEF TickOK
<1> QED
  BY <1>2, <1>3, <1>4 DEF TickOK

\* When the tick is done with its first task, the others are still nobody's.
LEMMA TickGoesOn ==
  ASSUME TickOK, TickType, tick.todo # <<>>, inFlight \in Nat, inFlight' \in Nat,
         inFlight' <= inFlight + 1,
         \A r \in RunIds : Running(r)' =>
           \/ runs'[r].task = tick.todo[1].task
           \/ Running(r) /\ runs'[r] = runs[r],
         \/ tick' = Idle
         \/ /\ tick'.todo = Tail(tick.todo) /\ tick'.opened = NoRun
            /\ tick'.cap = tick.cap,
         \A r \in Live' : Undecided(evals'[r]) =>
           \/ evals'[r].task = tick.todo[1].task
           \/ /\ r \in Live /\ Undecided(evals[r]) /\ evals'[r].task = evals[r].task
  PROVE  TickOK'
<1>1. CASE tick' = Idle
  BY <1>1 DEF Idle, TickOK
<1>2. CASE tick' # Idle
  <2>1. tick'.todo = Tail(tick.todo) /\ tick'.opened = NoRun /\ tick'.cap = tick.cap
    BY <1>2
  <2>2. /\ tick.todo \in Seq(Snapshots) /\ Len(tick.todo) \in Nat \ {0}
        /\ 1 \in DOMAIN tick.todo /\ tick.cap \in Nat
    BY HeadOfTodo DEF TickType
  <2>3. /\ Len(tick'.todo) = Len(tick.todo) - 1
        /\ \A i \in DOMAIN tick'.todo :
             i + 1 \in DOMAIN tick.todo /\ i + 1 # 1 /\ tick'.todo[i] = tick.todo[i + 1]
    BY <2>1, <2>2
  <2>4. tick'.todo # <<>> => inFlight' + Len(tick'.todo) <= tick'.cap
    BY <2>1, <2>2, <2>3 DEF TickOK
  <2>5. \A i, j \in DOMAIN tick'.todo : tick'.todo[i].task = tick'.todo[j].task => i = j
    <3> TAKE i, j \in DOMAIN tick'.todo
    <3>1. i \in Nat /\ j \in Nat
      BY <2>1, <2>2
    <3>2. tick'.todo[i].task = tick'.todo[j].task => i + 1 = j + 1
      BY <2>3 DEF TickOK
    <3> QED
      BY <3>1, <3>2
  <2>6. \A i \in DOMAIN tick'.todo, r \in RunIds :
          ~ (Running(r)' /\ runs'[r].task = tick'.todo[i].task)
    <3> TAKE i \in DOMAIN tick'.todo, r \in RunIds
    <3>1. tick'.todo[i].task # tick.todo[1].task
      BY <2>2, <2>3 DEF TickOK
    <3> QED
      BY <2>3, <3>1 DEF TickOK
  <2>7. \A i \in DOMAIN tick'.todo, r \in RunIds :
          r \in Live' /\ Undecided(evals'[r]) => evals'[r].task # tick'.todo[i].task
    BY <2>2, <2>3 DEF TickOK
  <2> QED
    BY <2>1, <2>4, <2>5, <2>6, <2>7 DEF TickOK
<1> QED
  BY <1>1, <1>2

\* The row that waits for its evaluation is changed by a delete only.
LEMMA OpenedRow ==
  ASSUME TickOK, UNCHANGED tick, tick.opened # NoRun,
         runs'[tick.opened] = runs[tick.opened], Stored' \subseteq Stored
  PROVE  \/ runs'[tick.opened] = Row(tick.todo[1].task, "running")
         \/ runs'[tick.opened] = NoRun /\ tick.todo[1].task \notin Stored'
BY DEF TickOK

\* What the tick has selected is nobody else's, and fits into the cap.
LEMMA TickKept ==
  ASSUME IInv, [Next]_vars
  PROVE  TickOK'
<1>0. /\ TypeOK /\ TasksOK /\ RunsOK /\ TickType /\ EvalsOK /\ RequestsOK
      /\ OutcomeKnown /\ RowsKept /\ TickOK /\ DownOK /\ CancelReachesRun /\ IInv
      /\ plan \in Bounds /\ inFlight \in Nat
  BY TypeParts, FS_CardinalityType DEF IInv, EvalsOK
<1>a. ASSUME UNCHANGED tick, inFlight' \in Nat, inFlight' <= inFlight, RowsEnd,
             Live' \subseteq Live, Stored' = Stored,
             \A q \in Live' : Undecided(evals'[q]) =>
               Undecided(evals[q]) /\ evals'[q].task = evals[q].task,
             tick.opened # NoRun => runs'[tick.opened] = runs[tick.opened]
      PROVE  TickOK'
  BY <1>0, <1>a, OpenedRow, TickStays
<1>b. ASSUME UNCHANGED <<tick, inFlight, runs, evals>>, Stored' = Stored
      PROVE  TickOK'
  BY <1>0, <1>a, <1>b DEF RowsEnd, Running, Live
<1>c. tick' = NextTodo =>
        \/ tick' = Idle
        \/ tick'.todo = Tail(tick.todo) /\ tick'.opened = NoRun /\ tick'.cap = tick.cap
  BY <1>0 DEF NextTodo, TickType
<1>d. Live # {} => inFlight > 0
  BY <1>0, FS_EmptySet DEF EvalsOK
<1>1. CASE UNCHANGED <<tick, inFlight, runs, evals, tasks>>
  BY <1>1, <1>b DEF Stored
<1>2. ASSUME NEW t \in TaskIds,
             AskTrigger(t) \/ AskCancel(t)
      PROVE  UNCHANGED <<tick, inFlight, runs, evals, tasks>>
  BY <1>2 DEF AskTrigger, AskCancel, store, memory, requests
<1>3. ASSUME Shutdown \/ Drained
      PROVE  UNCHANGED <<tick, inFlight, runs, evals, tasks>>
  BY <1>3 DEF Shutdown, Drained, store, memory, requests
<1>4. CASE TickSelects
  <2>1. PICK cap \in plan.caps, due \in Selections :
          LET free == Capacity(AtLeastOne(cap))
              taken == IF free < Len(due) THEN free ELSE Len(due)
          IN  /\ taken > 0
              /\ tick' = [todo |-> [i \in 1..taken |-> Snapshot(due[i])],
                          opened |-> NoRun, cap |-> AtLeastOne(cap)]
    BY <1>4 DEF TickSelects
  <2> DEFINE taken == IF Capacity(AtLeastOne(cap)) < Len(due)
                      THEN Capacity(AtLeastOne(cap)) ELSE Len(due)
  <2>2. /\ tick' = [todo |-> [i \in 1..taken |-> Snapshot(due[i])],
                    opened |-> NoRun, cap |-> AtLeastOne(cap)]
        /\ taken \in Nat /\ inFlight + taken <= AtLeastOne(cap)
        /\ \A i \in 1..taken : due[i] \in Due
        /\ \A i, j \in 1..taken : due[i] = due[j] => i = j
    BY <1>0, <2>1, SelectionFits
  <2> HIDE DEF taken
  <2>3. /\ tick'.todo = [i \in 1..taken |-> Snapshot(due[i])]
        /\ tick'.opened = NoRun /\ tick'.cap = AtLeastOne(cap)
        /\ UNCHANGED <<runs, evals, inFlight>>
    BY <1>4, <2>2 DEF TickSelects, store
  <2>4. DOMAIN tick'.todo = 1..taken /\ Len(tick'.todo) = taken
        /\ \A i \in 1..taken : tick'.todo[i].task = due[i]
    BY <2>2, <2>3 DEF Snapshot
  <2>5. \A t \in Due, r \in RunIds :
          /\ Running(r) => runs[r].task # t
          /\ r \in Live /\ Undecided(evals[r]) => evals[r].task # t
    BY <1>0, RowIsARow DEF Due, Wants, Stored, RowsKept, Running
  <2>6. \A t \in Due, r \in RunIds :
          /\ ~ (Running(r)' /\ runs'[r].task = t)
          /\ r \in Live' /\ Undecided(evals'[r]) => evals'[r].task # t
    BY <2>3, <2>5 DEF Live, Running
  <2>7. tick'.todo # <<>> => inFlight' + Len(tick'.todo) <= tick'.cap
    BY <2>2, <2>3, <2>4
  <2>8. \A i, j \in DOMAIN tick'.todo : tick'.todo[i].task = tick'.todo[j].task => i = j
    BY <2>2, <2>4
  <2>9. \A i \in DOMAIN tick'.todo, r \in RunIds :
          /\ ~ (Running(r)' /\ runs'[r].task = tick'.todo[i].task)
          /\ r \in Live' /\ Undecided(evals'[r]) => evals'[r].task # tick'.todo[i].task
    <3> TAKE i \in DOMAIN tick'.todo, r \in RunIds
    <3>1. tick'.todo[i].task \in Due
      BY <2>2, <2>4
    <3> QED
      BY <2>6, <3>1
  <2> QED
    BY <2>3, <2>7, <2>8, <2>9 DEF TickOK
<1>5. CASE OpenRun
  <2> DEFINE t == tick.todo[1].task
  <2>1. tick.todo # <<>> /\ tick.opened = NoRun /\ UNCHANGED <<evals, inFlight>>
    BY <1>5 DEF OpenRun
  <2>2. Head(tick.todo).task = t /\ t \in TaskIds
    BY <1>0, <2>1, HeadOfTodo
  <2>3. CASE /\ tick' = [tick EXCEPT !.opened = FreeRun] /\ FreeRuns # {}
             /\ runs' = Inserted(t, FreeRun)
    <3>1. /\ tick'.todo = tick.todo /\ tick'.opened = FreeRun /\ tick'.cap = tick.cap
      BY <1>0, <2>3 DEF TickType
    <3>2. /\ FreeRun \in RunIds /\ FreeRun \notin Live /\ FreeRun # NoRun
          /\ runs'[FreeRun] = Row(t, "running") /\ Row(t, "running").task = t
          /\ \A r \in RunIds \ {FreeRun} : runs'[r] = runs[r]
      BY <1>0, <2>2, <2>3, FreeRunIsFree, RowIsARow DEF Inserted, RunsOK
    <3>3. \A i \in DOMAIN tick.todo, r \in RunIds :
            Running(r) => runs[r].task # tick.todo[i].task
      BY <1>0, <2>1, IdAssumption DEF TickOK
    <3>4. \A i \in DOMAIN tick.todo, r \in RunIds :
            Running(r)' /\ runs'[r].task = tick.todo[i].task => i = 1 /\ r = FreeRun
      <4> TAKE i \in DOMAIN tick.todo, r \in RunIds
      <4>1. CASE r = FreeRun
        BY <1>0, <2>1, <3>2, <4>1, HeadOfTodo DEF TickOK
      <4>2. CASE r # FreeRun
        BY <3>2, <3>3, <4>2 DEF Running
      <4> QED
        BY <4>1, <4>2
    <3>5. Live' = Live
      BY <2>1 DEF Live
    <3> HIDE DEF t
    <3> QED
      BY <1>0, <2>1, <3>1, <3>2, <3>4, <3>5 DEF TickOK, t
  <2>4. CASE /\ tick' = IF Len(tick.todo) = 1 THEN Idle
                       ELSE [tick EXCEPT !.todo = Tail(@)]
             /\ UNCHANGED <<runs>>
    <3>1. \/ tick' = Idle
          \/ /\ tick'.todo = Tail(tick.todo) /\ tick'.opened = NoRun
             /\ tick'.cap = tick.cap
      BY <1>0, <2>1, <2>4 DEF TickType
    <3>2. RowsEnd /\ Live' = Live
      BY <2>1, <2>4 DEF RowsEnd, Running, Live
    <3> QED
      BY <1>0, <2>1, <3>1, <3>2, TickGoesOn DEF RowsEnd
  <2> QED
    BY <1>5, <2>2, <2>3, <2>4 DEF OpenRun
<1>6. CASE PrepareFails
  <2>1. /\ tick.todo # <<>> /\ UNCHANGED <<evals, inFlight>> /\ tick' = NextTodo
        /\ runs' = [runs EXCEPT ![tick.opened] = NoRun]
    BY <1>0, <1>6 DEF PrepareFails, TickOK
  <2>2. RowsEnd /\ Live' = Live
    BY <1>0, <2>1 DEF RowsEnd, Running, RunsOK, Live
  <2> QED
    BY <1>0, <1>c, <2>1, <2>2, TickGoesOn DEF RowsEnd
<1>7. CASE Dispatch
  <2>1. /\ tick' = NextTodo /\ inFlight' = inFlight + 1 /\ RowsEnd
    BY <1>7 DEF Dispatch, store, RowsEnd, Running
  <2>2. \A r \in Live' :
          (r \in Live /\ evals'[r] = evals[r]) \/ evals'[r].task = tick.todo[1].task
    BY <1>0, <1>7, DispatchStarts
  <2> QED
    BY <1>0, <1>c, <1>7, <2>1, <2>2, DispatchStarts, TickGoesOn DEF RowsEnd
<1>8. ASSUME NEW r \in RunIds, Evaluate(r)
      PROVE  TickOK'
  <2>1. GoesOn /\ EvaluationStep(r)
    BY <1>0, <1>8, EvaluationGoesOn DEF EvaluationStep
  <2>2. RowsEnd /\ r \in Live /\ \A q \in RunIds : q # r => runs'[q] = runs[q]
    BY <1>0, <2>1, EvaluationRows DEF RowsEnd
  <2>3. Stored' = Stored
    BY <1>0, <1>8, TasksStay DEF SameTasks, Evaluate, store
  <2>4. UNCHANGED <<tick, inFlight>>
    BY <1>8 DEF Evaluate
  <2>5. tick.opened # NoRun => runs'[tick.opened] = runs[tick.opened]
    BY <1>0, <2>2 DEF TickOK, TickType
  <2> QED
    BY <1>0, <1>a, <2>1, <2>2, <2>3, <2>4, <2>5 DEF GoesOn
<1>9. ASSUME NEW r \in RunIds, FinishRun(r)
      PROVE  TickOK'
  <2>1. GoesOn /\ EvaluationStep(r)
    BY <1>0, <1>9, EvaluationGoesOn DEF EvaluationStep
  <2>2. RowsEnd /\ r \in Live /\ \A q \in RunIds : q # r => runs'[q] = runs[q]
    BY <1>0, <2>1, EvaluationRows DEF RowsEnd
  <2>3. Stored' = Stored
    BY <1>0, <1>9, TasksStay DEF SameTasks, FinishRun, Records, store
  <2>4. UNCHANGED <<tick, inFlight>>
    BY <1>9 DEF FinishRun, Records
  <2>5. tick.opened # NoRun => runs'[tick.opened] = runs[tick.opened]
    BY <1>0, <2>2 DEF TickOK, TickType
  <2> QED
    BY <1>0, <1>a, <2>1, <2>2, <2>3, <2>4, <2>5 DEF GoesOn
<1>10. ASSUME NEW r \in RunIds, Settle(r)
      PROVE  TickOK'
  <2>1. GoesOn /\ EvaluationStep(r)
    BY <1>0, <1>10, EvaluationGoesOn DEF EvaluationStep
  <2>2. RowsEnd /\ r \in Live /\ \A q \in RunIds : q # r => runs'[q] = runs[q]
    BY <1>0, <2>1, EvaluationRows DEF RowsEnd
  <2>3. Stored' = Stored
    BY <1>0, <1>10, TasksStay DEF SameTasks, Settle, store
  <2>4. UNCHANGED <<tick, inFlight>>
    BY <1>10 DEF Settle
  <2>5. tick.opened # NoRun => runs'[tick.opened] = runs[tick.opened]
    BY <1>0, <2>2 DEF TickOK, TickType
  <2> QED
    BY <1>0, <1>a, <2>1, <2>2, <2>3, <2>4, <2>5 DEF GoesOn
<1>11. ASSUME NEW r \in RunIds, CancelRun(r)
      PROVE  TickOK'
  <2>1. GoesOn /\ EvaluationStep(r)
    BY <1>0, <1>11, EvaluationGoesOn DEF EvaluationStep
  <2>2. RowsEnd /\ r \in Live /\ \A q \in RunIds : q # r => runs'[q] = runs[q]
    BY <1>0, <2>1, EvaluationRows DEF RowsEnd
  <2>3. Stored' = Stored
    BY <1>0, <1>11, TasksStay DEF SameTasks, CancelRun, Records, store
  <2>4. UNCHANGED <<tick, inFlight>>
    BY <1>11 DEF CancelRun, Records
  <2>5. tick.opened # NoRun => runs'[tick.opened] = runs[tick.opened]
    BY <1>0, <2>2 DEF TickOK, TickType
  <2> QED
    BY <1>0, <1>a, <2>1, <2>2, <2>3, <2>4, <2>5 DEF GoesOn
<1>12. ASSUME NEW r \in RunIds, StopContainers(r)
      PROVE  TickOK'
  <2>1. GoesOn /\ EvaluationStep(r)
    BY <1>0, <1>12, EvaluationGoesOn DEF EvaluationStep
  <2>2. RowsEnd /\ r \in Live /\ \A q \in RunIds : q # r => runs'[q] = runs[q]
    BY <1>0, <2>1, EvaluationRows DEF RowsEnd
  <2>3. Stored' = Stored
    BY <1>0, <1>12, TasksStay DEF SameTasks, StopContainers, store
  <2>4. UNCHANGED <<tick, inFlight>>
    BY <1>12 DEF StopContainers
  <2>5. tick.opened # NoRun => runs'[tick.opened] = runs[tick.opened]
    BY <1>0, <2>2 DEF TickOK, TickType
  <2> QED
    BY <1>0, <1>a, <2>1, <2>2, <2>3, <2>4, <2>5 DEF GoesOn
<1>13. ASSUME NEW r \in RunIds, DropGuard(r)
      PROVE  TickOK'
  <2>1. /\ r \in Live /\ UNCHANGED <<tasks, tick>> /\ inFlight' = inFlight - 1
        /\ evals' = [evals EXCEPT ![r] = NoEval]
    BY <1>13 DEF DropGuard
  <2>2. \A q \in Live' : q \in Live /\ evals'[q] = evals[q]
    BY <1>0, <2>1 DEF EvalsOK, Live
  <2>3. RowsEnd /\ \A q \in RunIds : q # r => runs'[q] = runs[q]
    BY <1>0, <1>13, EvaluationRows DEF EvaluationStep, RowsEnd
  <2>4. Stored' = Stored
    BY <2>1 DEF Stored
  <2>5. inFlight' \in Nat /\ inFlight' <= inFlight
    BY <1>0, <1>d, <2>1
  <2>6. tick.opened # NoRun => runs'[tick.opened] = runs[tick.opened]
    BY <1>0, <2>1, <2>3 DEF TickOK, TickType
  <2>7. Live' \subseteq Live
    BY <2>2
  <2> QED
    BY <1>0, <1>a, <2>1, <2>2, <2>3, <2>4, <2>5, <2>6, <2>7
<1>14. ASSUME NEW name \in Names, Create(name)
      PROVE  TickOK'
  <2>1. PICK t \in Unused : tasks' = [tasks EXCEPT ![t] = NewTask(name)]
    BY <1>14 DEF Create
  <2>2. Stored' = Stored \cup {t} /\ \A i \in DOMAIN tick.todo : tick.todo[i].task # t
    BY <1>0, <1>14, <2>1, TaskCreated DEF Create, Unused
  <2>3. UNCHANGED <<runs, evals, tick, inFlight>>
    BY <1>14 DEF Create, memory
  <2>4. RowsEnd /\ Live' = Live
    BY <2>3 DEF RowsEnd, Running, Live
  <2>5. tick.opened # NoRun =>
           \/ runs'[tick.opened] = Row(tick.todo[1].task, "running")
           \/ runs'[tick.opened] = NoRun /\ tick.todo[1].task \notin Stored'
    BY <1>0, <2>2, <2>3, HeadOfTodo DEF TickOK
  <2> QED
    BY <1>0, <2>3, <2>4, <2>5, TickStays
<1>15. ASSUME NEW t \in TaskIds, SetStatus(t)
      PROVE  TickOK'
  <2>1. Stored' = Stored
    BY <1>0, <1>15, TasksStay DEF SameTasks
  <2> QED
    BY <1>b, <1>15, <2>1 DEF SetStatus, memory
<1>16. ASSUME NEW t \in TaskIds, Delete(t)
      PROVE  TickOK'
  <2>1. Stored' = Stored \ {t} /\ UNCHANGED <<evals, tick, inFlight>> /\ t \in TaskIds
    BY <1>0, <1>16, TaskDeleted DEF Delete, memory
  <2>2. \A q \in RunIds :
          runs'[q] = IF runs[q] # NoRun /\ runs[q].task = t THEN NoRun ELSE runs[q]
    BY <1>16 DEF Delete
  <2>3. RowsEnd /\ Live' = Live
    BY <2>1, <2>2 DEF RowsEnd, Running, Live
  <2>4. tick.opened # NoRun =>
           \/ runs'[tick.opened] = Row(tick.todo[1].task, "running")
           \/ runs'[tick.opened] = NoRun /\ tick.todo[1].task \notin Stored'
    <3> SUFFICES ASSUME tick.opened # NoRun
                 PROVE  \/ runs'[tick.opened] = Row(tick.todo[1].task, "running")
                        \/ runs'[tick.opened] = NoRun /\ tick.todo[1].task \notin Stored'
      OBVIOUS
    <3>1. tick.opened \in RunIds /\ tick.todo # <<>>
      BY <1>0 DEF TickType, TickOK
    <3>2. /\ Row(tick.todo[1].task, "running") # NoRun
          /\ Row(tick.todo[1].task, "running").task = tick.todo[1].task
      BY <1>0, <3>1, HeadOfTodo, RowIsARow
    <3> QED
      BY <1>0, <2>1, <2>2, <3>1, <3>2 DEF TickOK
  <2> QED
    BY <1>0, <2>1, <2>3, <2>4, TickStays
<1>17. ASSUME NEW name \in Names, RequestTrigger(name)
      PROVE  TickOK'
  <2>1. Stored' = Stored
    BY <1>0, <1>17, TasksStay DEF SameTasks
  <2> QED
    BY <1>b, <1>17, <2>1 DEF RequestTrigger, memory
<1>18. ASSUME NEW t \in TaskIds, FireCancel(t)
      PROVE  TickOK'
  <2>1. GoesOn
    BY <1>0, <1>18, CancelGoesOn
  <2>2. UNCHANGED <<tasks, runs, tick, inFlight>>
    BY <1>18 DEF FireCancel, store
  <2>3. Stored' = Stored /\ RowsEnd
    BY <2>2 DEF Stored, RowsEnd, Running
  <2> QED
    BY <1>0, <1>a, <2>1, <2>2, <2>3 DEF GoesOn
<1>19. ASSUME NEW t \in TaskIds, TimePasses(t)
      PROVE  TickOK'
  <2>1. Stored' = Stored
    BY <1>0, <1>19, TasksStay DEF SameTasks
  <2> QED
    BY <1>b, <1>19, <2>1 DEF TimePasses, Rests, BackoffPasses, memory
<1>20. CASE Crash
  BY <1>20 DEF Crash, Forgets, TickOK, Idle
<1>21. CASE CrashInStart
  BY <1>21 DEF CrashInStart, Forgets, TickOK, Idle
<1>22. CASE Boot
  BY <1>0, <1>22 DEF Boot, DownOK, TickOK, memory, Idle
<1>23. CASE StartFails
  <2> DEFINE t == tick.todo[1].task
  <2>1. /\ tick.todo # <<>> /\ FreeRuns # {} /\ tick' = NextTodo
        /\ UNCHANGED <<evals, inFlight>> /\ Head(tick.todo).task = t
    BY <1>0, <1>23, HeadOfTodo DEF StartFails
  <2>2. t \in TaskIds
    BY <1>0, <2>1, HeadOfTodo
  <2>3. runs' = runs \/ runs' = Inserted(t, FreeRun)
    BY <1>23, <2>1 DEF StartFails
  <2> HIDE DEF t
  <2>4. \A r \in RunIds : Running(r)' =>
          runs'[r].task = t \/ (Running(r) /\ runs'[r] = runs[r])
    <3>1. CASE runs' = runs
      BY <3>1 DEF Running
    <3>2. CASE runs' = Inserted(t, FreeRun)
      <4>1. /\ runs'[FreeRun] = Row(t, "running")
            /\ \A r \in RunIds \ {FreeRun} : runs'[r] = runs[r]
        BY <1>0, <2>1, <3>2, FreeRunIsFree DEF Inserted, RunsOK
      <4>2. Row(t, "running").task = t
        BY <2>2, RowIsARow
      <4> TAKE r \in RunIds
      <4>3. CASE r = FreeRun
        BY <4>1, <4>2, <4>3
      <4>4. CASE r # FreeRun
        BY <4>1, <4>4 DEF Running
      <4> QED
        BY <4>3, <4>4
    <3> QED
      BY <2>3, <3>1, <3>2
  <2>5. Live' = Live
    BY <2>1 DEF Live
  <2> QED
    BY <1>0, <1>c, <2>1, <2>4, <2>5, TickGoesOn DEF t
<1> QED
  BY <1>1, <1>2, <1>3, <1>4, <1>5, <1>6, <1>7, <1>8, <1>9, <1>10, <1>11,
     <1>12, <1>13, <1>14, <1>15, <1>16, <1>17, <1>18, <1>19, <1>20, <1>21,
     <1>22, <1>23
     DEF Next, TickStep, EvaluationStep, Request, HandlerStep, vars, store, memory,
         requests

\* A trigger that is gone has been honoured by a run.
LEMMA TriggerStep ==
  ASSUME IInv, [Next]_vars, NEW u \in TaskIds,
         tasks[u] # NoTask, tasks'[u] # NoTask, tasks[u].trigger, ~tasks'[u].trigger
  PROVE  \E q \in RunIds : runs[q] = NoRun /\ runs'[q] = Row(u, "running")
<1>0. TasksOK /\ RunsOK
  BY TypeParts DEF IInv
<1>u. tasks[u] # NoTask /\ tasks'[u] # NoTask /\ tasks[u].trigger /\ ~tasks'[u].trigger
  OBVIOUS
<1>1. CASE UNCHANGED tasks
  BY <1>u, <1>1
<1>2. ASSUME NEW r \in RunIds,
             Evaluate(r) \/ FinishRun(r) \/ CancelRun(r) \/
             StopContainers(r) \/ DropGuard(r)
      PROVE  UNCHANGED tasks
  BY <1>2 DEF Evaluate, FinishRun, CancelRun, StopContainers, DropGuard, Records,
     store, memory, requests
<1>3. ASSUME NEW t \in TaskIds,
             AskTrigger(t) \/ AskCancel(t) \/ FireCancel(t)
      PROVE  UNCHANGED tasks
  BY <1>3 DEF AskTrigger, AskCancel, FireCancel, store, memory, requests
<1>4. ASSUME TickSelects \/ StartFails \/ PrepareFails \/ Dispatch \/
             Shutdown \/ Drained \/ Crash \/ CrashInStart \/ Boot
      PROVE  UNCHANGED tasks
  BY <1>4 DEF TickSelects, StartFails, PrepareFails, Dispatch, Shutdown, Drained, Crash,
     CrashInStart, Boot, Forgets, DiesInStart, store, memory, requests
<1>5. CASE OpenRun
  <2>1. tasks[u] \in TaskRow
    BY <1>0, <1>u DEF TasksOK
  <2> DEFINE t == Head(tick.todo).task
  <2>2. CASE UNCHANGED tasks
    BY <1>u, <2>2
  <2>3. CASE /\ tasks' = Honoured(t) /\ runs' = Inserted(t, FreeRun) /\ FreeRuns # {}
    <3>1. u = t
      BY <1>0, <1>u, <2>1, <2>3 DEF Honoured, TasksOK
    <3>2. runs'[FreeRun] = Row(u, "running")
      BY <1>0, <2>3, <3>1, FreeRunIsFree DEF Inserted, RunsOK
    <3> QED
      BY <2>3, <3>2, FreeRunIsFree
  <2> QED
    BY <1>5, <2>2, <2>3 DEF OpenRun
<1>6. ASSUME NEW r \in RunIds, Settle(r)
      PROVE  \E q \in RunIds : runs[q] = NoRun /\ runs'[q] = Row(u, "running")
  <2>1. tasks[u] \in TaskRow
    BY <1>0, <1>u DEF TasksOK
  <2> QED
    BY <1>0, <1>6, <1>u, <2>1 DEF Settle, SetBackoff, TaskRow, TasksOK
<1>7. ASSUME NEW name \in Names, Create(name)
      PROVE  \E q \in RunIds : runs[q] = NoRun /\ runs'[q] = Row(u, "running")
  <2>1. tasks[u] \in TaskRow
    BY <1>0, <1>u DEF TasksOK
  <2> QED
    BY <1>0, <1>7, <1>u, <2>1 DEF Create, Unused, Stored, NewTask, TaskRow, TasksOK
<1>8. ASSUME NEW t \in TaskIds, SetStatus(t)
      PROVE  \E q \in RunIds : runs[q] = NoRun /\ runs'[q] = Row(u, "running")
  <2>1. tasks[u] \in TaskRow
    BY <1>0, <1>u DEF TasksOK
  <2> QED
    BY <1>0, <1>8, <1>u, <2>1 DEF SetStatus, TaskRow, TasksOK
<1>9. ASSUME NEW t \in TaskIds, Delete(t)
      PROVE  \E q \in RunIds : runs[q] = NoRun /\ runs'[q] = Row(u, "running")
  <2>1. tasks[u] \in TaskRow
    BY <1>0, <1>u DEF TasksOK
  <2> QED
    BY <1>0, <1>9, <1>u, <2>1 DEF Delete, TaskRow, TasksOK
<1>10. ASSUME NEW name \in Names, RequestTrigger(name)
      PROVE  \E q \in RunIds : runs[q] = NoRun /\ runs'[q] = Row(u, "running")
  <2>1. tasks[u] \in TaskRow
    BY <1>0, <1>u DEF TasksOK
  <2> QED
    BY <1>0, <1>10, <1>u, <2>1 DEF RequestTrigger, TaskRow, TasksOK
<1>11. ASSUME NEW t \in TaskIds, TimePasses(t)
      PROVE  \E q \in RunIds : runs[q] = NoRun /\ runs'[q] = Row(u, "running")
  <2>1. tasks[u] \in TaskRow
    BY <1>0, <1>u DEF TasksOK
  <2> QED
    BY <1>0, <1>11, <1>u, <2>1 DEF TimePasses, Rests, BackoffPasses, TaskRow, TasksOK
<1> QED
  BY <1>1, <1>2, <1>3, <1>4, <1>5, <1>6, <1>7, <1>8, <1>9, <1>10, <1>11
     DEF Next, TickStep, EvaluationStep, Request, HandlerStep, vars, store, memory,
         requests

-----------------------------------------------------------------------------
(* The theorems *)

\* The invariant holds in every reachable state.
THEOREM InductiveInvariant == Spec => []IInv
<1>1. Init => IInv
  <2> SUFFICES ASSUME Init
               PROVE  IInv
    OBVIOUS
  <2>1. plan \in Plans /\ plan \in Bounds /\ DOMAIN plan.names \subseteq TaskIds
    BY PlanAssumption DEF Init
  <2>2. plan.names \in Seq(Names)
    BY <2>1 DEF Bounds
  <2>3. \A t \in DOMAIN plan.names : /\ NewTask(plan.names[t]) \in TaskRow
                                     /\ NewTask(plan.names[t]).name = plan.names[t]
    BY <2>2 DEF NewTask, TaskRow
  <2>4. \A t \in TaskIds :
          tasks[t] = IF t \in DOMAIN plan.names THEN NewTask(plan.names[t]) ELSE NoTask
    BY DEF Init
  <2>5. tasks \in [TaskIds -> {NoTask} \cup TaskRow] /\ Stored \subseteq DOMAIN plan.names
    BY <2>3, <2>4 DEF Init, Stored
  <2>6. TasksOK
    BY <2>1, <2>3, <2>4, <2>5, PlanAssumption DEF TasksOK, Stored
  <2>7. Live = {}
    BY DEF Init, Live
  <2>8. OrderOK /\ RunsOK /\ EvalsOK /\ RequestsOK
    BY <2>7, FS_EmptySet DEF Init, OrderOK, RunsOK, EvalsOK, RequestsOK
  <2>9. TickType /\ TickOK
    BY DEF Init, TickType, TickOK, Idle
  <2>10. \A r \in RunIds : ~ Running(r)
    BY DEF Init, Running
  <2> QED
    BY <2>1, <2>6, <2>7, <2>8, <2>9, <2>10, TypeParts
       DEF IInv, DownOK, OutcomeKnown, RowsKept, OneEvaluation, CancelReachesRun, Init
<1>2. IInv /\ [Next]_vars => IInv'
  <2> SUFFICES ASSUME IInv, [Next]_vars
               PROVE  IInv'
    OBVIOUS
  <2>1. /\ TypeOK' /\ TickOK' /\ DownOK' /\ OutcomeKnown' /\ RowsKept'
        /\ CancelReachesRun'
    <3>1. TypeOK'
      BY TypeStep
    <3>2. TickOK'
      BY TickKept
    <3>3. DownOK'
      BY DownStep
    <3>4. OutcomeKnown'
      BY EvalsStep
    <3>5. RowsKept'
      BY RowsKeptStep
    <3>6. CancelReachesRun'
      BY CancelReachesRunStep
    <3> QED
      BY <3>1, <3>2, <3>3, <3>4, <3>5, <3>6
  <2>2. RowsUnique'
    BY RowsUniqueStep
  <2>3. OneEvaluation'
    BY <2>1, <2>2 DEF OneEvaluation, RowsUnique, CancelReachesRun, RowsKept
  <2> QED
    BY <2>1, <2>3 DEF IInv
<1> QED
  BY <1>1, <1>2, PTL DEF Spec

\* Rows, order, tick and evaluations have their types; SchedulerStatus.in_flight
\* is the number of guards that live.
THEOREM TypeCorrect == Spec => []TypeOK
<1>1. IInv => TypeOK
  BY DEF IInv
<1> QED
  BY <1>1, InductiveInvariant, PTL

\* due_for_evaluation looks at running rows, so a task is evaluated by one
\* evaluation at a time, however requests, ticks and crashes interleave.
THEOREM EvaluatedOnce == Spec => []OneEvaluation
<1>1. IInv => OneEvaluation
  BY DEF IInv
<1> QED
  BY <1>1, InductiveInvariant, PTL

\* The handle a cancel finds is that of the evaluation that runs, since a guard
\* that is dropped releases the handle of its own run only.
THEOREM CancelFindsRun == Spec => []CancelReachesRun
<1>1. IInv => CancelReachesRun
  BY DEF IInv
<1> QED
  BY <1>1, InductiveInvariant, PTL

\* An evaluation starts only by Dispatch, and what a tick still dispatches fits
\* into the cap it read together with the evaluations of earlier ticks.
THEOREM CapHolds == Spec => CapRespected
<1> DEFINE Keeps == \A r \in RunIds : evals[r] = NoEval /\ evals'[r] # NoEval
                      => Cardinality({q \in RunIds : evals'[q] # NoEval}) <= tick.cap
<1>1. IInv /\ IInv' /\ [Next]_vars => [Keeps]_vars
  <2> SUFFICES ASSUME IInv, IInv', [Next]_vars
               PROVE  Keeps
    OBVIOUS
  <2>1. Live' = {q \in RunIds : evals'[q] # NoEval}
    BY DEF Live
  <2>2. CASE Dispatch
    <3>1. /\ TickType /\ inFlight \in Nat /\ tick.todo # <<>>
          /\ inFlight + Len(tick.todo) <= tick.cap
      BY <2>2, TypeParts, DispatchStarts, FS_CardinalityType DEF IInv, TickOK, EvalsOK
    <3>2. inFlight' = inFlight + 1 /\ inFlight' = Cardinality(Live')
      BY <2>2 DEF Dispatch, IInv, TypeOK
    <3> QED
      BY <2>1, <3>1, <3>2, HeadOfTodo DEF TickType
  <2>3. CASE Live' \subseteq Live
    BY <2>1, <2>3 DEF Live
  <2> QED
    BY <2>2, <2>3, EvalChanges DEF EvalChange, GoesOn
<1> QED
  BY <1>1, InductiveInvariant, PTL DEF Spec, CapRespected

\* Only start_run takes a trigger back, after it has inserted the row; a crash
\* between the two statements leaves the trigger.
THEOREM TriggersAreKept == Spec => TriggerKept
<1> DEFINE Keeps ==
      \A t \in TaskIds :
        (/\ tasks[t] # NoTask /\ tasks'[t] # NoTask
         /\ tasks[t].trigger /\ ~tasks'[t].trigger)
          => \E r \in RunIds : runs[r] = NoRun /\ runs'[r] = Row(t, "running")
<1>1. IInv /\ [Next]_vars => [Keeps]_vars
  BY TriggerStep
<1> QED
  BY <1>1, InductiveInvariant, PTL DEF Spec, TriggerKept
=============================================================================
