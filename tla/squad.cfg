SPECIFICATION FairSpec
CONSTANTS
  TaskIds = {1, 2}
  Names = {"n", "m"}
  RunIds = {1, 2}
  NoTask = NoTask
  NoRun = NoRun
  NoEval = NoEval
  Plans <- AllPlans
INVARIANTS TypeOK OneEvaluation CancelReachesRun
PROPERTIES CapRespected TriggerKept EveryDueTaskRuns CancelEndsRun
CHECK_DEADLOCK FALSE
