SPECIFICATION FairSpec
CONSTANTS
  Runs <- AllRuns
  Answers = {"restart", "back", "next", "finish", "pause", "abort", "continue", "restartOne"}
  SetupSteps = 1
  Teardown <- CommitPushPoll
  Remediated = {3}
  MaxAttempts = 1
  MaxCrashes = 1
INVARIANTS DagLaws TypeOK DependenciesFirst SlotsAgree BoundedRetries OutcomeHonest 
PROPERTIES FrozenQueue CleanupOnce CancelCleansUp UnattendedEnds
