SPECIFICATION FairSpec
CONSTANTS
  Plans <- AllPlans
INVARIANTS TypeOK
PROPERTIES RunEnds CancelEndsSetup CloseOnFinish CancelledSetupCloses ClosedLeavesNothing
CHECK_DEADLOCK FALSE
