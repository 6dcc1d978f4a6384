SPECIFICATION FairSpec
CONSTANTS
  MaxAttempts = 2
  MaxOutput = 2
  Capacity = 1
  Plans <- AllPlans
INVARIANTS TypeOK StreamExact
PROPERTIES StreamFollows
CHECK_DEADLOCK FALSE
