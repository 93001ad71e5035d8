CONSTANTS
  short = short
  long = long
  mine = mine
  Routes <- TwoRoutes
  Foreign <- OwnPair
  PartOf <- ShortInLong
  Deadline = 2
  MaxAttempt = 2
  MaxFaults = 2
  MaxRestarts = 1
SPECIFICATION FairSpec
INVARIANTS
  NothingIsRefused
  CleanedOrTold
PROPERTIES
  OthersAreSpared
  LeftoversAreCollected
CHECK_DEADLOCK FALSE
