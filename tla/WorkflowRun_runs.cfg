CONSTANTS
  Plans <- MCPlans
  Handles <- MCHandles
  Branchers = {"a"}
  Askers = {"b"}
  Streamers = {"a"}
  Repeatable = {"a"}
  Options <- MCOptions
  MaxGen = 3
  MaxLive = 2
  MaxRounds = 1
SPECIFICATION FairSpec
INVARIANT StartsInOrder
 
INVARIANT ScopesApart
INVARIANT FailuresStay
INVARIANT RecordsWhole
CHECK_DEADLOCK FALSE
 
