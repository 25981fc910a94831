CONSTANTS
  Plans <- LongLoopPlans
  Handles <- MCHandles
  Branchers = {"a"}
  Askers = {"b"}
  Streamers = {"a"}
  Repeatable = {"a"}
  Options <- RunButton
  MaxGen = 3
  MaxLive = 2
  MaxRounds = 1
SPECIFICATION Spec
INVARIANT StartsInOrder
CHECK_DEADLOCK FALSE
