CONSTANTS
  Plans <- ForkPlans
  Handles <- MCHandles
  Branchers = {"a"}
  Askers = {"b"}
  Streamers = {"a"}
  Repeatable = {"a"}
  Options <- Rerun
  MaxGen = 3
  MaxLive = 2
  MaxRounds = 1
SPECIFICATION Spec
PROPERTY LateWritesNothing
CHECK_DEADLOCK FALSE
