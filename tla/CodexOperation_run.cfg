SPECIFICATION FairSpec
CONSTANTS
  o1 = o1
  o2 = o2
  c1 = c1
  c2 = c2
  Op = {o1, o2}
  Call = {c1, c2}
  MaxSessions = 2
  MaxCommands = 2
  MaxFaults = 1
CONSTRAINT ThreeThreads
CHECK_DEADLOCK FALSE
INVARIANTS LeftoversHeld
PROPERTIES ImplementsPromise CallsEnd
