SPECIFICATION Spec
CONSTANTS
  o1 = o1
  o2 = o2
  c1 = c1
  c2 = c2
  Op = {o1}
  Call = {}
  MaxSessions = 2
  MaxCommands = 1
  MaxFaults = 1
CHECK_DEADLOCK FALSE
INVARIANT RetainedCancellable
