SPECIFICATION RunSpec
CONSTANTS
  Order <- One
  DependsOn <- Alone
  MaxAttempt = 2
  Concurrency = 1
  MaxSessions = 3
  MaxDecisions = 1
  MaxFaults = 0
PROPERTY UnclosedLeaseRecoverable
CHECK_DEADLOCK FALSE
