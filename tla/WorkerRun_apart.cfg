SPECIFICATION SessionSpec
CONSTANTS
  Order <- Two
  DependsOn <- Apart
  MaxAttempt = 2
  Concurrency = 2
  MaxSessions = 2
  MaxDecisions = 1
  MaxFaults = 1
PROPERTY DriverRests
CHECK_DEADLOCK FALSE
