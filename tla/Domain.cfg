SPECIFICATION DomainSpec
CONSTANTS
  e1 = e1
  e2 = e2
  b1 = b1
  b2 = b2
  p1 = p1
  p2 = p2
  Free = Free
  Proc = {p1, p2}
  EventId = {e1, e2}
  Body = {b1, b2}
  Replays <- MCReplays
  RenameMayFail = FALSE
  Run = {r1, r2}
  TaskId = {k1}
  MaxAttempt = 2
  Order <- Two
  DependsOn <- Chain
  Concurrency = 2
  MaxSessions = 2
  MaxDecisions = 1
  MaxFaults = 1
SYMMETRY Writers
CHECK_DEADLOCK FALSE
INVARIANTS StreamWellFormed StreamBacksClaims
INVARIANTS NewestDecides TaskShowsItsRun
INVARIANTS SuccessBacked StoreFollowsEvents LateWriteAgrees
PROPERTIES ImplementsEventLog  RunSuccessBacked AttemptPromise ExecutionRecorded
