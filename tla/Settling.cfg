SPECIFICATION SettlingSpec
CONSTANTS
  NoLock = NoLock
  p1 = p1
  p2 = p2
  Proc = {p1, p2}
  EventId = {e1, e3}
  Body = {b1}
  NoProject = NoProject
  Project = {A, B}
  caller = caller
  Caller = {caller}
  MaxSwitches = 2
  MaxAsked = 2
  MaxFaults = 1
  Root = {ra, rb}
  HomeRoot = ra
  NoRoot = NoRoot
  Flow = {w1}
  FirstFlow = w1
  NoFlow = NoFlow
  SavedFlows = {w1}
  s1 = s1
  s2 = s2
  Saver = {s1, s2}
  MaxPsEdits = 0
  MaxPsSaves = 2
  MaxPsSwitches = 1
  MaxPsFaults = 1
  PlProject = {A, B}
  FirstProject = A
  c1 = c1
  c2 = c2
  PlCall = {c1, c2}
  NoCall = NoCall
  NoPack = NoPack
  MaxLanes = 2
  MaxScans = 1
  MaxWorkers = 2
  MissThreshold = 1
  q1 = q1
  q2 = q2
  LlmAgent <- LlmAgents
  NoRef = NoRef
  LlmRequest = {q1, q2}
  Permits = 1
  PlainRetries = 1
  ToolRetries = 1
  MaxRounds = 2
CHECK_DEADLOCK FALSE
PROPERTY WaitingEnds
INVARIANTS  LlmSound CandidatesKept
