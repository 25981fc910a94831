SPECIFICATION WindowSpec
CONSTANTS
  NoProject = NoProject
  Project = {A, B}
  Caller = {r}
  MaxSwitches = 3
  MaxAsked = 2
  MaxFaults = 1
  Click = {p, q}
  MaxWorld = 2
  MaxOpens = 3
  MaxWtFaults = 2
  Root = {ra, rb}
  HomeRoot = ra
  NoRoot = NoRoot
  Flow = {w1, w2}
  FirstFlow = w1
  NoFlow = NoFlow
  SavedFlows = {w1, w2}
  Saver = {s1, s2}
  MaxPsEdits = 2
  MaxPsSaves = 2
  MaxPsSwitches = 2
  MaxPsFaults = 0
  Orch = {o1}
  OrchFlow = {f1, f2}
  Stages = 2
  NoFlowId = NoFlowId
  MaxOrchFaults = 1
  Turn = {t1, t2}
  PlanTask = {k1}
  MaxTurns = 3
  MaxGraphs = 2
  Sheet = {y1, y2}
  HomeSheet = y1
  Sub = {g1}
  NoSub = NoSub
  MaxMade = 5
  MaxPast = 2
  MaxCommands = 4
  DlTask = {t0, k2, k3}
  RootTask = t0
  Grant = {d1, d2, d3}
  NoGrant = NoGrant
  File = {"f1", "f2"}
  DlScopes <- TaskParts
  RootScope <- RootPart
  PolicyScope <- PolicyPart
  BudgetLimit = 2
  MaxReserves = 2
SYMMETRY Interchangeable
CHECK_DEADLOCK FALSE
INVARIANTS HostRemembered OneInitializer CleanupSound ReceiptReachesFile  OneExecutor SessionHoldsLiveGraph  DelegationSound
PROPERTIES CommitsKept GuardedSavesInOpening  CancelStands DecisionsStand
