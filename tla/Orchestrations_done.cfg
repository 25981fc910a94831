SPECIFICATION OrchSpec
CONSTANTS
  Orch = {o1}
  OrchFlow = {f1, f2}
  Stages = 2
  NoFlowId = NoFlowId
  MaxOrchFaults = 0
CHECK_DEADLOCK FALSE
PROPERTY DoneStands
