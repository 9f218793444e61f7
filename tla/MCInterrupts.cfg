\* The game keeps running by itself; the host is not fair.
SPECIFICATION Spec
CONSTANTS
  Priority <- MCPriority
  Periods <- MCPeriods
  Speeds = {0, 1}
  TimaSize = 2
  TmaValues = {0, 1}
  StepTicks = {1}
  HaltTicks = 1
  EntryTicks = 1
  Keys = {"A"}
  MaxLoads = 1
PROPERTIES
  InterruptsAsAsked
  RequestsSurvive
  TimerIsExact
  HaltEnds
