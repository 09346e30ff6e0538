SPECIFICATION Spec
CONSTANTS
  Channels <- StatesAndEvents
  Depth = 10
  Steps <- OneWalk
  Operators = {anonymous}
  Anonymous = anonymous
  Autostart = FALSE
  RunIds = 5
  MaxTime = 0
  MayFail = FALSE
  Timings <- Hasty
  MaxCommands = 3
CHECK_DEADLOCK FALSE
PROPERTY EveryMissionReported
