SPECIFICATION Spec
CONSTANTS
  Channels <- MotionChannels
  Depth = 2
  Steps <- Mission
  Operators = {anonymous}
  Anonymous = anonymous
  Autostart = FALSE
  RunIds = 1
  MaxTime = 0
  NaN = NaN
  AllowedCommands <- RobotCommands
  MaxLinear = 5
  MaxYaw = 10
  DriverSpeed = 5
  DriverYaw = 10
  DirectRequests <- EstopAndClear
  MayCrash = TRUE
INVARIANT HaltPending
PROPERTY ImplementsPipeline
PROPERTY HaltedRobotRests
