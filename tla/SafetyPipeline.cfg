SPECIFICATION Spec
CONSTANTS
  Channels <- PathChannels
  Depth = 2
  NaN = NaN
  AllowedCommands <- Allowed
  MaxLinear = 3
  MaxYaw = 10
  DriverSpeed = 5
  DriverYaw = 10
  Requests <- AllRequests
INVARIANT EstopGate
INVARIANT EstopHolds
PROPERTY SpeedLimited
PROPERTY LatchedRobotStays
PROPERTY EstopReachesRobot
