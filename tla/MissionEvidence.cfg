SPECIFICATION EvidenceSafety
CONSTANTS
  Channels <- EvidenceChannels
  Depth = 10
  Steps <- StandAndScan
  Operators = {anonymous}
  Anonymous = anonymous
  Autostart = FALSE
  RunIds = 5
  MaxTime = 3
  MayFail = FALSE
  Timings <- CalmOnly
  MaxCommands = 3
  DirectPayloads <- OtherPayloads
  AllowedPayloadTypes = {"camera", "sensor"}
  AllowedPayloadCommands = {"initialize", "start", "stop", "scan", "calibrate"}
  MaxDuration = 0
  CameraType = "camera"
INVARIANT EvidenceLinked
INVARIANT ScansEvidenced
INVARIANT EvidenceOfOneReport
