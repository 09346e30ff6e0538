SPECIFICATION AttributionSafety
CONSTANTS
  Channels <- EventObserver
  Depth = 1
  Steps <- StandAndSit
  Operators = {anonymous, alice}
  Anonymous = anonymous
  Autostart = FALSE
  RunIds = 2
  MaxTime = 1
INVARIANT AttributedToCommander
