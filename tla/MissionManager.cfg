SPECIFICATION MissionSafety
CONSTANTS
  Channels <- Observers
  Depth = 1
  Steps <- TimedSteps
  Operators = {anonymous, alice}
  Anonymous = anonymous
  Autostart = TRUE
  RunIds = 1
  MaxTime = 7
INVARIANT MissionTypeOK
INVARIANT StepClock
INVARIANT NewestStateIsCurrent
PROPERTY HaltRequested
PROPERTY StepServed
PROPERTY ImplementsLifecycle
