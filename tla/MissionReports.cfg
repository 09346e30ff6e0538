SPECIFICATION Spec
CONSTANTS
  Channels <- StatesAndEvents
  Depth = 10
  Steps <- OneWalk
  Operators = {anonymous}
  Anonymous = anonymous
  Autostart = FALSE
  RunIds = 5
  MaxTime = 0
  MayFail = TRUE
  Timings <- Timing
  MaxCommands = 3
INVARIANT ArmedTimerHasReport
INVARIANT ReportEndsOneMission
INVARIANT NoForeignRecords
INVARIANT RecordsComplete
PROPERTY ReportsAreFinal
PROPERTY PatientMissionsReported
PROPERTY ImplementsLifecycleProgress
CHECK_DEADLOCK FALSE
