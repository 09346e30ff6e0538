SPECIFICATION Spec
CONSTANTS
  Requests = {r1, r2}
  demo = demo
  anonymous = anonymous
  Operators = {demo, anonymous}
  Commands = {"start", "pause", "fly"}
  Policies <- PolicyFiles
  AuditFails = TRUE
  BackendDies = TRUE
INVARIANT PublishedWasAllowed
INVARIANT StatusTellsEffect
INVARIANT DecisionRecorded
INVARIANT AcceptedInOrder
PROPERTY EveryRequestAnswered
CHECK_DEADLOCK FALSE
