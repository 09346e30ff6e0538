---------------------------- MODULE SafetyManager ----------------------------
(***************************************************************************)
(* The safety_manager node: the gate between robot/command_request and     *)
(* robot/command.  It blocks what it does not know, blocks everything but  *)
(* clear_estop while its emergency stop is latched, and limits the speeds  *)
(* of the walks it forwards.                                               *)
(***************************************************************************)
EXTENDS Topics, Speeds

CONSTANTS
  AllowedCommands,   \* the allowed_commands parameter
  MaxLinear,         \* the max_linear_speed parameter
  MaxYaw             \* the max_yaw_rate parameter

ASSUME SafetyAssumption == MaxLinear \in Nat \ {0} /\ MaxYaw \in Nat \ {0}

VARIABLE
  estop_latched      \* estop_active of the safety manager

SafetyInbox == Channel("robot/command_request", "safety_manager")

SafetyTopics == {"robot/command", "safety/events"}

SafetyOutbox(commands, events) ==
  [t \in SafetyTopics |-> IF t = "robot/command" THEN commands ELSE events]

SafetyEvent(rule, msg, blocked) ==
  [source |-> "safety_manager", rule |-> rule, operator_id |-> msg.operator_id,
   command_blocked |-> blocked]

\* Seeded fault: a limit above the node's own is taken as it is.
SpeedLimitAsRequested(requested) ==
  IF requested # NaN /\ requested <= 0 THEN MaxLinear ELSE requested

\* resolve_speed_limit
SpeedLimit(requested) ==
  IF requested # NaN /\ requested <= 0 THEN MaxLinear ELSE PyMin(requested, MaxLinear)

\* enforce_velocity_limits: what it makes of a walk's speeds ...
Limited(twist) ==
  LET limit == SpeedLimit(twist.max_speed)
      clamped == PyMin(PyMax(twist.yaw, -MaxYaw), MaxYaw)
  IN [linear |-> IF IsAbove(twist.linear, limit) THEN limit ELSE twist.linear,
      yaw |-> IF IsAbove(Magnitude(twist.yaw), MaxYaw) THEN clamped ELSE twist.yaw,
      max_speed |-> limit]

\* ... and the events that say so.
LimitEvents(msg) ==
  (IF IsAbove(msg.twist.linear, SpeedLimit(msg.twist.max_speed))
   THEN <<SafetyEvent("max_linear_speed", msg, FALSE)>> ELSE << >>)
  \o
  (IF IsAbove(Magnitude(msg.twist.yaw), MaxYaw)
   THEN <<SafetyEvent("max_yaw_rate", msg, FALSE)>> ELSE << >>)

SafetyInit == estop_latched = FALSE

BlockUnknown(msg, q) ==
  /\ msg.command_type \notin AllowedCommands
  /\ queue' = Deliver(q, SafetyOutbox(<< >>, <<SafetyEvent("unknown_command", msg, TRUE)>>))
  /\ UNCHANGED estop_latched

\* Seeded fault: a walk is let through whatever the latch says.
GateClosedButToWalks(msg) ==
  estop_latched /\ msg.command_type \notin {"clear_estop", "walk_velocity"}

\* Even a stop, and a second emergency stop, are blocked.
GateClosed(msg) == estop_latched /\ msg.command_type # "clear_estop"

BlockUnderEstop(msg, q) ==
  /\ msg.command_type \in AllowedCommands
  /\ GateClosed(msg)
  /\ queue' = Deliver(q, SafetyOutbox(<< >>, <<SafetyEvent("estop_active", msg, TRUE)>>))
  /\ UNCHANGED estop_latched

LatchEstop(msg, q) ==
  /\ msg.command_type = "emergency_stop"
  /\ estop_latched' = TRUE
  /\ queue' = Deliver(q, SafetyOutbox(<<msg>>, <<SafetyEvent("manual_estop", msg, FALSE)>>))

\* Forwarded whether or not the emergency stop was latched.
ClearEstop(msg, q) ==
  /\ msg.command_type = "clear_estop"
  /\ estop_latched' = FALSE
  /\ queue' = Deliver(q, SafetyOutbox(<<msg>>, <<SafetyEvent("estop_cleared", msg, FALSE)>>))

ForwardWalk(msg, q) ==
  /\ msg.command_type = "walk_velocity"
  /\ queue' = Deliver(q, SafetyOutbox(<<[msg EXCEPT !.twist = Limited(@)]>>, LimitEvents(msg)))
  /\ UNCHANGED estop_latched

ForwardOther(msg, q) ==
  /\ msg.command_type \notin {"emergency_stop", "clear_estop", "walk_velocity"}
  /\ queue' = Deliver(q, SafetyOutbox(<<msg>>, << >>))
  /\ UNCHANGED estop_latched

\* handle_command_request
HandleCommandRequest(msg, q) ==
  \/ BlockUnknown(msg, q)
  \/ BlockUnderEstop(msg, q)
  \/ /\ msg.command_type \in AllowedCommands
     /\ ~GateClosed(msg)
     /\ \/ LatchEstop(msg, q)
        \/ ClearEstop(msg, q)
        \/ ForwardWalk(msg, q)
        \/ ForwardOther(msg, q)

SafetyStep ==
  /\ queue[SafetyInbox] # << >>
  /\ HandleCommandRequest(Head(queue[SafetyInbox]), Taken(SafetyInbox))
=============================================================================
