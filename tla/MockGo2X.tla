------------------------------ MODULE MockGo2X ------------------------------
(***************************************************************************)
(* The mock_go2x_driver node: the robot.  It obeys robot/command, has an   *)
(* emergency stop of its own, and integrates its pose at a 10 Hz timer     *)
(* while its mode is walking.  The pose itself is left out: travelled says *)
(* whether the last update changed it.                                     *)
(***************************************************************************)
EXTENDS Topics, Speeds

CONSTANTS
  DriverSpeed,   \* speed limit of a command that brings none (0.5 m/s)
  DriverYaw      \* the driver's own yaw limit (1.0 rad/s)

ASSUME DriverAssumption == DriverSpeed \in Nat \ {0} /\ DriverYaw \in Nat \ {0}

VARIABLES
  mode, robot_estop, linear, yaw, travelled

robot == <<mode, robot_estop, linear, yaw, travelled>>

Modes == {"standing", "walking", "sitting", "estop"}

Moving == mode = "walking" /\ (linear # 0 \/ yaw # 0)

DriverInbox == Channel("robot/command", "mock_go2x_driver")

DriverTopics == {"robot/state", "safety/events"}

DriverOutbox(states, events) ==
  [t \in DriverTopics |-> IF t = "robot/state" THEN states ELSE events]

DriverEvent(rule, msg, blocked) ==
  [source |-> "mock_go2x_driver", rule |-> rule, operator_id |-> msg.operator_id,
   command_blocked |-> blocked]

RobotState == [mode |-> mode, estop_active |-> robot_estop, linear |-> linear, yaw |-> yaw]

DriverInit ==
  /\ mode = "standing"
  /\ robot_estop = FALSE
  /\ linear = 0
  /\ yaw = 0
  /\ travelled = FALSE

StopMotion == linear' = 0 /\ yaw' = 0

\* Seeded fault: a robot stopped in emergency still obeys a walk.
RobotBlocksButWalks(msg) ==
  robot_estop /\ msg.command_type \notin {"clear_estop", "walk_velocity"}
RobotBlocks(msg) == robot_estop /\ msg.command_type # "clear_estop"

BlockedByRobot(msg, q) ==
  /\ RobotBlocks(msg)
  /\ queue' = Deliver(q, DriverOutbox(<< >>, <<DriverEvent("estop_active", msg, TRUE)>>))
  /\ UNCHANGED <<mode, robot_estop, linear, yaw>>

\* apply_velocity_command
Walk(msg, q) ==
  LET limit == IF IsAbove(msg.twist.max_speed, 0) THEN msg.twist.max_speed ELSE DriverSpeed
      scaled == IsAbove(msg.twist.linear, limit)
  IN
  /\ msg.command_type = "walk_velocity"
  /\ linear' = IF scaled THEN limit ELSE msg.twist.linear
  /\ yaw' = PyMax(PyMin(msg.twist.yaw, DriverYaw), -DriverYaw)
  /\ mode' = "walking"
  /\ queue' = Deliver(q, DriverOutbox(<< >>,
                IF scaled THEN <<DriverEvent("max_speed_limit", msg, FALSE)>> ELSE << >>))
  /\ UNCHANGED robot_estop

\* The robot stays in its mode: a walking robot walks with no speed.
Stop(msg, q) ==
  /\ msg.command_type = "stop"
  /\ StopMotion
  /\ queue' = q
  /\ UNCHANGED <<mode, robot_estop>>

\* The speeds are kept, and reported, though the robot no longer uses them.
Stand(msg, q) ==
  /\ msg.command_type = "stand"
  /\ mode' = "standing"
  /\ queue' = q
  /\ UNCHANGED <<robot_estop, linear, yaw>>

Sit(msg, q) ==
  /\ msg.command_type = "sit"
  /\ StopMotion
  /\ mode' = "sitting"
  /\ queue' = q
  /\ UNCHANGED robot_estop

\* Seeded fault: the emergency stop is latched and the speeds are kept.
EstopWithoutStop == UNCHANGED <<linear, yaw>>
EstopMotion == StopMotion

EmergencyStop(msg, q) ==
  /\ msg.command_type = "emergency_stop"
  /\ EstopMotion
  /\ robot_estop' = TRUE
  /\ mode' = "estop"
  /\ queue' = Deliver(q, DriverOutbox(<< >>, <<DriverEvent("manual_estop", msg, FALSE)>>))

ClearRobotEstop(msg, q) ==
  /\ msg.command_type = "clear_estop"
  /\ robot_estop' = FALSE
  /\ mode' = "standing"
  /\ queue' = q
  /\ UNCHANGED <<linear, yaw>>

RobotCommands ==
  {"walk_velocity", "stop", "stand", "sit", "emergency_stop", "clear_estop"}

UnknownCommand(msg, q) ==
  /\ msg.command_type \notin RobotCommands
  /\ queue' = Deliver(q, DriverOutbox(<< >>, <<DriverEvent("unknown_command", msg, TRUE)>>))
  /\ UNCHANGED <<mode, robot_estop, linear, yaw>>

\* handle_command
HandleCommand(msg, q) ==
  /\ UNCHANGED travelled
  /\ \/ BlockedByRobot(msg, q)
     \/ /\ ~RobotBlocks(msg)
        /\ \/ Walk(msg, q) \/ Stop(msg, q) \/ Stand(msg, q) \/ Sit(msg, q)
           \/ EmergencyStop(msg, q) \/ ClearRobotEstop(msg, q)
           \/ UnknownCommand(msg, q)

DriverStep ==
  /\ queue[DriverInbox] # << >>
  /\ HandleCommand(Head(queue[DriverInbox]), Taken(DriverInbox))

\* update_and_publish_state: the pose moves only while the robot walks.
UpdateAndPublishState ==
  /\ travelled' = Moving
  /\ queue' = Deliver(queue, DriverOutbox(<<RobotState>>, << >>))
  /\ UNCHANGED <<mode, robot_estop, linear, yaw>>
=============================================================================
