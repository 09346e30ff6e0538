------------------------- MODULE MotionControlProofs -------------------------
(***************************************************************************)
(* Missions in front of the motion path, for every mission, every set of   *)
(* operators, every depth of the queues and whoever else reads the topics: *)
(* what the path guarantees for any publisher holds with them, and a       *)
(* mission that no longer runs lets the robot come to rest.                *)
(***************************************************************************)
EXTENDS MotionControl, MissionManagerProofs

\* The proved pipeline, as MotionControl's Pipeline instantiates it.
Path == INSTANCE SafetyPipelineProofs
          WITH Channels <- PathChannels, Requests <- Requestable,
               queue <- [c \in PathChannels |-> queue[c]]

PathQueue == [c \in PathChannels |-> queue[c]]

\* The path's part of any queues.
Part(q) == [c \in PathChannels |-> q[c]]

-----------------------------------------------------------------------------
(* The assumptions of the pipeline hold.                                   *)

LEMMA RequestsTyped ==
  /\ Path!SafetyInbox \in PathChannels /\ Path!DriverInbox \in PathChannels
  /\ \A m \in Requestable :
       {"command_type", "twist"} \subseteq DOMAIN m /\ m.twist \in Path!Twists
<1>1. NoTwist \in Twists /\ Path!Twists = Twists
  BY DEF NoTwist, Twists, Speed, Path!Twists, Path!Speed
<1>2. \A i \in 0..(Len(Steps) - 1) : StepAt(i).target = "robot" => StepAt(i).twist \in Twists
  BY CommandAssumption, MissionAssumption DEF StepAt
<1>3. ASSUME NEW m \in Requestable
      PROVE  {"command_type", "twist"} \subseteq DOMAIN m /\ m.twist \in Path!Twists
  <2>1. CASE m \in DirectRequests
    BY <1>1, <2>1, CommandAssumption
  <2>2. ASSUME NEW op, NEW r, m = StopCommand(op, r)
        PROVE  {"command_type", "twist"} \subseteq DOMAIN m /\ m.twist \in Path!Twists
    BY <1>1, <2>2 DEF StopCommand, RobotCommand
  <2>3. ASSUME NEW i \in 0..(Len(Steps) - 1), StepAt(i).target = "robot", NEW op, NEW r,
               m = RobotCommand(StepAt(i).command_type, StepAt(i).twist, op, r)
        PROVE  {"command_type", "twist"} \subseteq DOMAIN m /\ m.twist \in Path!Twists
    BY <1>1, <1>2, <2>3 DEF RobotCommand
  <2> QED
    BY <1>3, <2>1, <2>2, <2>3 DEF Requestable
<1> QED
  BY <1>3 DEF PathChannels, SafetyInbox, DriverInbox, Path!SafetyInbox, Path!DriverInbox,
              Channel, Path!Channel

LEMMA PathAssumed ==
  /\ Depth \in Nat \ {0} /\ NaN \notin Int
  /\ MaxLinear \in Nat \ {0} /\ MaxYaw \in Nat \ {0}
  /\ DriverSpeed \in Nat \ {0} /\ DriverYaw \in Nat \ {0}
BY DepthAssumption, NaNAssumption, SafetyAssumption, DriverAssumption

LEMMA Inboxes ==
  /\ Path!SafetyInbox = SafetyInbox /\ Path!DriverInbox = DriverInbox
  /\ SafetyInbox \in PathChannels /\ DriverInbox \in PathChannels
  /\ SafetyInbox.topic = "robot/command_request" /\ DriverInbox.topic = "robot/command"
BY DEF PathChannels, SafetyInbox, DriverInbox, Path!SafetyInbox, Path!DriverInbox,
       Channel, Path!Channel

-----------------------------------------------------------------------------
(* Every step, seen from the path.                                         *)

LEMMA PartDelivered ==
  ASSUME NEW q, NEW out
  PROVE  Part(Deliver(q, out)) = Path!Deliver(Part(q), out)
BY MotionAssumption DEF Part, Deliver, Path!Deliver, KeepLast, Path!KeepLast

LEMMA PartSent ==
  ASSUME NEW q
  PROVE  /\ \A out : queue' = Deliver(q, out) => PathQueue' = Path!Deliver(Part(q), out)
         /\ queue' = q => PathQueue' = Part(q)
<1>1. PathQueue' = Part(queue')
  BY DEF PathQueue, Part
<1> QED
  BY <1>1, PartDelivered

LEMMA PartTaken ==
  ASSUME NEW c \in PathChannels, DOMAIN queue = Channels
  PROVE  Part(Taken(c)) = Path!Taken(c)
BY MotionAssumption DEF Part, Taken, Path!Taken

\* The two gates compute the same limits and the same outboxes.
LEMMA GatesAgree ==
  ASSUME NEW msg
  PROVE  /\ \A commands, events :
              Path!SafetyOutbox(commands, events) = SafetyOutbox(commands, events)
         /\ Path!Limited(msg.twist) = Limited(msg.twist)
         /\ Path!LimitEvents(msg) = LimitEvents(msg)
         /\ Path!GateClosed(msg) <=> GateClosed(msg)
<1>1. \A a, b : /\ Path!PyMin(a, b) = PyMin(a, b) /\ Path!PyMax(a, b) = PyMax(a, b)
                /\ Path!IsAbove(a, b) <=> IsAbove(a, b)
                /\ Path!Magnitude(a) = Magnitude(a) /\ Path!SpeedLimit(a) = SpeedLimit(a)
  BY DEF Path!PyMin, PyMin, Path!PyMax, PyMax, Path!IsAbove, IsAbove, Path!Magnitude,
         Magnitude, Path!SpeedLimit, SpeedLimit
<1>2. Path!Limited(msg.twist) = Limited(msg.twist)
  BY <1>1 DEF Path!Limited, Limited
<1>3. Path!LimitEvents(msg) = LimitEvents(msg)
  BY <1>1 DEF Path!LimitEvents, LimitEvents, Path!SafetyEvent, SafetyEvent
<1> QED
  BY <1>2, <1>3 DEF Path!SafetyOutbox, SafetyOutbox, Path!SafetyTopics, SafetyTopics,
                          Path!GateClosed, GateClosed

LEMMA GateOnPath ==
  ASSUME DOMAIN queue = Channels, Gate
  PROVE  Path!Gate
<1> DEFINE msg == Head(queue[SafetyInbox])
           q == Taken(SafetyInbox)
           pmsg == Head([c \in PathChannels |-> queue[c]][Path!SafetyInbox])
           pq == Path!Taken(Path!SafetyInbox)
<1>1. queue[SafetyInbox] # << >> /\ HandleCommandRequest(msg, q) /\ UNCHANGED robot
  BY DEF Gate, SafetyStep
<1>2. Part(q) = pq
  BY PartTaken, Inboxes
<1>3. \A out : queue' = Deliver(q, out) => PathQueue' = Path!Deliver(pq, out)
  BY <1>2, PartSent
<1>4. pmsg = msg /\ PathQueue[Path!SafetyInbox] = queue[SafetyInbox]
  BY Inboxes DEF PathQueue
<1> HIDE DEF msg, pmsg, q, pq
<1> USE GatesAgree, <1>3, <1>4 DEF PathQueue, SafetyEvent, Path!SafetyEvent
<1>5. BlockUnknown(msg, q) => Path!BlockUnknown(pmsg, pq)
  BY DEF BlockUnknown, Path!BlockUnknown
<1>6. BlockUnderEstop(msg, q) => Path!BlockUnderEstop(pmsg, pq)
  BY DEF BlockUnderEstop, Path!BlockUnderEstop
<1>7. LatchEstop(msg, q) => Path!LatchEstop(pmsg, pq)
  BY DEF LatchEstop, Path!LatchEstop
<1>8. ClearEstop(msg, q) => Path!ClearEstop(pmsg, pq)
  BY DEF ClearEstop, Path!ClearEstop
<1>9. ForwardWalk(msg, q) => Path!ForwardWalk(pmsg, pq)
  BY DEF ForwardWalk, Path!ForwardWalk
<1>10. ForwardOther(msg, q) => Path!ForwardOther(pmsg, pq)
  BY DEF ForwardOther, Path!ForwardOther
<1>11. Path!HandleCommandRequest(pmsg, pq)
  BY ONLY <1>1, <1>4, <1>5, <1>6, <1>7, <1>8, <1>9, <1>10, GatesAgree
     DEF HandleCommandRequest, Path!HandleCommandRequest
<1>12. Path!SafetyStep
  BY ONLY <1>1, <1>4, <1>11 DEF Path!SafetyStep, PathQueue, pmsg, pq
<1> QED
  BY <1>1, <1>12 DEF Path!Gate, Path!robot, robot

\* So do the two drivers.
LEMMA DriversAgree ==
  ASSUME NEW msg
  PROVE  /\ \A states, events :
              Path!DriverOutbox(states, events) = DriverOutbox(states, events)
         /\ Path!RobotBlocks(msg) <=> RobotBlocks(msg)
         /\ \A a, b : /\ Path!PyMin(a, b) = PyMin(a, b) /\ Path!PyMax(a, b) = PyMax(a, b)
                      /\ Path!IsAbove(a, b) <=> IsAbove(a, b)
BY DEF Path!PyMin, PyMin, Path!PyMax, PyMax, Path!IsAbove, IsAbove, Path!DriverOutbox,
       DriverOutbox, Path!DriverTopics, DriverTopics,
       Path!RobotBlocks, RobotBlocks

LEMMA DriveOnPath ==
  ASSUME DOMAIN queue = Channels, Drive
  PROVE  Path!Drive
<1> DEFINE msg == Head(queue[DriverInbox])
           q == Taken(DriverInbox)
           pmsg == Head([c \in PathChannels |-> queue[c]][Path!DriverInbox])
           pq == Path!Taken(Path!DriverInbox)
<1>1. queue[DriverInbox] # << >> /\ HandleCommand(msg, q) /\ UNCHANGED estop_latched
  BY DEF Drive, DriverStep
<1>2. Part(q) = pq
  BY PartTaken, Inboxes
<1>3. /\ \A out : queue' = Deliver(q, out) => PathQueue' = Path!Deliver(pq, out)
      /\ queue' = q => PathQueue' = pq
  BY <1>2, PartSent
<1>4. pmsg = msg /\ PathQueue[Path!DriverInbox] = queue[DriverInbox]
  BY Inboxes DEF PathQueue
<1> HIDE DEF msg, pmsg, q, pq
<1> USE DriversAgree, <1>3, <1>4 DEF PathQueue, DriverEvent, Path!DriverEvent
<1>5. BlockedByRobot(msg, q) => Path!BlockedByRobot(pmsg, pq)
  BY DEF BlockedByRobot, Path!BlockedByRobot
<1>6. ASSUME Walk(msg, q) PROVE Path!Walk(pmsg, pq)
  <2> DEFINE limit == IF IsAbove(msg.twist.max_speed, 0) THEN msg.twist.max_speed
                      ELSE DriverSpeed
             scaled == IsAbove(msg.twist.linear, limit)
             events == IF scaled THEN <<DriverEvent("max_speed_limit", msg, FALSE)>> ELSE << >>
  <2>1. /\ msg.command_type = "walk_velocity" /\ mode' = "walking" /\ UNCHANGED robot_estop
        /\ linear' = IF scaled THEN limit ELSE msg.twist.linear
        /\ yaw' = PyMax(PyMin(msg.twist.yaw, DriverYaw), -DriverYaw)
        /\ queue' = Deliver(q, DriverOutbox(<< >>, events))
    BY <1>6 DEF Walk
  <2>2. PathQueue' = Path!Deliver(pq, DriverOutbox(<< >>, events))
    BY <2>1
  <2> HIDE DEF events
  <2>3. PathQueue' = Path!Deliver(pq, Path!DriverOutbox(<< >>, events))
    BY <2>2
  <2> USE DEF events
  <2> QED
    BY ONLY <1>4, <2>1, <2>3, DriversAgree
       DEF Path!Walk, Path!DriverEvent, DriverEvent, PathQueue
<1>7. Stop(msg, q) => Path!Stop(pmsg, pq)
  BY DEF Stop, StopMotion, Path!Stop, Path!StopMotion
<1>8. Stand(msg, q) => Path!Stand(pmsg, pq)
  BY DEF Stand, Path!Stand
<1>9. Sit(msg, q) => Path!Sit(pmsg, pq)
  BY DEF Sit, StopMotion, Path!Sit, Path!StopMotion
<1>10. EmergencyStop(msg, q) => Path!EmergencyStop(pmsg, pq)
  BY DEF EmergencyStop, EstopMotion, StopMotion, Path!EmergencyStop, Path!EstopMotion,
         Path!StopMotion
<1>11. ClearRobotEstop(msg, q) => Path!ClearRobotEstop(pmsg, pq)
  BY DEF ClearRobotEstop, Path!ClearRobotEstop
<1>12. ASSUME UnknownCommand(msg, q) PROVE Path!UnknownCommand(pmsg, pq)
  <2> DEFINE events == <<DriverEvent("unknown_command", msg, TRUE)>>
  <2>1. PathQueue' = Path!Deliver(pq, DriverOutbox(<< >>, events))
    BY <1>12 DEF UnknownCommand
  <2> HIDE DEF events
  <2>2. PathQueue' = Path!Deliver(pq, Path!DriverOutbox(<< >>, events))
    BY <2>1
  <2>3. pmsg.command_type \notin Path!RobotCommands
        /\ UNCHANGED <<mode, robot_estop, linear, yaw>>
    BY <1>12 DEF UnknownCommand, RobotCommands, Path!RobotCommands
  <2> USE DEF events
  <2> QED
    BY ONLY <1>4, <2>2, <2>3
       DEF Path!UnknownCommand, Path!DriverEvent, DriverEvent, PathQueue
<1>13. Path!HandleCommand(pmsg, pq)
  BY ONLY <1>1, <1>4, <1>5, <1>6, <1>7, <1>8, <1>9, <1>10, <1>11, <1>12, DriversAgree
     DEF HandleCommand, Path!HandleCommand
<1>14. Path!DriverStep
  BY ONLY <1>1, <1>4, <1>13 DEF Path!DriverStep, PathQueue, pmsg, pq
<1> QED
  BY <1>1, <1>14 DEF Path!Drive

\* What the path sees of a handler that asks nothing of the robot, and of one
\* that asks for m.
PathStays == PathQueue' = PathQueue

PathAsked(m) ==
  PathQueue' = Path!Deliver(PathQueue, [t \in {"robot/command_request"} |-> <<m>>])

LEMMA RequestOnPath ==
  ASSUME NEW m \in DirectRequests, DirectRequest(m)
  PROVE  m \in Requestable /\ PathAsked(m) /\ UNCHANGED <<estop_latched, robot>>
<1>1. PathAsked(m)
  BY PartDelivered DEF DirectRequest, PathAsked, PathQueue, Part
<1> QED
  BY <1>1 DEF DirectRequest, Requestable

\* A mission handler's messages on the other topics do not reach the path.
Asked(t) ==
  \E states, events, payload : queue' = Deliver(queue, Outbox(states, events, t, payload))

LEMMA AskedOnPath ==
  ASSUME Path!TypeOK, NEW t, Asked(t)
  PROVE  /\ DOMAIN queue' = Channels
         /\ t = << >> => PathStays
         /\ \A m : t = <<m>> => PathAsked(m)
<1>1. PICK states, events, payload : queue' = Deliver(queue, Outbox(states, events, t, payload))
  BY DEF Asked
<1>2. DOMAIN queue' = Channels
  BY <1>1 DEF Deliver
<1>3. /\ queue'[SafetyInbox] = KeepLast(queue[SafetyInbox] \o t)
      /\ queue'[DriverInbox] = queue[DriverInbox]
  BY <1>1, Inboxes, MotionAssumption DEF Deliver, Outbox, MissionTopics
<1>4. ASSUME t = << >> PROVE PathStays
  <2>1. queue[SafetyInbox] \in Seq(Requestable) /\ Len(queue[SafetyInbox]) <= Depth
    BY Inboxes DEF Path!TypeOK
  <2>2. queue'[SafetyInbox] = queue[SafetyInbox]
    BY <1>3, <1>4, <2>1, DeliverNothing
  <2> QED
    BY <1>3, <2>2 DEF PathStays, PathQueue, PathChannels
<1>5. ASSUME NEW m, t = <<m>> PROVE PathAsked(m)
  BY <1>3, <1>5, Inboxes
     DEF PathAsked, PathQueue, PathChannels, Path!Deliver, KeepLast, Path!KeepLast
<1> QED
  BY <1>2, <1>4, <1>5

-----------------------------------------------------------------------------
(* What a mission asks of the robot.                                       *)

\* The last motion command of the steps up to n leaves the robot at rest, and
\* the gate lets it pass.
LastMotionRests(n) ==
  \A i \in 0..n :
    StepAt(i).target = "robot" /\ (\A j \in (i + 1)..n : StepAt(j).target # "robot")
      => StepAt(i).command_type \in Path!Resting \cap AllowedCommands

\* A mission that ends at rest, behind a gate that lets a stop pass.
EndsAtRest == "stop" \in AllowedCommands /\ LastMotionRests(Len(Steps) - 1)

\* The mission has no motion under way.
AtRest == ~Running \/ LastMotionRests(current_step_index)

\* A handler asks nothing of the robot, or for one command; if it leaves the
\* mission without a motion under way, it had none or asks for rest.
PathMoved ==
  \/ PathStays /\ (EndsAtRest /\ AtRest' => AtRest)
  \/ \E m \in Requestable :
       /\ PathAsked(m)
       /\ EndsAtRest /\ AtRest' => m.command_type \in Path!Resting \cap AllowedCommands

LEMMA LastMotion ==
  ASSUME NEW i \in 0..(Len(Steps) - 1)
  PROVE  /\ StepAt(i).target = "robot" /\ LastMotionRests(i)
              => StepAt(i).command_type \in Path!Resting \cap AllowedCommands
         /\ StepAt(i).target # "robot" /\ LastMotionRests(i) => LastMotionRests(i - 1)
<1>1. i \in Nat
  BY MissionAssumption
<1>2. ASSUME StepAt(i).target = "robot", LastMotionRests(i)
      PROVE  StepAt(i).command_type \in Path!Resting \cap AllowedCommands
  BY <1>1, <1>2 DEF LastMotionRests
<1>3. ASSUME StepAt(i).target # "robot", LastMotionRests(i) PROVE LastMotionRests(i - 1)
  BY <1>1, <1>3 DEF LastMotionRests
<1> QED
  BY <1>2, <1>3

LEMMA StepAsks ==
  ASSUME Path!TypeOK, NEW i \in 0..(Len(Steps) - 1), NEW op \in Operators,
         NEW r \in 0..(RunIds - 1), Asked(StepRobot(i, op, r))
  PROVE  \/ StepAt(i).target # "robot" /\ PathStays
         \/ /\ StepAt(i).target = "robot"
            /\ \E m \in Requestable : PathAsked(m) /\ m.command_type = StepAt(i).command_type
<1> DEFINE m == RobotCommand(StepAt(i).command_type, StepAt(i).twist, op, r)
<1>1. CASE StepAt(i).target # "robot"
  BY <1>1, AskedOnPath DEF StepRobot
<1>2. CASE StepAt(i).target = "robot"
  <2>1. m \in Requestable /\ m.command_type = StepAt(i).command_type
    BY <1>2 DEF Requestable, RobotCommand
  <2>2. StepRobot(i, op, r) = <<m>>
    BY <1>2 DEF StepRobot
  <2> HIDE DEF m
  <2> QED
    BY <1>2, <2>1, <2>2, AskedOnPath
<1> QED
  BY <1>1, <1>2

LEMMA StopAsks ==
  ASSUME Path!TypeOK, NEW op \in Operators, NEW r \in 0..(RunIds - 1),
         Asked(<<StopCommand(op, r)>>)
  PROVE  PathMoved
<1>1. StopCommand(op, r) \in Requestable /\ StopCommand(op, r).command_type = "stop"
  BY DEF Requestable, StopCommand, RobotCommand
<1>2. PathAsked(StopCommand(op, r))
  BY AskedOnPath
<1> QED
  BY <1>1, <1>2 DEF PathMoved, EndsAtRest, Path!Resting

RunOK == run \in 0..(RunIds - 1)

LEMMA BeginOnPath ==
  ASSUME Path!TypeOK, RunOK, NEW op \in Operators, BeginMission(op, queue)
  PROVE  PathMoved
<1>1. 0 \in 0..(Len(Steps) - 1) /\ run' \in 0..(RunIds - 1)
  BY MissionAssumption, BeginEffect DEF RunOK
<1>2. Asked(StepRobot(0, op, run'))
  BY DEF BeginMission, StepOutbox, Asked
<1>3. AtRest /\ (AtRest' => LastMotionRests(0))
  BY BeginEffect DEF AtRest, MayBegin, Running, Stopped, LastMotionRests
<1> HIDE DEF RunOK
<1>4. \/ StepAt(0).target # "robot" /\ PathStays
      \/ /\ StepAt(0).target = "robot"
         /\ \E m \in Requestable : PathAsked(m) /\ m.command_type = StepAt(0).command_type
  BY <1>1, <1>2, StepAsks
<1> QED
  BY <1>1, <1>3, <1>4, LastMotion DEF PathMoved

LEMMA ResumeOnPath ==
  ASSUME Path!TypeOK, FlowOK, RunOK, NEW op \in Operators, ResumeMission(op, queue)
  PROVE  PathMoved
<1> DEFINE i == current_step_index
<1>1. i \in 0..(Len(Steps) - 1) /\ run \in 0..(RunIds - 1)
  BY ResumeEffect DEF FlowOK, Stopped, HasStep, RunOK
<1>2. Asked(StepRobot(i, op, run))
  BY <1>1 DEF ResumeMission, StepOutbox, HasStep, Asked
<1>3. AtRest /\ (AtRest' => LastMotionRests(i))
  BY ResumeEffect DEF AtRest, Running, Stopped, FlowOK, LastMotionRests
<1>4. \/ StepAt(i).target # "robot" /\ PathStays
      \/ /\ StepAt(i).target = "robot"
         /\ \E m \in Requestable : PathAsked(m) /\ m.command_type = StepAt(i).command_type
  BY <1>1, <1>2, StepAsks
<1> HIDE DEF i
<1> QED
  BY <1>1, <1>3, <1>4, LastMotion DEF PathMoved

LEMMA AdvanceOnPath ==
  ASSUME Path!TypeOK, FlowOK, RunOK, current_operator_id \in Operators,
         current_step_index \in Int, Running, AdvanceStep(queue)
  PROVE  PathMoved
<1> DEFINE i == current_step_index + 1
<1>1. current_step_index \in 0..(Len(Steps) - 1) /\ Len(Steps) \in Nat
  BY MissionAssumption DEF Running, Stopped, FlowOK, HasStep
<1>2. CASE NextStep(queue)
  <2>1. i \in 0..(Len(Steps) - 1) /\ i - 1 = current_step_index
    BY <1>1, <1>2, NextStepEffect
  <2>2. Asked(StepRobot(i, current_operator_id, run))
    BY <1>2 DEF NextStep, StepOutbox, Asked
  <2>3. Running' /\ (AtRest' => LastMotionRests(i))
    BY <1>2, NextStepEffect DEF AtRest, Running, Stopped, FlagsKept, LastMotionRests
  <2>4. AtRest <=> LastMotionRests(i - 1)
    BY <2>1 DEF AtRest
  <2>5. \/ StepAt(i).target # "robot" /\ PathStays
        \/ /\ StepAt(i).target = "robot"
           /\ \E m \in Requestable : PathAsked(m) /\ m.command_type = StepAt(i).command_type
    BY <2>1, <2>2, StepAsks DEF RunOK
  <2> HIDE DEF i
  <2> QED
    BY <2>1, <2>3, <2>4, <2>5, LastMotion DEF PathMoved
<1>3. CASE CompleteMission(queue)
  <2>1. current_step_index = Len(Steps) - 1
    BY <1>1, <1>3, CompleteEffect
  <2>2. Asked(<< >>)
    BY <1>3 DEF CompleteMission, Asked
  <2>3. EndsAtRest => AtRest
    BY <2>1 DEF EndsAtRest, AtRest
  <2> QED
    BY <2>2, <2>3, AskedOnPath DEF PathMoved
<1> QED
  BY <1>2, <1>3 DEF AdvanceStep

LEMMA HaltOnPath ==
  ASSUME Path!TypeOK, RunOK, NEW op \in Operators,
         PauseMission(op, queue) \/ CancelMission(op, queue) \/ ResetMission(op, queue)
  PROVE  PathMoved
<1>1. CASE Asked(<<StopCommand(op, run)>>)
  BY <1>1, StopAsks DEF RunOK
<1>2. CASE PauseMission(op, queue) \/ CancelMission(op, queue)
  BY <1>1, <1>2 DEF PauseMission, CancelMission, CancelOutbox, Asked
<1>3. CASE ResetMission(op, queue) /\ mission_started /\ ~Stopped
  BY <1>1, <1>3 DEF ResetMission, ResetOutbox, Asked
<1>4. CASE ResetMission(op, queue) /\ ~(mission_started /\ ~Stopped)
  <2>1. Asked(<< >>)
    BY <1>4 DEF ResetMission, ResetOutbox, Asked
  <2>2. AtRest
    BY <1>4 DEF AtRest, Running
  <2> QED
    BY <2>1, <2>2, AskedOnPath DEF PathMoved
<1> QED
  BY <1>2, <1>3, <1>4

LEMMA SilentOnPath ==
  ASSUME Path!TypeOK, Unmoved, queue' = queue \/ Asked(<< >>)
  PROVE  PathMoved
<1>1. PathStays
  BY AskedOnPath DEF PathStays, PathQueue
<1>2. AtRest' => AtRest
  BY DEF Unmoved, flags, AtRest, Running, Stopped, LastMotionRests
<1> QED
  BY <1>1, <1>2 DEF PathMoved

\* The two ways the mission manager moves.
LEMMA ManagerOnPath ==
  ASSUME Path!TypeOK, MissionInv, RunOK, DOMAIN queue = Channels,
         (\E msg \in MissionCommands : Obey(msg)) \/ Advance
  PROVE  /\ PathMoved /\ UNCHANGED <<estop_latched, robot>>
         /\ MissionNext /\ RunOK' /\ DOMAIN queue' = Channels
<1>1. /\ FlowOK /\ current_operator_id \in Operators /\ current_step_index \in Int
      /\ MissionTypeOK
  BY MissionAssumption DEF MissionInv, MissionTypeOK
<1>2. MissionNext /\ UNCHANGED <<estop_latched, robot>>
  BY DEF Obey, Advance, MissionNext, Command, TimerTick
<1>3. RunOK'
  <2>1. ~ClockTick \/ run' = run
    BY ClockEffect
  <2>2. (run + 1) % RunIds \in 0..(RunIds - 1)
    BY MissionAssumption DEF RunOK
  <2>3. run' = run \/ run' = (run + 1) % RunIds
    BY <1>1, <1>2, <2>1, StepCases, UnmovedEffect, BeginEffect, PauseEffect, ResumeEffect,
       CancelEffect, ResetEffect, NextStepEffect, CompleteEffect DEF HandlerStep, AdvanceStep
  <2> QED
    BY <2>2, <2>3 DEF RunOK
<1>4. ASSUME NEW msg \in MissionCommands, Obey(msg) PROVE PathMoved /\ DOMAIN queue' = Channels
  <2> DEFINE op == msg.operator_id
  <2>1. op \in Operators
    BY DEF MissionCommands
  <2>2. CASE NoEffect(queue) \/ IgnoreStart(op, queue) \/ RejectCommand(op, queue)
    <3>1. Unmoved /\ (queue' = queue \/ Asked(<< >>))
      BY <2>2 DEF NoEffect, IgnoreStart, RejectCommand, Unmoved, Asked
    <3> QED
      BY <3>1, SilentOnPath DEF Asked, Deliver
  <2>3. CASE BeginMission(op, queue)
    BY <2>1, <2>3, BeginOnPath DEF BeginMission, Deliver
  <2>4. CASE PauseMission(op, queue) \/ CancelMission(op, queue) \/ ResetMission(op, queue)
    BY <2>1, <2>4, HaltOnPath DEF PauseMission, CancelMission, ResetMission, Deliver
  <2>5. CASE ResumeMission(op, queue)
    BY <1>1, <2>1, <2>5, ResumeOnPath DEF ResumeMission, Deliver
  <2> QED
    BY <1>4, <2>2, <2>3, <2>4, <2>5 DEF Obey, HandleMissionCommand
<1>5. ASSUME Advance PROVE PathMoved /\ DOMAIN queue' = Channels
  <2>1. CASE AutoStartMission(queue)
    <3>1. PathMoved
      BY <1>1, <2>1, BeginOnPath DEF AutoStartMission
    <3>2. DOMAIN queue' = Channels
      BY <2>1 DEF AutoStartMission, BeginMission, Deliver
    <3> QED
      BY <3>1, <3>2
  <2>2. CASE AdvanceStep(queue)
    <3>1. Running
      BY <1>5, <2>2 DEF Advance, Tick, AdvanceStep, Running
    <3>2. PathMoved
      BY <1>1, <2>2, <3>1, AdvanceOnPath
    <3>3. DOMAIN queue' = Channels
      BY <2>2 DEF AdvanceStep, NextStep, CompleteMission, Deliver
    <3> QED
      BY <3>2, <3>3
  <2> QED
    BY <1>5, <2>1, <2>2 DEF Advance, Tick
<1> QED
  BY <1>2, <1>3, <1>4, <1>5

-----------------------------------------------------------------------------
(* The invariant: the mission's own, the path's own, and what the mission  *)
(* without a motion under way owes to the robot.                           *)

\* The mission's flow and the path's invariant.
MotionInv ==
  /\ MissionInv /\ RunOK
  /\ DOMAIN queue = Channels
  /\ Path!PipelineInv

\* Direct requests that leave the robot at rest, and pass the gate.
DirectAtRest ==
  \A m \in DirectRequests : m.command_type \in Path!Resting \cap AllowedCommands

RestInv == AtRest => Path!Rested

LEMMA InitMotion ==
  ASSUME Init
  PROVE  Path!Init /\ MotionInv /\ RestInv
<1>1. Path!Init
  BY MotionAssumption
     DEF Init, SafetyInit, DriverInit, NoMessages, Path!Init, Path!SafetyInit,
         Path!DriverInit, Path!NoMessages
<1>2. Path!PipelineInv
  BY <1>1, Path!PipelineInit, PathAssumed, RequestsTyped
<1>3. MissionInv
  BY InitInv DEF Init
<1> RunOK
  BY MissionAssumption DEF Init, MissionInit, RunOK
<1>4. DOMAIN queue = Channels
  BY DEF Init, NoMessages
<1>5. Path!Rested
  <2>1. queue[SafetyInbox] = << >> /\ queue[DriverInbox] = << >>
    BY Inboxes, MotionAssumption DEF Init, NoMessages
  <2>2. ~Path!Moving
    BY DEF Init, DriverInit, Path!Moving
  <2> QED
    BY <2>1, <2>2, Inboxes DEF Path!Rested
<1> QED
  BY <1>1, <1>2, <1>3, <1>4, <1>5 DEF MotionInv, RestInv

\* Every step is one of the path, as a publisher may take it, or none.
LEMMA StepOnPath ==
  ASSUME MotionInv, [Next]_vars
  PROVE  [Path!Next]_(Path!vars)
<1>1. ASSUME PathStays, UNCHANGED <<estop_latched, robot>> PROVE UNCHANGED Path!vars
  BY <1>1 DEF PathStays, PathQueue, robot, Path!vars, Path!robot
<1>2. ASSUME NEW m \in Requestable, PathAsked(m), UNCHANGED <<estop_latched, robot>>
      PROVE  Path!Next
  BY <1>2 DEF PathAsked, PathQueue, robot, Path!Next, Path!Request, Path!robot
<1>3. CASE (\E msg \in MissionCommands : Obey(msg)) \/ Advance
  BY <1>1, <1>2, <1>3, ManagerOnPath DEF MotionInv, Path!PipelineInv, PathMoved
<1>4. ASSUME NEW m \in DirectRequests, DirectRequest(m) PROVE Path!Next
  BY <1>2, <1>4, RequestOnPath
<1>5. CASE Gate
  BY <1>5, GateOnPath DEF MotionInv, Path!Next
<1>6. CASE Drive
  BY <1>6, DriveOnPath DEF MotionInv, Path!Next
<1>7. CASE Crash \/ UNCHANGED vars
  BY <1>1, <1>7 DEF Crash, vars, PathStays, PathQueue
<1> QED
  BY <1>3, <1>4, <1>5, <1>6, <1>7 DEF Next

LEMMA MotionStep ==
  ASSUME MotionInv, [Next]_vars
  PROVE  MotionInv'
<1>1. Path!PipelineInv'
  BY StepOnPath, Path!PipelineStep, PathAssumed, RequestsTyped DEF MotionInv
<1>2. CASE (\E msg \in MissionCommands : Obey(msg)) \/ Advance
  <2>1. MissionNext /\ RunOK' /\ DOMAIN queue' = Channels
    BY <1>2, ManagerOnPath DEF MotionInv, Path!PipelineInv
  <2> QED
    BY <1>1, <2>1, InvStep DEF MotionInv
<1>3. ASSUME UNCHANGED <<manager, now>> PROVE MissionInv' /\ RunOK'
  BY <1>3
     DEF manager, flags, MotionInv, MissionInv, MissionTypeOK, FlowOK, HasStep, PausesPast,
         StepClock, Running, Stopped, RunOK
<1>4. CASE (\E m \in DirectRequests : DirectRequest(m)) \/ Gate \/ Drive
  <2>1. UNCHANGED <<manager, now>>
    BY <1>4 DEF DirectRequest, Gate, Drive
  <2>2. DOMAIN queue' = Channels
    <3>1. \A q, out : DOMAIN Deliver(q, out) = Channels
      BY DEF Deliver
    <3>2. \A c : DOMAIN Taken(c) = Channels
      BY DEF Taken, MotionInv
    <3> QED
      BY <1>4, <3>1, <3>2
         DEF DirectRequest, Gate, SafetyStep, HandleCommandRequest, BlockUnknown,
             BlockUnderEstop, LatchEstop, ClearEstop, ForwardWalk, ForwardOther, Drive,
             DriverStep, HandleCommand, BlockedByRobot, Walk, Stop, Stand, Sit,
             EmergencyStop, ClearRobotEstop, UnknownCommand
  <2> QED
    BY <1>1, <1>3, <2>1, <2>2 DEF MotionInv
<1>5. CASE Crash
  BY <1>1, <1>5
     DEF Crash, flags, MotionInv, MissionInv, MissionTypeOK, FlowOK, HasStep, PausesPast,
         StepClock, Running, Stopped, RunOK
<1>6. CASE UNCHANGED vars
  BY <1>1, <1>3, <1>6 DEF vars, MotionInv
<1> QED
  BY <1>2, <1>4, <1>5, <1>6 DEF Next

LEMMA RestStep ==
  ASSUME EndsAtRest, DirectAtRest, MotionInv, RestInv, [Next]_vars
  PROVE  RestInv'
<1>1. Path!TypeOK /\ Path!EstopGate /\ Path!EstopHolds
  BY DEF MotionInv, Path!PipelineInv
<1>2. ASSUME NEW m \in Requestable, PathAsked(m), UNCHANGED <<estop_latched, robot>>,
             m.command_type \in Path!Resting \cap AllowedCommands
      PROVE  Path!Rested'
  <2>1. Path!Request(m)
    BY <1>2 DEF PathAsked, PathQueue, robot, Path!Request, Path!robot
  <2> QED
    BY <1>1, <1>2, <2>1, Path!RestAtRequest, PathAssumed, RequestsTyped
<1>3. ASSUME PathStays, UNCHANGED robot, Path!Rested PROVE Path!Rested'
  BY <1>3, Inboxes DEF PathStays, PathQueue, robot, Path!Rested, Path!EndsIn, Path!Moving
<1>4. CASE (\E msg \in MissionCommands : Obey(msg)) \/ Advance
  <2>1. PathMoved /\ UNCHANGED <<estop_latched, robot>>
    BY <1>1, <1>4, ManagerOnPath DEF MotionInv
  <2>2. AtRest' => Path!Rested'
    BY <1>2, <1>3, <2>1 DEF PathMoved, RestInv
  <2> QED
    BY <2>2 DEF RestInv
<1>5. ASSUME UNCHANGED manager PROVE AtRest' => AtRest
  BY <1>5 DEF manager, flags, AtRest, Running, Stopped, LastMotionRests
<1>6. ASSUME NEW m \in DirectRequests, DirectRequest(m) PROVE Path!Rested'
  BY <1>2, <1>6, RequestOnPath DEF DirectAtRest
<1>7. CASE Gate
  <2>1. Path!Rested => Path!Rested'
    BY <1>1, <1>7, GateOnPath, Path!RestAtGate, PathAssumed, RequestsTyped DEF MotionInv
  <2> QED
    BY <1>5, <1>7, <2>1 DEF Gate, RestInv
<1>8. CASE Drive
  <2>1. Path!Rested => Path!Rested'
    BY <1>1, <1>8, DriveOnPath, Path!RestAtDriver, PathAssumed, RequestsTyped DEF MotionInv
  <2> QED
    BY <1>5, <1>8, <2>1 DEF Drive, RestInv
<1>9. CASE Crash \/ UNCHANGED vars
  <2>1. PathStays /\ UNCHANGED robot /\ (AtRest' => AtRest)
    BY <1>5, <1>9
       DEF Crash, vars, PathStays, PathQueue, flags, AtRest, Running, Stopped, LastMotionRests
  <2> QED
    BY <1>3, <2>1 DEF RestInv
<1> QED
  BY <1>4, <1>6, <1>7, <1>8, <1>9 DEF Next, RestInv

LEMMA RestedHalts ==
  ASSUME MotionInv, RestInv
  PROVE  HaltPending
<1> DEFINE s == queue[SafetyInbox]
           d == queue[DriverInbox]
           M == Path!Forwardable
<1>1. s \in Seq(M) /\ d \in Seq(M)
  BY Inboxes DEF MotionInv, Path!PipelineInv, Path!TypeOK, Path!Forwardable
<1>2. /\ Len(s) \in Nat /\ Len(d) \in Nat
      /\ s = << >> <=> Len(s) = 0
      /\ d = << >> <=> Len(d) = 0
  BY <1>1, LenProperties, EmptySeq
<1>3. InFlight = d \o s
  BY DEF InFlight
<1> HIDE DEF s, d, M
<1>4. /\ Len(InFlight) = Len(d) + Len(s)
      /\ InFlight = << >> => d = << >> /\ s = << >>
      /\ s # << >> => InFlight[Len(InFlight)] = s[Len(s)]
      /\ s = << >> /\ d # << >> => InFlight[Len(InFlight)] = d[Len(d)]
  <2>1. /\ InFlight \in Seq(M) /\ Len(InFlight) = Len(d) + Len(s)
        /\ \A i \in 1..(Len(d) + Len(s)) :
             InFlight[i] = IF i <= Len(d) THEN d[i] ELSE s[i - Len(d)]
    BY <1>1, <1>3, ConcatProperties
  <2> QED
    BY <1>2, <2>1, EmptySeq
<1>5. ASSUME ~Running PROVE Path!Rested
  BY <1>5 DEF RestInv, AtRest
<1>6. ASSUME Path!Rested
      PROVE  /\ s # << >> => s[Len(s)].command_type # "walk_velocity"
             /\ s = << >> /\ d # << >> => d[Len(d)].command_type # "walk_velocity"
             /\ s = << >> /\ d = << >> => ~Moving
  BY <1>6, Inboxes DEF Path!Rested, Path!EndsIn, Path!Resting, Path!Moving, Moving, s, d
<1> QED
  BY <1>4, <1>5, <1>6 DEF HaltPending

-----------------------------------------------------------------------------
(* Theorems.                                                               *)

LEMMA MotionInvariant == Safety => []MotionInv
<1>1. Init => MotionInv
  BY InitMotion
<1>2. MotionInv /\ [Next]_vars => MotionInv'
  BY MotionStep
<1> QED
  BY <1>1, <1>2, PTL DEF Safety

LEMMA PathImplemented == Safety => Path!Safety
<1>1. Init => Path!Init
  BY InitMotion
<1>2. MotionInv /\ [Next]_vars => [Path!Next]_(Path!vars)
  BY StepOnPath
<1> QED
  BY <1>1, <1>2, MotionInvariant, PTL DEF Safety, Path!Safety

\* Mission manager and operators are publishers like any other: for every
\* mission and every depth, what they do to the robot is what some publisher
\* could do through the gate.
THEOREM PipelineImplemented == Safety => ImplementsPipeline
<1>1. Path!Init => Pipeline!Init
  BY DEF Path!Init, Path!SafetyInit, Path!DriverInit, Path!NoMessages, Pipeline!Init,
         Pipeline!SafetyInit, Pipeline!DriverInit, Pipeline!NoMessages
<1>2. [Path!Next]_(Path!vars) => [Pipeline!Next]_(Pipeline!vars)
  BY DEF Path!Next, Pipeline!Next, Path!vars, Pipeline!vars, Path!robot, Pipeline!robot,
         Path!Request, Pipeline!Request, Path!Gate, Pipeline!Gate,
         Path!SafetyStep, Pipeline!SafetyStep,
         Path!HandleCommandRequest, Pipeline!HandleCommandRequest,
         Path!BlockUnknown, Pipeline!BlockUnknown,
         Path!BlockUnderEstop, Pipeline!BlockUnderEstop,
         Path!GateClosed, Pipeline!GateClosed, Path!LatchEstop, Pipeline!LatchEstop,
         Path!ClearEstop, Pipeline!ClearEstop, Path!ForwardWalk, Pipeline!ForwardWalk,
         Path!ForwardOther, Pipeline!ForwardOther,
         Path!SafetyOutbox, Pipeline!SafetyOutbox,
         Path!SafetyTopics, Pipeline!SafetyTopics,
         Path!SafetyEvent, Pipeline!SafetyEvent, Path!LimitEvents, Pipeline!LimitEvents,
         Path!Limited, Pipeline!Limited, Path!SpeedLimit, Pipeline!SpeedLimit,
         Path!IsAbove, Pipeline!IsAbove, Path!PyMin, Pipeline!PyMin,
         Path!PyMax, Pipeline!PyMax, Path!Magnitude, Pipeline!Magnitude,
         Path!Drive, Pipeline!Drive, Path!DriverStep, Pipeline!DriverStep,
         Path!HandleCommand, Pipeline!HandleCommand,
         Path!BlockedByRobot, Pipeline!BlockedByRobot,
         Path!RobotBlocks, Pipeline!RobotBlocks, Path!Walk, Pipeline!Walk,
         Path!Stop, Pipeline!Stop, Path!Stand, Pipeline!Stand, Path!Sit, Pipeline!Sit,
         Path!EmergencyStop, Pipeline!EmergencyStop,
         Path!EstopMotion, Pipeline!EstopMotion, Path!StopMotion, Pipeline!StopMotion,
         Path!ClearRobotEstop, Pipeline!ClearRobotEstop,
         Path!UnknownCommand, Pipeline!UnknownCommand,
         Path!RobotCommands, Pipeline!RobotCommands,
         Path!DriverOutbox, Pipeline!DriverOutbox,
         Path!DriverTopics, Pipeline!DriverTopics,
         Path!DriverEvent, Pipeline!DriverEvent, Path!RobotState, Pipeline!RobotState,
         Path!Report, Pipeline!Report,
         Path!UpdateAndPublishState, Pipeline!UpdateAndPublishState,
         Path!Moving, Pipeline!Moving, Path!Deliver, Pipeline!Deliver,
         Path!KeepLast, Pipeline!KeepLast, Path!Taken, Pipeline!Taken,
         Path!SafetyInbox, Pipeline!SafetyInbox, Path!DriverInbox, Pipeline!DriverInbox,
         Path!Channel, Pipeline!Channel
<1> QED
  BY <1>1, <1>2, PathImplemented, PTL DEF Path!Safety, ImplementsPipeline, Pipeline!Safety

\* Once the mission is paused, canceled, reset or over, the robot rests as soon
\* as what is in flight has reached it, for every mission that ends at rest.
THEOREM HaltsReachRobot ==
  ASSUME EndsAtRest, DirectAtRest
  PROVE  Safety => []HaltPending
<1>1. Init => RestInv
  BY InitMotion
<1>2. MotionInv /\ RestInv /\ [Next]_vars => RestInv'
  BY RestStep
<1>3. MotionInv /\ RestInv => HaltPending
  BY RestedHalts
<1> QED
  BY <1>1, <1>2, <1>3, MotionInvariant, PTL DEF Safety

\* Whatever operators command and missions contain, an emergency stop past the
\* gate stops the robot, which then stands still, keeps still under the latch,
\* and otherwise never walks faster than its bound.
THEOREM GuaranteesKept ==
  Safety => /\ [](Path!EstopGate /\ Path!EstopHolds)
            /\ Path!LatchedRobotStays /\ Path!SpeedLimited
<1>1. MotionInv => Path!EstopGate /\ Path!EstopHolds
  BY DEF MotionInv, Path!PipelineInv
<1>2. Path!Safety => Path!LatchedRobotStays /\ Path!SpeedLimited
  BY Path!LatchedRobotKeepsStill, Path!RobotWithinLimits, PathAssumed, RequestsTyped
<1> QED
  BY <1>1, <1>2, MotionInvariant, PathImplemented, PTL
=============================================================================
