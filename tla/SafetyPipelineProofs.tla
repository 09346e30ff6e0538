------------------------ MODULE SafetyPipelineProofs ------------------------
(***************************************************************************)
(* The emergency stop and the speed limits of the motion path, for every   *)
(* queue depth, every set of requests and every limit.                     *)
(***************************************************************************)
EXTENDS SafetyPipeline, TopicsLemmas

\* Where the two nodes' messages go.
LEMMA SafetyDelivery ==
  ASSUME NEW q, NEW commands, NEW events, DOMAIN q = Channels
  PROVE  LET d == Deliver(q, SafetyOutbox(commands, events)) IN
         /\ DOMAIN d = Channels
         /\ d[SafetyInbox] = q[SafetyInbox]
         /\ d[DriverInbox] = KeepLast(q[DriverInbox] \o commands)
BY PipelineAssumption
   DEF Deliver, SafetyOutbox, SafetyTopics, SafetyInbox, DriverInbox, Channel

LEMMA DriverDelivery ==
  ASSUME NEW q, NEW states, NEW events, DOMAIN q = Channels
  PROVE  LET d == Deliver(q, DriverOutbox(states, events)) IN
         /\ DOMAIN d = Channels
         /\ d[SafetyInbox] = q[SafetyInbox]
         /\ d[DriverInbox] = q[DriverInbox]
BY PipelineAssumption
   DEF Deliver, DriverOutbox, DriverTopics, SafetyInbox, DriverInbox, Channel

LEMMA RequestDelivery ==
  ASSUME NEW q, NEW m, DOMAIN q = Channels
  PROVE  LET d == Deliver(q, [t \in {"robot/command_request"} |-> <<m>>]) IN
         /\ DOMAIN d = Channels
         /\ d[SafetyInbox] = KeepLast(q[SafetyInbox] \o <<m>>)
         /\ d[DriverInbox] = q[DriverInbox]
BY PipelineAssumption DEF Deliver, SafetyInbox, DriverInbox, Channel

LEMMA TakenQueues ==
  ASSUME NEW c \in {SafetyInbox, DriverInbox}, DOMAIN queue = Channels
  PROVE  /\ DOMAIN Taken(c) = Channels
         /\ Taken(c)[c] = Tail(queue[c])
         /\ \A d \in {SafetyInbox, DriverInbox} \ {c} : Taken(c)[d] = queue[d]
BY PipelineAssumption DEF Taken, SafetyInbox, DriverInbox, Channel

-----------------------------------------------------------------------------
(* What a step of the gate, and of the robot, does to the queues.          *)

\* A forwarded walk is limited, unless its limit is no number.
WithinLimits(twist) ==
  /\ twist.linear \in Speed
  /\ twist.yaw \in {NaN} \cup (-MaxYaw..MaxYaw)
  /\ twist.max_speed \in {NaN} \cup (1..MaxLinear)

SlowCommands ==
  {m \in Forwardable : m.command_type = "walk_velocity" => WithinLimits(m.twist)}

LEMMA LimitedWithinLimits ==
  ASSUME NEW twist \in Twists
  PROVE  WithinLimits(Limited(twist))
<1>1. SpeedLimit(twist.max_speed) \in {NaN} \cup (1..MaxLinear)
  BY SafetyAssumption, NaNAssumption DEF SpeedLimit, PyMin, IsAbove, Twists, Speed
<1>2. Limited(twist).linear \in Speed
  BY <1>1, SafetyAssumption, NaNAssumption DEF Limited, Twists, Speed
<1>3. Limited(twist).yaw \in {NaN} \cup (-MaxYaw..MaxYaw)
  BY SafetyAssumption, NaNAssumption
     DEF Limited, PyMin, PyMax, IsAbove, Magnitude, Twists, Speed
<1> QED
  BY <1>1, <1>2, <1>3 DEF WithinLimits, Limited

LEMMA LimitedMessage ==
  ASSUME NEW m \in Requests
  PROVE  LET f == [m EXCEPT !.twist = Limited(@)] IN
         f \in SlowCommands /\ f.command_type = m.command_type
<1> DEFINE f == [m EXCEPT !.twist = Limited(@)]
<1>1. f.command_type = m.command_type /\ f.twist = Limited(m.twist)
  BY PipelineAssumption
<1>2. WithinLimits(f.twist)
  BY <1>1, PipelineAssumption, LimitedWithinLimits
<1>3. f \in Forwardable
  BY DEF Forwardable
<1> QED
  BY <1>1, <1>2, <1>3 DEF SlowCommands

\* A step of the gate forwards nothing, which takes a latch or a command it does
\* not know, or one command within the limits; with the latch set afterwards, an
\* emergency stop only.
LEMMA GateEffect ==
  ASSUME TypeOK, Gate
  PROVE  /\ DOMAIN queue' = Channels
         /\ queue[SafetyInbox] # << >>
         /\ queue'[SafetyInbox] = Tail(queue[SafetyInbox])
         /\ UNCHANGED robot
         /\ estop_latched' \in BOOLEAN
         /\ \/ /\ UNCHANGED <<estop_latched, queue[DriverInbox]>>
               /\ estop_latched \/ Head(queue[SafetyInbox]).command_type \notin AllowedCommands
            \/ \E f \in SlowCommands :
                 /\ queue'[DriverInbox] = KeepLast(queue[DriverInbox] \o <<f>>)
                 /\ f.command_type = Head(queue[SafetyInbox]).command_type
                 /\ estop_latched' => f.command_type = "emergency_stop"
<1> DEFINE msg == Head(queue[SafetyInbox])
           q == Taken(SafetyInbox)
<1>1. queue[SafetyInbox] # << >> /\ HandleCommandRequest(msg, q) /\ UNCHANGED robot
  BY DEF Gate, SafetyStep
<1>2. msg \in Requests
  BY <1>1, TakeOldest DEF TypeOK
<1>3. /\ DOMAIN q = Channels /\ q[SafetyInbox] = Tail(queue[SafetyInbox])
      /\ q[DriverInbox] = queue[DriverInbox]
  BY TakenQueues, SafetyInbox # DriverInbox DEF TypeOK, SafetyInbox, DriverInbox, Channel
<1>4. KeepLast(queue[DriverInbox] \o << >>) = queue[DriverInbox]
  BY DeliverNothing DEF TypeOK
<1> HIDE DEF msg, q
<1>5. msg \in Forwardable
  BY <1>2 DEF Forwardable
<1>6. ASSUME NEW events, queue' = Deliver(q, SafetyOutbox(<< >>, events)), UNCHANGED estop_latched
      PROVE  /\ DOMAIN queue' = Channels /\ queue'[SafetyInbox] = Tail(queue[SafetyInbox])
             /\ UNCHANGED queue[DriverInbox]
  BY <1>3, <1>4, <1>6, SafetyDelivery
<1>7. ASSUME NEW f, NEW events, queue' = Deliver(q, SafetyOutbox(<<f>>, events))
      PROVE  /\ DOMAIN queue' = Channels /\ queue'[SafetyInbox] = Tail(queue[SafetyInbox])
             /\ queue'[DriverInbox] = KeepLast(queue[DriverInbox] \o <<f>>)
  BY <1>3, <1>7, SafetyDelivery
<1> USE DEF msg
<1>8. CASE BlockUnknown(msg, q) \/ BlockUnderEstop(msg, q)
  BY <1>1, <1>6, <1>8 DEF BlockUnknown, BlockUnderEstop, GateClosed, TypeOK
<1>9. CASE LatchEstop(msg, q)
  BY <1>1, <1>5, <1>7, <1>9 DEF LatchEstop, SlowCommands
<1>10. CASE ClearEstop(msg, q)
  BY <1>1, <1>5, <1>7, <1>10 DEF ClearEstop, SlowCommands
<1>11. CASE ForwardWalk(msg, q) /\ ~GateClosed(msg)
  BY <1>1, <1>2, <1>7, <1>11, LimitedMessage DEF ForwardWalk, GateClosed, TypeOK
<1>12. CASE ForwardOther(msg, q) /\ ~GateClosed(msg)
  BY <1>1, <1>5, <1>7, <1>12 DEF ForwardOther, GateClosed, SlowCommands, TypeOK
<1> QED
  BY <1>1, <1>8, <1>9, <1>10, <1>11, <1>12 DEF HandleCommandRequest

\* A step of the robot takes the oldest command.
LEMMA DriveEffect ==
  ASSUME TypeOK, Drive
  PROVE  /\ DOMAIN queue' = Channels
         /\ queue'[SafetyInbox] = queue[SafetyInbox]
         /\ queue[DriverInbox] # << >>
         /\ queue'[DriverInbox] = Tail(queue[DriverInbox])
         /\ UNCHANGED estop_latched
<1> DEFINE msg == Head(queue[DriverInbox])
           q == Taken(DriverInbox)
<1>1. queue[DriverInbox] # << >> /\ HandleCommand(msg, q) /\ UNCHANGED estop_latched
  BY DEF Drive, DriverStep
<1>2. /\ DOMAIN q = Channels /\ q[DriverInbox] = Tail(queue[DriverInbox])
      /\ q[SafetyInbox] = queue[SafetyInbox]
  BY TakenQueues, SafetyInbox # DriverInbox DEF TypeOK, SafetyInbox, DriverInbox, Channel
<1> HIDE DEF msg, q
<1>3. queue' = q \/ \E events : queue' = Deliver(q, DriverOutbox(<< >>, events))
  BY <1>1 DEF HandleCommand, BlockedByRobot, Walk, Stop, Stand, Sit, EmergencyStop,
              ClearRobotEstop, UnknownCommand
<1> QED
  BY <1>1, <1>2, <1>3, DriverDelivery

-----------------------------------------------------------------------------
(* The invariant.  EstopGate and EstopHolds are inductive given the types; *)
(* the speed limit needs the commands in flight to be within the limits.   *)

SlowQueue == queue[DriverInbox] \in Seq(SlowCommands)

PipelineInv == TypeOK /\ EstopGate /\ EstopHolds /\ SlowQueue

LEMMA TypeInit ==
  ASSUME Init
  PROVE  TypeOK
<1>1. /\ << >> \in Seq(Requests) /\ << >> \in Seq(Forwardable)
      /\ Len(<< >>) <= Depth
  BY EmptySeq, DepthAssumption
<1> QED
  BY <1>1, PipelineAssumption
     DEF Init, SafetyInit, DriverInit, NoMessages, TypeOK, Modes

LEMMA TypeStep ==
  ASSUME TypeOK, [Next]_vars
  PROVE  TypeOK'
<1>1. ASSUME NEW msg \in Requests, Request(msg) PROVE TypeOK'
  <2>1. /\ DOMAIN queue' = Channels
        /\ queue'[SafetyInbox] = KeepLast(queue[SafetyInbox] \o <<msg>>)
        /\ UNCHANGED <<queue[DriverInbox], estop_latched, robot>>
    BY <1>1, RequestDelivery DEF Request, TypeOK
  <2> QED
    BY <2>1, DeliverOne DEF TypeOK, robot
<1>2. CASE Gate
  <2>1. queue'[SafetyInbox] \in Seq(Requests) /\ Len(queue'[SafetyInbox]) <= Depth
    BY <1>2, GateEffect, TakeOldest DEF TypeOK
  <2>2. queue'[DriverInbox] \in Seq(Forwardable) /\ Len(queue'[DriverInbox]) <= Depth
    BY <1>2, GateEffect, DeliverOne DEF TypeOK, SlowCommands
  <2> QED
    BY <1>2, <2>1, <2>2, GateEffect DEF TypeOK, robot
<1>3. CASE Drive
  <2>1. queue'[DriverInbox] \in Seq(Forwardable) /\ Len(queue'[DriverInbox]) <= Depth
    BY <1>3, DriveEffect, TakeOldest DEF TypeOK
  <2>2. robot_estop' \in BOOLEAN /\ travelled' \in BOOLEAN /\ mode' \in Modes
    BY <1>3 DEF Drive, DriverStep, HandleCommand, BlockedByRobot, Walk, Stop, Stand, Sit,
                EmergencyStop, ClearRobotEstop, UnknownCommand, TypeOK, Modes
  <2> QED
    BY <1>3, <2>1, <2>2, DriveEffect DEF TypeOK
<1>4. CASE Report
  <2>1. /\ DOMAIN queue' = Channels
        /\ UNCHANGED <<queue[SafetyInbox], queue[DriverInbox], estop_latched,
                       mode, robot_estop>>
        /\ travelled' \in BOOLEAN
    BY <1>4, DriverDelivery DEF Report, UpdateAndPublishState, Moving, TypeOK
  <2> QED
    BY <2>1 DEF TypeOK
<1>5. CASE UNCHANGED vars
  BY <1>5 DEF vars, robot, TypeOK
<1> QED
  BY <1>1, <1>2, <1>3, <1>4, <1>5 DEF Next

\* The pipeline keeps its types: queues hold robot commands, no more than
\* their depth.
THEOREM TypeCorrect == Safety => []TypeOK
<1>1. Init => TypeOK
  BY TypeInit
<1>2. TypeOK /\ [Next]_vars => TypeOK'
  BY TypeStep
<1> QED
  BY <1>1, <1>2, PTL DEF Safety

LEMMA EstopGateStep ==
  ASSUME TypeOK, EstopGate, [Next]_vars
  PROVE  EstopGate'
<1>1. ASSUME NEW msg \in Requests, Request(msg) PROVE EstopGate'
  BY <1>1, RequestDelivery DEF Request, TypeOK, EstopGate, robot
<1>2. CASE Gate
  <2>1. CASE UNCHANGED <<estop_latched, queue[DriverInbox]>>
    BY <1>2, <2>1, GateEffect DEF EstopGate, robot
  <2>2. ASSUME NEW f \in SlowCommands,
               queue'[DriverInbox] = KeepLast(queue[DriverInbox] \o <<f>>),
               estop_latched' => f.command_type = "emergency_stop"
        PROVE EstopGate'
    <3>1. /\ queue'[DriverInbox] # << >>
          /\ queue'[DriverInbox][Len(queue'[DriverInbox])] = f
      BY <2>2, DeliverOne DEF TypeOK, SlowCommands
    <3> QED
      BY <2>2, <3>1 DEF EstopGate
  <2> QED
    BY <1>2, <2>1, <2>2, GateEffect
<1>3. CASE Drive
  <2> DEFINE msg == Head(queue[DriverInbox])
  <2>1. IF queue'[DriverInbox] = << >>
        THEN msg = queue[DriverInbox][Len(queue[DriverInbox])]
        ELSE queue'[DriverInbox][Len(queue'[DriverInbox])]
               = queue[DriverInbox][Len(queue[DriverInbox])]
    BY <1>3, DriveEffect, TakeOldest DEF TypeOK
  <2>2. msg.command_type = "emergency_stop" => robot_estop'
    BY <1>3 DEF Drive, DriverStep, HandleCommand, BlockedByRobot, RobotBlocks, Walk, Stop,
                Stand, Sit, EmergencyStop, ClearRobotEstop, UnknownCommand, RobotCommands,
                TypeOK
  <2> QED
    BY <1>3, <2>1, <2>2, DriveEffect DEF EstopGate
<1>4. CASE Report
  BY <1>4, DriverDelivery DEF Report, UpdateAndPublishState, TypeOK, EstopGate
<1>5. CASE UNCHANGED vars
  BY <1>5 DEF vars, robot, EstopGate
<1> QED
  BY <1>1, <1>2, <1>3, <1>4, <1>5 DEF Next

LEMMA EstopHoldsStep ==
  ASSUME TypeOK, EstopHolds, [Next]_vars
  PROVE  EstopHolds'
<1>1. ASSUME NEW msg \in Requests, Request(msg) PROVE EstopHolds'
  BY <1>1 DEF Request, robot, EstopHolds
<1>2. CASE Gate
  BY <1>2 DEF Gate, robot, EstopHolds
<1>3. CASE Drive
  BY <1>3 DEF Drive, DriverStep, HandleCommand, BlockedByRobot, RobotBlocks, Walk, Stop,
              Stand, Sit, EmergencyStop, EstopMotion, StopMotion, ClearRobotEstop,
              UnknownCommand, TypeOK, EstopHolds
<1>4. CASE Report
  BY <1>4 DEF Report, UpdateAndPublishState, EstopHolds
<1>5. CASE UNCHANGED vars
  BY <1>5 DEF vars, robot, EstopHolds
<1> QED
  BY <1>1, <1>2, <1>3, <1>4, <1>5 DEF Next

\* The driver's own limits, applied to a command within the gate's limits.
LEMMA WalkWithinLimits ==
  ASSUME NEW msg \in SlowCommands, NEW q, Walk(msg, q)
  PROVE  ~IsAbove(linear', SpeedBound(msg)) /\ ~IsAbove(Magnitude(yaw'), MaxYaw)
<1> DEFINE limit == IF IsAbove(msg.twist.max_speed, 0) THEN msg.twist.max_speed ELSE DriverSpeed
<1>1. WithinLimits(msg.twist)
  BY DEF Walk, SlowCommands
<1>2. limit \in Nat \ {0} /\ limit <= SpeedBound(msg) /\ SpeedBound(msg) \in Nat
  BY <1>1, SafetyAssumption, DriverAssumption, NaNAssumption
     DEF WithinLimits, IsAbove, SpeedBound
<1>3. linear' = IF IsAbove(msg.twist.linear, limit) THEN limit ELSE msg.twist.linear
  BY DEF Walk
<1> HIDE DEF limit
<1>4. ~IsAbove(linear', SpeedBound(msg))
  BY <1>1, <1>2, <1>3, SafetyAssumption, NaNAssumption DEF WithinLimits, Speed, IsAbove
<1>5. ~IsAbove(Magnitude(yaw'), MaxYaw)
  BY <1>1, SafetyAssumption, DriverAssumption, NaNAssumption
     DEF Walk, WithinLimits, PyMin, PyMax, IsAbove, Magnitude
<1> QED
  BY <1>4, <1>5

LEMMA SlowQueueStep ==
  ASSUME TypeOK, SlowQueue, [Next]_vars
  PROVE  SlowQueue'
<1>1. ASSUME NEW msg \in Requests, Request(msg) PROVE SlowQueue'
  BY <1>1, RequestDelivery DEF Request, TypeOK, SlowQueue
<1>2. CASE Gate
  BY <1>2, GateEffect, DeliverOne DEF SlowQueue
<1>3. CASE Drive
  BY <1>3, DriveEffect, TakeOldest DEF SlowQueue
<1>4. CASE Report
  BY <1>4, DriverDelivery DEF Report, UpdateAndPublishState, TypeOK, SlowQueue
<1>5. CASE UNCHANGED vars
  BY <1>5 DEF vars, SlowQueue
<1> QED
  BY <1>1, <1>2, <1>3, <1>4, <1>5 DEF Next

\* What a step does to the speeds.
SpeedKept ==
  \/ UNCHANGED <<linear, yaw>>
  \/ /\ Drive
     /\ ~IsAbove(linear', SpeedBound(Head(queue[DriverInbox])))
     /\ ~IsAbove(Magnitude(yaw'), MaxYaw)

LEMMA SpeedStep ==
  ASSUME TypeOK, SlowQueue, [Next]_vars
  PROVE  SpeedKept
<1>1. CASE (\E msg \in Requests : Request(msg)) \/ Gate \/ Report \/ UNCHANGED vars
  BY <1>1 DEF Request, Gate, Report, UpdateAndPublishState, vars, robot, SpeedKept
<1>2. CASE Drive
  <2> DEFINE msg == Head(queue[DriverInbox])
             q == Taken(DriverInbox)
  <2>1. msg \in SlowCommands
    BY <1>2, DriveEffect, TakeOldest DEF SlowQueue
  <2>2. HandleCommand(msg, q)
    BY <1>2 DEF Drive, DriverStep
  <2>3. /\ ~IsAbove(linear', SpeedBound(msg)) /\ ~IsAbove(Magnitude(yaw'), MaxYaw)
        => SpeedKept
    BY <1>2 DEF SpeedKept
  <2> HIDE DEF msg, q
  <2>4. CASE Walk(msg, q)
    BY <2>1, <2>3, <2>4, WalkWithinLimits
  <2>5. CASE Stop(msg, q) \/ Sit(msg, q) \/ EmergencyStop(msg, q)
    <3>1. linear' = 0 /\ yaw' = 0
      BY <2>5 DEF Stop, Sit, EmergencyStop, EstopMotion, StopMotion
    <3> QED
      BY <2>3, <3>1, SafetyAssumption, DriverAssumption DEF SpeedBound, IsAbove, Magnitude
  <2>6. CASE BlockedByRobot(msg, q) \/ UnknownCommand(msg, q) \/ Stand(msg, q)
             \/ ClearRobotEstop(msg, q)
    BY <2>6 DEF BlockedByRobot, UnknownCommand, Stand, ClearRobotEstop, SpeedKept
  <2> QED
    BY <2>2, <2>4, <2>5, <2>6 DEF HandleCommand
<1> QED
  BY <1>1, <1>2 DEF Next

-----------------------------------------------------------------------------
(* Coming to rest.  The last command on its way decides whether the robot  *)
(* ends at rest; nothing else does, neither full queues nor the latch.     *)

\* The commands that leave the robot at rest, once they are past the gate.
Resting == {"stop", "stand", "sit", "emergency_stop", "clear_estop"}

EndsIn(s, types) == s[Len(s)].command_type \in types

Rested ==
  IF queue[SafetyInbox] # << >> THEN EndsIn(queue[SafetyInbox], Resting \cap AllowedCommands)
  ELSE IF queue[DriverInbox] # << >> THEN EndsIn(queue[DriverInbox], Resting)
  ELSE ~Moving

LEMMA RestAtRequest ==
  ASSUME TypeOK, NEW msg \in Requests, Request(msg), msg.command_type \in Resting \cap AllowedCommands
  PROVE  Rested'
<1>1. queue'[SafetyInbox] = KeepLast(queue[SafetyInbox] \o <<msg>>)
  BY RequestDelivery DEF Request, TypeOK
<1>2. queue'[SafetyInbox] # << >> /\ queue'[SafetyInbox][Len(queue'[SafetyInbox])] = msg
  BY <1>1, DeliverOne DEF TypeOK
<1> QED
  BY <1>2 DEF Rested, EndsIn

LEMMA RestAtGate ==
  ASSUME TypeOK, EstopGate, EstopHolds, Rested, Gate
  PROVE  Rested'
<1> DEFINE s == queue[SafetyInbox]
           d == queue[DriverInbox]
<1>1. s # << >> /\ s \in Seq(Requests) /\ d \in Seq(Forwardable)
  BY GateEffect DEF TypeOK
<1>2. EndsIn(s, Resting \cap AllowedCommands)
  BY <1>1 DEF Rested
<1>3. CASE Tail(s) # << >>
  <2>1. Tail(s)[Len(Tail(s))] = s[Len(s)]
    BY <1>1, <1>3, TakeOldest
  <2>2. queue'[SafetyInbox] = Tail(s)
    BY GateEffect
  <2> QED
    BY <1>2, <1>3, <2>1, <2>2 DEF Rested, EndsIn
<1>4. CASE Tail(s) = << >>
  <2>1. Head(s).command_type \in Resting \cap AllowedCommands /\ queue'[SafetyInbox] = << >>
    BY <1>1, <1>2, <1>4, TakeOldest, GateEffect DEF EndsIn
  <2>2. CASE UNCHANGED <<estop_latched, d>> /\ estop_latched
    <3>1. UNCHANGED <<mode, linear, yaw>>
      BY GateEffect DEF robot
    <3>2. CASE d = << >>
      BY <2>1, <2>2, <3>1, <3>2 DEF EstopGate, EstopHolds, Rested, Moving
    <3>3. CASE d # << >>
      BY <2>1, <2>2, <3>3, GateEffect DEF EstopGate, Rested, EndsIn, Resting
    <3> QED
      BY <3>2, <3>3
  <2>3. ASSUME NEW f \in SlowCommands, queue'[DriverInbox] = KeepLast(d \o <<f>>),
               f.command_type = Head(s).command_type
        PROVE  Rested'
    <3>1. queue'[DriverInbox] # << >> /\ queue'[DriverInbox][Len(queue'[DriverInbox])] = f
      BY <1>1, <2>3, DeliverOne DEF SlowCommands
    <3> QED
      BY <2>1, <2>3, <3>1 DEF Rested, EndsIn
  <2> QED
    BY <2>1, <2>2, <2>3, GateEffect
<1> QED
  BY <1>3, <1>4

LEMMA RestAtDriver ==
  ASSUME TypeOK, EstopHolds, Rested, Drive
  PROVE  Rested'
<1> DEFINE msg == Head(queue[DriverInbox])
           d == queue[DriverInbox]
<1>1. d # << >> /\ d \in Seq(Forwardable)
  BY DriveEffect DEF TypeOK
<1>2. UNCHANGED queue[SafetyInbox] /\ queue'[DriverInbox] = Tail(d)
  BY DriveEffect
<1>3. CASE queue[SafetyInbox] # << >>
  BY <1>2, <1>3 DEF Rested
<1>4. CASE queue[SafetyInbox] = << >> /\ Tail(d) # << >>
  BY <1>1, <1>2, <1>4, TakeOldest DEF Rested, EndsIn
<1>5. CASE queue[SafetyInbox] = << >> /\ Tail(d) = << >>
  <2>1. msg.command_type \in Resting
    BY <1>1, <1>5, TakeOldest DEF Rested, EndsIn
  <2>2. HandleCommand(msg, Taken(DriverInbox))
    BY DEF Drive, DriverStep
  <2> HIDE DEF msg
  <2>3. ~Moving'
    BY <2>1, <2>2 DEF Moving, HandleCommand, BlockedByRobot, RobotBlocks, Walk, Stop, Stand,
                      Sit, EmergencyStop, EstopMotion, StopMotion, ClearRobotEstop,
                      UnknownCommand, RobotCommands, Resting, EstopHolds, TypeOK
  <2> QED
    BY <1>2, <1>5, <2>3 DEF Rested
<1> QED
  BY <1>3, <1>4, <1>5

-----------------------------------------------------------------------------
(* The theorems.                                                           *)

LEMMA PipelineInit ==
  ASSUME Init
  PROVE  PipelineInv
<1>1. EstopGate /\ EstopHolds /\ SlowQueue
  BY PipelineAssumption, EmptySeq
     DEF Init, SafetyInit, DriverInit, NoMessages, EstopGate, EstopHolds, SlowQueue
<1> QED
  BY <1>1, TypeInit DEF PipelineInv

LEMMA PipelineStep ==
  ASSUME PipelineInv, [Next]_vars
  PROVE  PipelineInv'
BY TypeStep, EstopGateStep, EstopHoldsStep, SlowQueueStep DEF PipelineInv

\* The whole invariant holds in every reachable state.
THEOREM PipelineInvariant == Safety => []PipelineInv
<1>1. Init => PipelineInv
  BY PipelineInit
<1>2. PipelineInv /\ [Next]_vars => PipelineInv'
  BY PipelineStep
<1> QED
  BY <1>1, <1>2, PTL DEF Safety

\* The latch of the safety manager is never alone: an emergency stop that passed
\* the gate has stopped the robot or cannot be overtaken on its way to it.
THEOREM EstopGateHolds == Safety => []EstopGate
BY PipelineInvariant, PTL DEF PipelineInv

\* A robot stopped in emergency stands still.
THEOREM EstoppedRobotStands == Safety => []EstopHolds
BY PipelineInvariant, PTL DEF PipelineInv

\* Whatever the limits are, no request makes the robot faster than the gate's
\* limit or, if it brings no number for max_speed, than the driver's own speed;
\* the driver's speed is not assumed to be within the gate's limit.
THEOREM RobotWithinLimits == Safety => SpeedLimited
<1>1. PipelineInv /\ [Next]_vars => [SpeedKept]_vars
  BY SpeedStep DEF PipelineInv
<1>2. Safety => [][SpeedKept]_vars
  BY <1>1, PipelineInvariant, PTL DEF Safety
<1> QED
  BY <1>2 DEF SpeedLimited, SpeedKept

\* While the latch is set, a robot stopped in emergency neither leaves that
\* state nor changes its pose, unless a clear_estop is still on its way.
THEOREM LatchedRobotKeepsStill == Safety => LatchedRobotStays
<1> DEFINE Still == estop_latched /\ robot_estop /\ ~ClearInFlight
                      => robot_estop' /\ (travelled' => travelled)
<1>1. ASSUME PipelineInv, [Next]_vars PROVE [Still]_vars
  <2> SUFFICES ASSUME Next, robot_estop, ~ClearInFlight
               PROVE  robot_estop' /\ (travelled' => travelled)
    BY <1>1
  <2>1. CASE (\E msg \in Requests : Request(msg)) \/ Gate
    <3>1. UNCHANGED <<robot_estop, travelled>>
      BY <2>1 DEF Request, Gate, robot
    <3> QED
      BY <1>1, <3>1 DEF PipelineInv, TypeOK
  <2>2. CASE Drive
    <3> DEFINE msg == Head(queue[DriverInbox])
    <3>1. queue[DriverInbox] # << >> /\ queue[DriverInbox] \in Seq(Forwardable)
      BY <1>1, <2>2 DEF Drive, DriverStep, PipelineInv, TypeOK
    <3>2. Len(queue[DriverInbox]) \in Nat \ {0} /\ msg = queue[DriverInbox][1]
      BY <3>1, EmptySeq, HeadTailProperties
    <3>3. msg.command_type # "clear_estop"
      BY <3>2 DEF ClearInFlight
    <3> QED
      BY <2>2, <3>3 DEF Drive, DriverStep, HandleCommand, BlockedByRobot, RobotBlocks
  <2>3. CASE Report
    BY <1>1, <2>3 DEF Report, UpdateAndPublishState, Moving, PipelineInv, EstopHolds
  <2> QED
    BY <2>1, <2>2, <2>3 DEF Next
<1>2. Safety => [][Still]_vars
  BY <1>1, PipelineInvariant, PTL DEF Safety
<1> QED
  BY <1>2 DEF LatchedRobotStays
=============================================================================
