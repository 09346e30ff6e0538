--------------------------- MODULE SafetyPipeline ---------------------------
(***************************************************************************)
(* The motion path with any publisher in front of it:                      *)
(*   robot/command_request -> safety_manager -> robot/command -> driver    *)
(* Requests are whatever a publisher may send, in any order and number.    *)
(***************************************************************************)
EXTENDS SafetyManager, MockGo2X

CONSTANT Requests   \* the robot commands publishers may request

\* Both subscriptions of the path are there, and requests are RobotCommand
\* messages.
ASSUME PipelineAssumption ==
  /\ SafetyInbox \in Channels /\ DriverInbox \in Channels
  /\ \A m \in Requests : {"command_type", "twist"} \subseteq DOMAIN m /\ m.twist \in Twists

vars == <<estop_latched, robot, queue>>

Init == SafetyInit /\ DriverInit /\ queue = NoMessages

\* Some publisher requests a robot command.
Request(msg) ==
  /\ queue' = Deliver(queue, [t \in {"robot/command_request"} |-> <<msg>>])
  /\ UNCHANGED <<estop_latched, robot>>

Gate == SafetyStep /\ UNCHANGED robot

Drive == DriverStep /\ UNCHANGED estop_latched

Report == UpdateAndPublishState /\ UNCHANGED estop_latched

Next == (\E msg \in Requests : Request(msg)) \/ Gate \/ Drive \/ Report

Safety == Init /\ [][Next]_vars

\* Both executors keep running their callbacks; publishers owe nothing.
Spec == Safety /\ WF_vars(Gate) /\ WF_vars(Drive)

-----------------------------------------------------------------------------
(* Properties.                                                             *)

\* What may travel on the two topics.
Forwardable == Requests \cup {[m EXCEPT !.twist = Limited(@)] : m \in Requests}

TypeOK ==
  /\ estop_latched \in BOOLEAN
  /\ robot_estop \in BOOLEAN /\ travelled \in BOOLEAN
  /\ mode \in Modes
  /\ DOMAIN queue = Channels
  /\ queue[SafetyInbox] \in Seq(Requests) /\ Len(queue[SafetyInbox]) <= Depth
  /\ queue[DriverInbox] \in Seq(Forwardable) /\ Len(queue[DriverInbox]) <= Depth

\* The latch of the safety manager is never alone.  As long as any command is
\* on its way to the robot, the newest of them is the emergency stop, which
\* nothing can displace from a full queue any more; once all have arrived, the
\* robot has stopped in emergency, whatever was cleared in between.
EstopGate ==
  estop_latched =>
    IF queue[DriverInbox] = << >> THEN robot_estop
    ELSE queue[DriverInbox][Len(queue[DriverInbox])].command_type = "emergency_stop"

\* A robot stopped in emergency stands still, and its pose does not change.
EstopHolds == robot_estop => mode = "estop" /\ linear = 0 /\ yaw = 0

ClearInFlight ==
  \E i \in 1..Len(queue[DriverInbox]) :
     queue[DriverInbox][i].command_type = "clear_estop"

\* While the latch is set, a robot that has stopped in emergency neither leaves
\* that state nor changes its pose, unless a clear_estop that was forwarded
\* before the latch was set is still on its way.
LatchedRobotStays ==
  [][estop_latched /\ robot_estop /\ ~ClearInFlight
       => robot_estop' /\ (travelled' => travelled)]_vars

\* The bound on what a command makes the robot walk at.  One whose max_speed is
\* no number passes the gate's min() with it, and only the driver's own speed is
\* left, whatever max_linear_speed is set to.
SpeedBound(msg) == IF msg.twist.max_speed = NaN THEN DriverSpeed ELSE MaxLinear

\* No command, whatever it asks for and however the limits are configured, makes
\* the robot faster than its bound, and nothing but a command in the driver's
\* hand changes the speeds.  (A speed that is NaN itself is above no bound.)
SpeedLimited ==
  [][\/ UNCHANGED <<linear, yaw>>
     \/ /\ Drive
        /\ ~IsAbove(linear', SpeedBound(Head(queue[DriverInbox])))
        /\ ~IsAbove(Magnitude(yaw'), MaxYaw)]_vars

\* An emergency stop that passed the gate reaches the robot unless it is
\* cleared first.
EstopReachesRobot == estop_latched ~> robot_estop \/ ~estop_latched
=============================================================================
