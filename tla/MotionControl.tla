---------------------------- MODULE MotionControl ----------------------------
(***************************************************************************)
(* The mission manager in front of the motion path: operators command the  *)
(* mission, the mission requests motions, and a safety operator may at any *)
(* time request an emergency stop or its clearing on the same topic.       *)
(*   mission/command -> mission_manager -> robot/command_request           *)
(*     -> safety_manager -> robot/command -> driver                        *)
(* An operator may command anything at any time, so the queue in front of  *)
(* the mission manager would add no behaviour and is left out.             *)
(***************************************************************************)
EXTENDS MissionManager, SafetyManager, MockGo2X

CONSTANTS
  DirectRequests,   \* robot commands requested past the mission manager
  MayCrash          \* whether the mission manager's process may die

\* The subscriptions of the motion path; others may read the same topics.
PathChannels == {SafetyInbox, DriverInbox}

ASSUME MotionAssumption == PathChannels \subseteq Channels /\ MayCrash \in BOOLEAN

\* Requests are RobotCommand messages, and a mission's robot steps set the
\* float fields of one.
ASSUME CommandAssumption ==
  /\ \A m \in DirectRequests :
       {"command_type", "twist"} \subseteq DOMAIN m /\ m.twist \in Twists
  /\ \A i \in 1..Len(Steps) : Steps[i].target = "robot" => Steps[i].twist \in Twists

vars == <<manager, now, estop_latched, robot, queue>>

Init ==
  /\ now = 0
  /\ MissionInit /\ SafetyInit /\ DriverInit
  /\ queue = NoMessages

\* Seeded fault: a request that goes around the gate.
DirectRequestUngated(msg) ==
  /\ queue' = Deliver(queue, [t \in {"robot/command"} |-> <<msg>>])
  /\ UNCHANGED <<manager, now, estop_latched, robot>>

DirectRequest(msg) ==
  /\ queue' = Deliver(queue, [t \in {"robot/command_request"} |-> <<msg>>])
  /\ UNCHANGED <<manager, now, estop_latched, robot>>

\* An operator's command, as the bridge publishes it.
Obey(msg) ==
  /\ HandleMissionCommand(msg, queue)
  /\ UNCHANGED <<estop_latched, robot>>

Advance == Tick(queue) /\ UNCHANGED <<estop_latched, robot>>

Gate == SafetyStep /\ UNCHANGED <<manager, now, robot>>

Drive == DriverStep /\ UNCHANGED <<manager, now, estop_latched>>

Crash ==
  /\ MayCrash /\ manager_alive
  /\ manager_alive' = FALSE
  /\ UNCHANGED <<current_step_index, current_step_started, flags, paused_at,
                 current_operator_id, active, run, now, estop_latched, robot, queue>>

Next ==
  \/ \E msg \in MissionCommands : Obey(msg)
  \/ \E msg \in DirectRequests : DirectRequest(msg)
  \/ Advance \/ Gate \/ Drive \/ Crash

Safety == Init /\ [][Next]_vars

\* The executors of the three nodes keep running; a publisher owes nothing.
Spec == Safety /\ WF_vars(Advance) /\ WF_vars(Gate) /\ WF_vars(Drive)

-----------------------------------------------------------------------------
(* Properties.                                                             *)

\* The commands still on their way to the robot, the oldest first.
InFlight == queue[DriverInbox] \o queue[SafetyInbox]

\* Once the mission is paused, canceled, reset or over, the robot rests as
\* soon as what is in flight has reached it: the last command on its way does
\* not make it walk, and with nothing on its way it does not move.  Full
\* queues, blocked stops and an emergency stop in between change nothing.
HaltPending ==
  ~Running =>
    IF InFlight = << >> THEN ~Moving
    ELSE InFlight[Len(InFlight)].command_type # "walk_velocity"

\* Every robot command the mission manager and the operators may request.
Requestable ==
  DirectRequests
  \cup {StopCommand(op, r) : op \in Operators, r \in 0..(RunIds - 1)}
  \cup {RobotCommand(StepAt(i).command_type, StepAt(i).twist, op, r) :
          i \in {j \in 0..(Len(Steps) - 1) : StepAt(j).target = "robot"},
          op \in Operators, r \in 0..(RunIds - 1)}

\* Mission manager and operators are publishers like any other: whatever the
\* motion path guarantees for every publisher holds with them, for there is
\* no way to the robot but through the gate.
Pipeline == INSTANCE SafetyPipeline
              WITH Channels <- PathChannels, Requests <- Requestable,
                   queue <- [c \in PathChannels |-> queue[c]]
ImplementsPipeline == Pipeline!Safety

\* A mission that an operator paused, canceled or reset leaves the robot at
\* rest in the end, unless it is made to run again.
HaltedRobotRests == ~Running ~> (~Moving \/ Running)

\* With the mission manager gone, the robot comes to rest.
LostManagerRests == ~manager_alive ~> ~Moving
=============================================================================
