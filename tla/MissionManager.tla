--------------------------- MODULE MissionManager ---------------------------
(***************************************************************************)
(* The mission_manager node: it owns the mission's runtime state, obeys    *)
(* the operator's mission commands, and at every 0.2 s tick advances to    *)
(* the next step once the current one has had its time.  The node runs on  *)
(* a single-threaded executor, so each handler is one atomic step: it      *)
(* takes the queues q left when its message was taken and publishes to     *)
(* them.  Speeds are magnitudes; names, stamps and texts are left out.     *)
(***************************************************************************)
EXTENDS Integers, Topics

CONSTANTS
  Steps,       \* the loaded mission: [target, command_type, duration_sec, twist],
               \* with a payload_type where the target is the payload
  Operators,   \* operator identities
  Anonymous,   \* the identity of a command that names no operator
  Autostart,   \* the autostart parameter
  RunIds,      \* the history variable run counts starts modulo RunIds
  MaxTime      \* the clock stops here

NoTime == -1

ASSUME MissionAssumption ==
  /\ Len(Steps) \in Nat \ {0}
  /\ \A i \in 1..Len(Steps) : Steps[i].duration_sec \in Nat
  /\ Anonymous \in Operators
  /\ Autostart \in BOOLEAN
  /\ RunIds \in Nat \ {0}
  /\ MaxTime \in Nat

VARIABLES
  current_step_index, current_step_started,
  mission_started, mission_complete, mission_paused, mission_canceled,
  paused_at, current_operator_id,
  manager_alive,   \* FALSE once the node's process has died
  now,             \* the clock of the node
  active,          \* history: time the current step has run unpaused
  run              \* history: which start the mission is in

flags == <<mission_started, mission_complete, mission_paused, mission_canceled>>
manager == <<current_step_index, current_step_started, flags, paused_at,
             current_operator_id, manager_alive, active, run>>

Stopped == mission_complete \/ mission_canceled
Running == mission_started /\ ~Stopped /\ ~mission_paused

HasStep(i) == i \in 0..(Len(Steps) - 1)
StepAt(i) == Steps[i + 1]
Duration(i) == StepAt(i).duration_sec
Supported(i) == StepAt(i).target \in {"robot", "payload"}

\* The twist of a command that sets no speeds.
NoTwist == [linear |-> 0, yaw |-> 0, max_speed |-> 0]

-----------------------------------------------------------------------------
(* What a handler publishes.                                               *)

MissionTopics ==
  {"mission/state", "mission/events", "robot/command_request",
   "payload/command_request"}

Outbox(states, events, robot, payload) ==
  [t \in MissionTopics |->
     CASE t = "mission/state" -> states
       [] t = "mission/events" -> events
       [] t = "robot/command_request" -> robot
       [] t = "payload/command_request" -> payload]

StateMsg(state, message, i, r) ==
  [state |-> state, message |-> message, current_step |-> i, run |-> r]

EventMsg(type, op, r) == [event_type |-> type, operator_id |-> op, run |-> r]

RobotCommand(type, twist, op, r) ==
  [command_type |-> type, twist |-> twist, operator_id |-> op, run |-> r]

StopCommand(op, r) == RobotCommand("stop", NoTwist, op, r)

PayloadCommand(i, op, r) ==
  [payload_type |-> StepAt(i).payload_type, command_type |-> StepAt(i).command_type,
   duration_sec |-> Duration(i), operator_id |-> op, run |-> r]

\* publish_step: the step's command, and then the event that announces it.
StepRobot(i, op, r) ==
  IF StepAt(i).target = "robot"
  THEN <<RobotCommand(StepAt(i).command_type, StepAt(i).twist, op, r)>>
  ELSE << >>

StepPayload(i, op, r) ==
  IF StepAt(i).target = "payload"
  THEN <<PayloadCommand(i, op, r)>>
  ELSE << >>

StepEvents(i, op, r) ==
  CASE StepAt(i).target = "robot" -> <<EventMsg("robot_command_requested", op, r)>>
    [] StepAt(i).target = "payload" -> <<EventMsg("payload_command_requested", op, r)>>
    [] OTHER -> << >>

\* A state, an event and the current step's command, as a start, a resume
\* and an advance publish them.
StepOutbox(state, event, i, op, r) ==
  Outbox(<<state>>, <<EventMsg(event, op, r)>> \o StepEvents(i, op, r),
         StepRobot(i, op, r), StepPayload(i, op, r))

-----------------------------------------------------------------------------
(* The handlers.                                                           *)

MissionInit ==
  /\ current_step_index = -1
  /\ current_step_started = now
  /\ mission_started = FALSE
  /\ mission_complete = FALSE
  /\ mission_paused = FALSE
  /\ mission_canceled = FALSE
  /\ paused_at = NoTime
  /\ current_operator_id = Anonymous
  /\ manager_alive = TRUE
  /\ active = 0
  /\ run = 0

\* Seeded fault: a start accepted while the mission runs.
MayBeginAlways == TRUE

MayBegin == ~mission_started \/ Stopped

\* start_mission when it does start: a finished mission is reset first.  An
\* unsupported step target raises in publish_step and takes the node down.
BeginMission(op, q) ==
  /\ MayBegin
  /\ mission_started' = TRUE
  /\ mission_complete' = FALSE
  /\ mission_paused' = FALSE
  /\ mission_canceled' = FALSE
  /\ paused_at' = IF Stopped THEN NoTime ELSE paused_at
  /\ current_step_index' = 0
  /\ current_step_started' = now
  /\ manager_alive' = Supported(0)
  /\ active' = 0
  /\ run' = (run + 1) % RunIds
  /\ queue' = Deliver(q, StepOutbox(StateMsg("running", "Mission started", 0, run'),
                                    "mission_started", 0, op, run'))

IgnoreStart(op, q) ==
  /\ mission_started /\ ~Stopped
  /\ queue' = Deliver(q, Outbox(<< >>, <<EventMsg("mission_command_ignored", op, run)>>,
                                << >>, << >>))
  /\ UNCHANGED <<current_step_index, current_step_started, flags, paused_at,
                 manager_alive, active, run>>

PauseMission(op, q) ==
  /\ Running
  /\ mission_paused' = TRUE
  /\ paused_at' = now
  /\ queue' = Deliver(q, Outbox(<<StateMsg("paused", "Mission paused", current_step_index, run)>>,
                                <<EventMsg("mission_paused", op, run)>>,
                                <<StopCommand(op, run)>>, << >>))
  /\ UNCHANGED <<current_step_index, current_step_started, mission_started,
                 mission_complete, mission_canceled, manager_alive, active, run>>

\* Seeded faults: the pause counted backwards, and not at all.
ResumedStartBackwards ==
  IF paused_at # NoTime THEN current_step_started - (now - paused_at)
                        ELSE current_step_started
ResumedStartUnshifted == current_step_started

\* The step's start moves forward by the time the mission was paused.
ResumedStart ==
  IF paused_at # NoTime THEN current_step_started + (now - paused_at)
                        ELSE current_step_started

\* The step's command is published once more.
ResumeMission(op, q) ==
  /\ mission_paused
  /\ mission_paused' = FALSE
  /\ paused_at' = NoTime
  /\ current_step_started' = ResumedStart
  /\ LET i == current_step_index
     IN  IF HasStep(i)
         THEN /\ manager_alive' = Supported(i)
              /\ queue' = Deliver(q, StepOutbox(StateMsg("running", "Mission resumed", i, run),
                                                "mission_resumed", i, op, run))
         ELSE /\ queue' = Deliver(q, Outbox(<<StateMsg("running", "Mission resumed", i, run)>>,
                                            <<EventMsg("mission_resumed", op, run)>>, << >>, << >>))
              /\ UNCHANGED manager_alive
  /\ UNCHANGED <<current_step_index, mission_started, mission_complete,
                 mission_canceled, active, run>>

\* Seeded fault: the stop command forgotten.
CancelOutboxWithoutStop(op) ==
  Outbox(<<StateMsg("canceled", "Mission canceled", current_step_index, run)>>,
         <<EventMsg("mission_canceled", op, run)>>, << >>, << >>)

CancelOutbox(op) ==
  Outbox(<<StateMsg("canceled", "Mission canceled", current_step_index, run)>>,
         <<EventMsg("mission_canceled", op, run)>>,
         <<StopCommand(op, run)>>, << >>)

CancelMission(op, q) ==
  /\ ~Stopped
  /\ mission_canceled' = TRUE
  /\ mission_paused' = FALSE
  /\ queue' = Deliver(q, CancelOutbox(op))
  /\ UNCHANGED <<current_step_index, current_step_started, mission_started,
                 mission_complete, paused_at, manager_alive, active, run>>

\* Seeded faults: the reset not announced on mission/state, and the stop
\* command of a reset sent on the wrong condition.
ResetOutboxSilent(op) ==
  Outbox(<< >>, <<EventMsg("mission_reset", op, run)>>,
         IF mission_started /\ ~Stopped THEN <<StopCommand(op, run)>> ELSE << >>,
         << >>)
ResetOutboxUnstopped(op) ==
  Outbox(<<StateMsg("ready", "Mission reset", -1, run)>>,
         <<EventMsg("mission_reset", op, run)>>,
         IF mission_paused THEN <<StopCommand(op, run)>> ELSE << >>,
         << >>)

ResetOutbox(op) ==
  Outbox(<<StateMsg("ready", "Mission reset", -1, run)>>,
         <<EventMsg("mission_reset", op, run)>>,
         IF mission_started /\ ~Stopped THEN <<StopCommand(op, run)>> ELSE << >>,
         << >>)

ResetMission(op, q) ==
  /\ current_step_index' = -1
  /\ current_step_started' = now
  /\ mission_started' = FALSE
  /\ mission_complete' = FALSE
  /\ mission_paused' = FALSE
  /\ mission_canceled' = FALSE
  /\ paused_at' = NoTime
  /\ active' = 0
  /\ queue' = Deliver(q, ResetOutbox(op))
  /\ UNCHANGED <<manager_alive, run>>

RejectCommand(op, q) ==
  /\ queue' = Deliver(q, Outbox(<< >>, <<EventMsg("mission_command_rejected", op, run)>>,
                                << >>, << >>))
  /\ UNCHANGED <<current_step_index, current_step_started, flags, paused_at,
                 manager_alive, active, run>>

\* A command the handler returns from without a trace.
NoEffect(q) ==
  /\ queue' = q
  /\ UNCHANGED <<current_step_index, current_step_started, flags, paused_at,
                 manager_alive, active, run>>

KnownCommands == {"start", "pause", "resume", "cancel", "reset"}

\* handle_mission_command.  The commanding operator is remembered whether or
\* not the command has an effect; a command for another mission is dropped.
HandleMissionCommand(msg, q) ==
  LET op == msg.operator_id IN
  /\ manager_alive
  /\ UNCHANGED now
  /\ \/ /\ ~msg.for_this_mission
        /\ NoEffect(q)
        /\ UNCHANGED current_operator_id
     \/ /\ msg.for_this_mission
        /\ current_operator_id' = op
        /\ \/ /\ msg.command_type = "start"
              /\ BeginMission(op, q) \/ IgnoreStart(op, q)
           \/ /\ msg.command_type = "pause"
              /\ PauseMission(op, q) \/ (~Running /\ NoEffect(q))
           \/ /\ msg.command_type = "resume"
              /\ ResumeMission(op, q) \/ (~mission_paused /\ NoEffect(q))
           \/ /\ msg.command_type = "cancel"
              /\ CancelMission(op, q) \/ (Stopped /\ NoEffect(q))
           \/ /\ msg.command_type = "reset"
              /\ ResetMission(op, q)
           \/ /\ msg.command_type \notin KnownCommands
              /\ RejectCommand(op, q)

AutoStartMission(q) ==
  /\ ~mission_started /\ Autostart
  /\ BeginMission(current_operator_id, q)

\* advance_step to a further step.
NextStep(q) ==
  LET i == current_step_index + 1
      op == current_operator_id
  IN
  /\ i < Len(Steps)
  /\ current_step_index' = i
  /\ current_step_started' = now
  /\ manager_alive' = Supported(i)
  /\ active' = 0
  /\ queue' = Deliver(q, StepOutbox(StateMsg("running", "Running step", i, run),
                                    "step_started", i, op, run))
  /\ UNCHANGED <<flags, paused_at, run>>

\* advance_step past the last step; no stop command is sent.
CompleteMission(q) ==
  /\ current_step_index + 1 >= Len(Steps)
  /\ current_step_index' = current_step_index + 1
  /\ mission_complete' = TRUE
  /\ queue' = Deliver(q, Outbox(<<StateMsg("completed", "Mission completed",
                                           current_step_index + 1, run)>>,
                                <<EventMsg("mission_completed", current_operator_id, run)>>,
                                << >>, << >>))
  /\ UNCHANGED <<current_step_started, mission_started, mission_paused,
                 mission_canceled, paused_at, manager_alive, active, run>>

\* Seeded faults: a step cut short by one, and one that never ends without time.
StepElapsedEarly == now - current_step_started + 1 >= Duration(current_step_index)
StepElapsedStrict == now - current_step_started > Duration(current_step_index)

StepElapsed == now - current_step_started >= Duration(current_step_index)

AdvanceStep(q) ==
  /\ mission_started
  /\ StepElapsed
  /\ NextStep(q) \/ CompleteMission(q)

\* The 0.2 s timer.  A tick that finds nothing to do is a stutter.
Tick(q) ==
  /\ manager_alive
  /\ ~Stopped /\ ~mission_paused
  /\ AutoStartMission(q) \/ AdvanceStep(q)
  /\ UNCHANGED <<current_operator_id, now>>

ClockTick ==
  /\ now < MaxTime
  /\ now' = now + 1
  /\ active' = IF Running THEN active + 1 ELSE active
  /\ UNCHANGED <<current_step_index, current_step_started, flags, paused_at,
                 current_operator_id, manager_alive, run, queue>>

-----------------------------------------------------------------------------
(* The node by itself: any operator may send any command at any time.      *)

MissionCommands ==
  [command_type : KnownCommands \cup {"unknown"}, operator_id : Operators,
   for_this_mission : BOOLEAN]

mission_vars == <<manager, now, queue>>

Observed == [c \in Channels |->
               IF c.topic = "mission/state"
               THEN <<StateMsg("created", "Mission manager ready", -1, 0)>>
               ELSE << >>]

MissionStart == now = 0 /\ MissionInit /\ queue = Observed

Command == \E msg \in MissionCommands : HandleMissionCommand(msg, queue)
TimerTick == Tick(queue)

MissionNext == Command \/ TimerTick \/ ClockTick

MissionSafety == MissionStart /\ [][MissionNext]_mission_vars

\* The executor keeps calling the timer; operators may fall silent.
MissionSpec == MissionSafety /\ WF_mission_vars(TimerTick)

-----------------------------------------------------------------------------
(* Properties.                                                             *)

\* The attributes of the node keep the types its constructor gave them.
MissionTypeOK ==
  /\ current_step_index \in -1..Len(Steps)
  /\ current_step_started \in Nat
  /\ mission_started \in BOOLEAN /\ mission_complete \in BOOLEAN
  /\ mission_paused \in BOOLEAN /\ mission_canceled \in BOOLEAN
  /\ paused_at \in Nat \cup {NoTime}
  /\ current_operator_id \in Operators
  /\ manager_alive \in BOOLEAN
  /\ now \in Nat /\ active \in Nat /\ run \in Nat

\* The clock a tick reads tells how long the step has run, whatever pauses
\* lie behind it: stamps and pauses account for the time exactly.
StepClock ==
  /\ Running => now - current_step_started = active
  /\ mission_paused => /\ paused_at # NoTime
                       /\ paused_at - current_step_started = active

\* No tick cuts a step short: the index moves on only after the step has run
\* unpaused for its duration.
StepServed ==
  [][current_step_index' = current_step_index + 1 /\ mission_started
       => active >= Duration(current_step_index)]_mission_vars

\* The phase of the mission that the flags encode.
Phase ==
  CASE mission_complete -> "completed"
    [] mission_canceled /\ ~mission_complete -> "canceled"
    [] mission_paused /\ ~Stopped -> "paused"
    [] ~mission_started /\ ~mission_paused /\ ~Stopped -> "ready"
    [] Running -> "running"

\* Whoever holds the newest mission/state message knows the mission's phase
\* and step: no handler moves the mission without saying so.
NewestStateIsCurrent ==
  \A c \in Channels :
    c.topic = "mission/state" /\ queue[c] # << >> =>
      LET newest == queue[c][Len(queue[c])] IN
      /\ newest.state = Phase \/ (newest.state = "created" /\ Phase = "ready")
      /\ newest.current_step = current_step_index

\* The last thing the node asked of the robot is to stop.
StopIsNewest ==
  \A c \in Channels : c.topic = "robot/command_request" =>
    /\ queue[c] # << >>
    /\ queue[c][Len(queue[c])].command_type = "stop"

ResetOutOfRun == mission_started /\ ~mission_complete /\ ~mission_started'

\* Pause, cancel and a reset out of a run each decide from the flags whether the
\* robot has to be stopped.  As long as the mission is paused or canceled, and at
\* the moment it is reset without having completed, the last thing the node asked
\* of the robot is to stop.
HaltRequested ==
  [][mission_paused' \/ mission_canceled' \/ ResetOutOfRun => StopIsNewest']_mission_vars

\* The node keeps the promise of the mission's life cycle.
Lifecycle == INSTANCE MissionLifecycle
               WITH NumSteps <- Len(Steps), phase <- Phase, step <- current_step_index

ImplementsLifecycle == Lifecycle!LifecycleSafety

\* ... and with a timer that keeps firing, its progress as well.
ImplementsLifecycleProgress == Lifecycle!LifecycleSpec
=============================================================================
