------------------------ MODULE MissionManagerProofs ------------------------
(***************************************************************************)
(* The mission manager for every mission, every set of operators and every *)
(* sequence of commands and ticks: its attributes keep their types, its    *)
(* clock accounts for pauses, no step is cut short, and it implements the  *)
(* mission's life cycle.  For every depth of the queues, its newest state  *)
(* is its phase and step, and a mission that is held has asked for a stop. *)
(***************************************************************************)
EXTENDS MissionManager, TopicsLemmas

\* A started mission is at one of its steps until it is complete; a mission
\* that was not started is before the first, and only an unfinished mission is
\* paused.
FlowOK ==
  /\ mission_started => current_step_index >= 0
  /\ mission_started /\ ~mission_complete => HasStep(current_step_index)
  /\ ~mission_started => /\ current_step_index = -1
                         /\ ~mission_complete /\ ~mission_paused
  /\ mission_paused => ~Stopped

\* No pause began in the future.
PausesPast == paused_at <= now

MissionInv == MissionTypeOK /\ FlowOK /\ PausesPast /\ StepClock

\* What no handler but the operator's name is left of a command without effect.
Unmoved ==
  UNCHANGED <<current_step_index, current_step_started, flags, paused_at,
              manager_alive, active, run>>

\* The ways the node moves, whoever asked for them.
HandlerStep ==
  \/ Unmoved
  \/ \E op \in Operators :
       \/ BeginMission(op, queue) \/ PauseMission(op, queue) \/ ResumeMission(op, queue)
       \/ CancelMission(op, queue) \/ ResetMission(op, queue)
  \/ Running /\ AdvanceStep(queue)

LEMMA StepCases ==
  ASSUME MissionTypeOK, MissionNext
  PROVE  \/ HandlerStep /\ UNCHANGED now /\ current_operator_id' \in Operators
         \/ ClockTick
<1>1. ASSUME NEW msg \in MissionCommands, HandleMissionCommand(msg, queue)
      PROVE  HandlerStep /\ UNCHANGED now /\ current_operator_id' \in Operators
  <2>1. msg.operator_id \in Operators
    BY DEF MissionCommands
  <2> QED
    BY <1>1, <2>1
       DEF HandleMissionCommand, HandlerStep, Unmoved, NoEffect, IgnoreStart, RejectCommand,
           MissionTypeOK
<1>2. CASE TimerTick
  BY <1>2 DEF TimerTick, Tick, AutoStartMission, AdvanceStep, HandlerStep, Running, MissionTypeOK
<1> QED
  BY <1>1, <1>2 DEF MissionNext, Command

-----------------------------------------------------------------------------
(* The invariant.                                                          *)

\* The types that no arithmetic touches, and those that count steps, time and
\* runs.
FlagsOK ==
  /\ mission_started \in BOOLEAN /\ mission_complete \in BOOLEAN
  /\ mission_paused \in BOOLEAN /\ mission_canceled \in BOOLEAN
  /\ manager_alive \in BOOLEAN

CountersOK ==
  /\ current_step_index \in -1..Len(Steps)
  /\ current_step_started \in Nat
  /\ paused_at \in Nat \cup {NoTime}
  /\ now \in Nat /\ active \in Nat /\ run \in Nat
  /\ PausesPast

LEMMA InitInv ==
  ASSUME now = 0, MissionInit
  PROVE  MissionInv
<1>1. Len(Steps) \in Nat \ {0} /\ Anonymous \in Operators
  BY MissionAssumption
<1>2. FlagsOK /\ current_operator_id \in Operators
  BY <1>1 DEF MissionInit, FlagsOK
<1>3. CountersOK
  BY <1>1 DEF MissionInit, CountersOK, PausesPast, NoTime
<1>4. FlowOK /\ StepClock
  BY DEF MissionInit, FlowOK, StepClock, Running
<1> QED
  BY <1>2, <1>3, <1>4 DEF MissionInv, MissionTypeOK, FlagsOK, CountersOK

-----------------------------------------------------------------------------
(* What the actions set, the flags read as formulas.                       *)

FlagsKept ==
  /\ mission_started' <=> mission_started
  /\ mission_complete' <=> mission_complete
  /\ mission_paused' <=> mission_paused
  /\ mission_canceled' <=> mission_canceled

LEMMA UnmovedEffect ==
  ASSUME Unmoved
  PROVE  /\ FlagsKept
         /\ UNCHANGED <<current_step_index, current_step_started, paused_at, active, run>>
BY DEF Unmoved, flags, FlagsKept

LEMMA BeginEffect ==
  ASSUME NEW op, BeginMission(op, queue)
  PROVE  /\ MayBegin
         /\ mission_started' /\ ~mission_complete' /\ ~mission_paused' /\ ~mission_canceled'
         /\ current_step_index' = 0
         /\ paused_at' = NoTime \/ paused_at' = paused_at
         /\ current_step_started' = now /\ active' = 0
         /\ run' = (run + 1) % RunIds
BY DEF BeginMission

LEMMA PauseEffect ==
  ASSUME NEW op, PauseMission(op, queue)
  PROVE  /\ Running
         /\ mission_started' <=> mission_started
         /\ mission_complete' <=> mission_complete
         /\ mission_canceled' <=> mission_canceled
         /\ mission_paused' /\ paused_at' = now
         /\ UNCHANGED <<current_step_index, current_step_started, active, run>>
BY DEF PauseMission

LEMMA ResumeEffect ==
  ASSUME NEW op, ResumeMission(op, queue)
  PROVE  /\ mission_paused /\ ~mission_paused'
         /\ mission_started' <=> mission_started
         /\ mission_complete' <=> mission_complete
         /\ mission_canceled' <=> mission_canceled
         /\ paused_at' = NoTime /\ current_step_started' = ResumedStart
         /\ UNCHANGED <<current_step_index, active, run>>
BY DEF ResumeMission

LEMMA CancelEffect ==
  ASSUME NEW op, CancelMission(op, queue)
  PROVE  /\ ~Stopped
         /\ mission_started' <=> mission_started
         /\ mission_complete' <=> mission_complete
         /\ ~mission_paused' /\ mission_canceled'
         /\ UNCHANGED <<current_step_index, current_step_started, paused_at, active, run>>
BY DEF CancelMission

LEMMA ResetEffect ==
  ASSUME NEW op, ResetMission(op, queue)
  PROVE  /\ ~mission_started' /\ ~mission_complete' /\ ~mission_paused' /\ ~mission_canceled'
         /\ current_step_index' = -1 /\ current_step_started' = now
         /\ paused_at' = NoTime /\ active' = 0 /\ run' = run
BY DEF ResetMission

LEMMA NextStepEffect ==
  ASSUME NextStep(queue)
  PROVE  /\ FlagsKept
         /\ current_step_index + 1 < Len(Steps)
         /\ current_step_index' = current_step_index + 1
         /\ current_step_started' = now /\ active' = 0
         /\ UNCHANGED <<paused_at, run>>
BY DEF NextStep, flags, FlagsKept

LEMMA CompleteEffect ==
  ASSUME CompleteMission(queue)
  PROVE  /\ mission_complete'
         /\ mission_started' <=> mission_started
         /\ mission_paused' <=> mission_paused
         /\ mission_canceled' <=> mission_canceled
         /\ current_step_index + 1 >= Len(Steps)
         /\ current_step_index' = current_step_index + 1
         /\ UNCHANGED <<current_step_started, paused_at, active, run>>
BY DEF CompleteMission

LEMMA ClockEffect ==
  ASSUME ClockTick
  PROVE  /\ FlagsKept
         /\ now' = now + 1 /\ active' = IF Running THEN active + 1 ELSE active
         /\ UNCHANGED <<current_step_index, current_step_started, paused_at, run>>
BY DEF ClockTick, flags, FlagsKept

LEMMA StutterEffect ==
  ASSUME UNCHANGED mission_vars
  PROVE  Unmoved /\ UNCHANGED <<now, current_operator_id>>
BY DEF mission_vars, manager, flags, Unmoved

-----------------------------------------------------------------------------
(* One step keeps each part of the invariant.                              *)

LEMMA FlowStep ==
  ASSUME MissionTypeOK, FlowOK, [MissionNext]_mission_vars
  PROVE  FlowOK'
<1> USE DEF FlowOK, HasStep, Stopped
<1>1. Len(Steps) \in Nat \ {0} /\ current_step_index \in Int
  BY MissionAssumption DEF MissionTypeOK
<1>2. CASE Unmoved
  BY <1>2, UnmovedEffect DEF FlagsKept
<1>3. ASSUME NEW op \in Operators, BeginMission(op, queue) PROVE FlowOK'
  BY <1>1, <1>3, BeginEffect
<1>4. ASSUME NEW op \in Operators, PauseMission(op, queue) PROVE FlowOK'
  BY <1>4, PauseEffect DEF Running
<1>5. ASSUME NEW op \in Operators, ResumeMission(op, queue) PROVE FlowOK'
  BY <1>5, ResumeEffect
<1>6. ASSUME NEW op \in Operators, CancelMission(op, queue) PROVE FlowOK'
  BY <1>6, CancelEffect
<1>7. ASSUME NEW op \in Operators, ResetMission(op, queue) PROVE FlowOK'
  BY <1>7, ResetEffect
<1>8. CASE Running /\ AdvanceStep(queue)
  <2>1. CASE NextStep(queue)
    BY <1>1, <1>8, <2>1, NextStepEffect DEF Running, FlagsKept
  <2>2. CASE CompleteMission(queue)
    BY <1>1, <1>8, <2>2, CompleteEffect DEF Running
  <2> QED
    BY <1>8, <2>1, <2>2 DEF AdvanceStep
<1>9. CASE ClockTick
  BY <1>9, ClockEffect DEF FlagsKept
<1> QED
  BY <1>2, <1>3, <1>4, <1>5, <1>6, <1>7, <1>8, <1>9, StepCases, StutterEffect DEF HandlerStep

\* A resume moves the step's start forward by the pause, which lies in the past.
LEMMA ResumedForward ==
  ASSUME MissionTypeOK, PausesPast, StepClock, mission_paused
  PROVE  /\ paused_at \in Nat /\ paused_at <= now
         /\ ResumedStart = current_step_started + (now - paused_at)
         /\ ResumedStart \in Nat
BY DEF ResumedStart, MissionTypeOK, StepClock, PausesPast, NoTime

LEMMA SupportedBoolean == \A i : Supported(i) \in BOOLEAN
BY DEF Supported

LEMMA FlagsStep ==
  ASSUME MissionTypeOK, [MissionNext]_mission_vars
  PROVE  FlagsOK'
<1> FlagsOK
  BY DEF MissionTypeOK, FlagsOK
<1>1. CASE Unmoved
  BY <1>1 DEF Unmoved, flags, FlagsOK
<1>2. ASSUME NEW op \in Operators, BeginMission(op, queue) PROVE FlagsOK'
  BY <1>2, SupportedBoolean DEF BeginMission, FlagsOK
<1>3. ASSUME NEW op \in Operators, PauseMission(op, queue) PROVE FlagsOK'
  BY <1>3 DEF PauseMission, FlagsOK
<1>4. ASSUME NEW op \in Operators, ResumeMission(op, queue) PROVE FlagsOK'
  <2>1. ASSUME HasStep(current_step_index) PROVE manager_alive' \in BOOLEAN
    BY <1>4, <2>1, SupportedBoolean DEF ResumeMission
  <2>2. ASSUME ~HasStep(current_step_index) PROVE manager_alive' \in BOOLEAN
    BY <1>4, <2>2 DEF ResumeMission, FlagsOK
  <2> QED
    BY <1>4, <2>1, <2>2 DEF ResumeMission, FlagsOK
<1>5. ASSUME NEW op \in Operators, CancelMission(op, queue) PROVE FlagsOK'
  BY <1>5 DEF CancelMission, FlagsOK
<1>6. ASSUME NEW op \in Operators, ResetMission(op, queue) PROVE FlagsOK'
  BY <1>6 DEF ResetMission, FlagsOK
<1>7. CASE Running /\ AdvanceStep(queue)
  BY <1>7, SupportedBoolean DEF AdvanceStep, NextStep, CompleteMission, flags, FlagsOK
<1>8. CASE ClockTick \/ UNCHANGED mission_vars
  BY <1>8 DEF ClockTick, mission_vars, manager, flags, FlagsOK
<1> QED
  BY <1>1, <1>2, <1>3, <1>4, <1>5, <1>6, <1>7, <1>8, StepCases DEF HandlerStep

LEMMA CountersStep ==
  ASSUME MissionInv, [MissionNext]_mission_vars
  PROVE  CountersOK'
<1> CountersOK
  BY DEF MissionInv, MissionTypeOK, CountersOK
<1> USE DEF CountersOK, PausesPast, NoTime
<1>1. Len(Steps) \in Nat \ {0} /\ (run + 1) % RunIds \in Nat
  BY MissionAssumption
<1>2. CASE Unmoved /\ UNCHANGED now
  BY <1>2, UnmovedEffect
<1>3. ASSUME NEW op \in Operators, BeginMission(op, queue), UNCHANGED now PROVE CountersOK'
  BY <1>1, <1>3, BeginEffect
<1>4. ASSUME NEW op \in Operators, PauseMission(op, queue), UNCHANGED now PROVE CountersOK'
  BY <1>4, PauseEffect
<1>5. ASSUME NEW op \in Operators, ResumeMission(op, queue), UNCHANGED now PROVE CountersOK'
  <2>1. ResumedStart \in Nat
    BY <1>5, ResumeEffect, ResumedForward DEF MissionInv
  <2> QED
    BY <1>5, <2>1, ResumeEffect
<1>6. ASSUME NEW op \in Operators, CancelMission(op, queue), UNCHANGED now PROVE CountersOK'
  BY <1>6, CancelEffect
<1>7. ASSUME NEW op \in Operators, ResetMission(op, queue), UNCHANGED now PROVE CountersOK'
  BY <1>1, <1>7, ResetEffect
<1>8. CASE Running /\ AdvanceStep(queue) /\ UNCHANGED now
  <2>1. current_step_index \in 0..(Len(Steps) - 1)
    BY <1>8 DEF MissionInv, FlowOK, HasStep, Running, Stopped
  <2>2. CASE NextStep(queue)
    BY <1>1, <1>8, <2>1, <2>2, NextStepEffect
  <2>3. CASE CompleteMission(queue)
    BY <1>1, <1>8, <2>1, <2>3, CompleteEffect
  <2> QED
    BY <1>8, <2>2, <2>3 DEF AdvanceStep
<1>9. CASE ClockTick
  BY <1>9, ClockEffect
<1> QED
  BY <1>2, <1>3, <1>4, <1>5, <1>6, <1>7, <1>8, <1>9, StepCases, StutterEffect
     DEF HandlerStep, MissionInv

LEMMA ClockStep ==
  ASSUME MissionInv, [MissionNext]_mission_vars
  PROVE  StepClock'
<1> USE DEF StepClock, Running, Stopped
<1>1. now \in Nat /\ active \in Nat /\ current_step_started \in Nat
  BY DEF MissionInv, MissionTypeOK
<1>2. StepClock /\ (~mission_started => ~mission_paused)
  BY DEF MissionInv, FlowOK
<1>3. CASE Unmoved /\ UNCHANGED now
  BY <1>2, <1>3, UnmovedEffect DEF FlagsKept
<1>4. ASSUME NEW op \in Operators, BeginMission(op, queue), UNCHANGED now PROVE StepClock'
  BY <1>1, <1>4, BeginEffect
<1>5. ASSUME NEW op \in Operators, PauseMission(op, queue), UNCHANGED now PROVE StepClock'
  BY <1>1, <1>2, <1>5, PauseEffect DEF NoTime
<1>6. ASSUME NEW op \in Operators, ResumeMission(op, queue), UNCHANGED now PROVE StepClock'
  <2>1. /\ paused_at \in Nat /\ paused_at - current_step_started = active
        /\ ResumedStart = current_step_started + (now - paused_at)
    BY <1>2, <1>6, ResumeEffect, ResumedForward DEF MissionInv
  <2> QED
    BY <1>1, <1>6, <2>1, ResumeEffect
<1>7. ASSUME NEW op \in Operators, CancelMission(op, queue), UNCHANGED now PROVE StepClock'
  BY <1>7, CancelEffect
<1>8. ASSUME NEW op \in Operators, ResetMission(op, queue), UNCHANGED now PROVE StepClock'
  BY <1>8, ResetEffect
<1>9. CASE Running /\ AdvanceStep(queue) /\ UNCHANGED now
  <2>1. CASE NextStep(queue)
    BY <1>1, <1>9, <2>1, NextStepEffect DEF FlagsKept
  <2>2. CASE CompleteMission(queue)
    BY <1>9, <2>2, CompleteEffect
  <2> QED
    BY <1>9, <2>1, <2>2 DEF AdvanceStep
<1>10. CASE ClockTick
  BY <1>1, <1>2, <1>10, ClockEffect DEF FlagsKept
<1> QED
  BY <1>3, <1>4, <1>5, <1>6, <1>7, <1>8, <1>9, <1>10, StepCases, StutterEffect
     DEF HandlerStep, MissionInv

LEMMA InvStep == MissionInv /\ [MissionNext]_mission_vars => MissionInv'
<1> SUFFICES ASSUME MissionInv, [MissionNext]_mission_vars PROVE MissionInv'
  OBVIOUS
<1>1. current_operator_id' \in Operators
  BY StepCases DEF MissionInv, MissionTypeOK, ClockTick, mission_vars, manager
<1>2. FlagsOK' /\ CountersOK' /\ FlowOK' /\ StepClock'
  BY FlagsStep, CountersStep, FlowStep, ClockStep DEF MissionInv
<1> QED
  BY <1>1, <1>2 DEF MissionInv, MissionTypeOK, FlagsOK, CountersOK

THEOREM MissionInvariant == MissionSafety => []MissionInv
<1>1. MissionStart => MissionInv
  BY InitInv DEF MissionStart
<1> QED
  BY <1>1, InvStep, PTL DEF MissionSafety

\* The node's attributes keep the types its constructor gave them.
THEOREM MissionTypeCorrect == MissionSafety => []MissionTypeOK
BY MissionInvariant, PTL DEF MissionInv

\* The step's stamp accounts exactly for the time the step has run unpaused.
THEOREM StepClockExact == MissionSafety => []StepClock
BY MissionInvariant, PTL DEF MissionInv

\* No tick cuts a step short, whatever pauses lie behind it.
THEOREM StepsServed == MissionSafety => StepServed
<1> DEFINE Served == current_step_index' = current_step_index + 1 /\ mission_started
                       => active >= Duration(current_step_index)
<1>1. ASSUME MissionInv, [MissionNext]_mission_vars PROVE [Served]_mission_vars
  <2> SUFFICES ASSUME current_step_index' = current_step_index + 1, mission_started
               PROVE  active >= Duration(current_step_index)
    OBVIOUS
  <2>1. current_step_index \in Nat
    BY <1>1, MissionAssumption DEF MissionInv, MissionTypeOK, FlowOK
  <2>2. Running /\ AdvanceStep(queue)
    BY <1>1, <2>1, StepCases, UnmovedEffect, BeginEffect, PauseEffect, ResumeEffect,
       CancelEffect, ResetEffect, ClockEffect, StutterEffect DEF HandlerStep, MissionInv
  <2>3. now - current_step_started >= Duration(current_step_index)
    BY <2>2 DEF AdvanceStep, StepElapsed
  <2> QED
    BY <1>1, <2>2, <2>3 DEF MissionInv, StepClock
<1>2. MissionSafety => [][Served]_mission_vars
  BY <1>1, MissionInvariant, PTL DEF MissionSafety
<1> QED
  BY <1>2 DEF StepServed

-----------------------------------------------------------------------------
(* The life cycle.                                                         *)

\* What the phase says of the flags.
LEMMA PhaseMeaning ==
  ASSUME FlowOK
  PROVE  /\ Phase = "completed" <=> mission_complete
         /\ Phase = "canceled" <=> mission_canceled /\ ~mission_complete
         /\ Phase = "paused" <=> mission_paused
         /\ Phase = "ready" <=> ~mission_started /\ ~mission_canceled
         /\ Phase = "running" <=> Running
         /\ Phase \in {"ready", "running", "paused", "completed", "canceled"}
BY DEF Phase, FlowOK, Running, Stopped

LEMMA LifecycleStep ==
  ASSUME MissionInv, MissionInv', [MissionNext]_mission_vars
  PROVE  [Lifecycle!LifecycleNext]_(Lifecycle!lifecycle)
<1> DEFINE Kept == Phase' = Phase /\ current_step_index' = current_step_index
<1> SUFFICES Lifecycle!LifecycleNext \/ Kept
  BY DEF Lifecycle!lifecycle
<1> USE DEF Lifecycle!LifecycleNext
<1>1. FlowOK /\ FlowOK'
  BY DEF MissionInv
<1>2. ASSUME FlagsKept, UNCHANGED current_step_index PROVE Kept
  BY <1>2 DEF FlagsKept, Phase, Running, Stopped
<1>3. CASE Unmoved \/ ClockTick
  BY <1>2, <1>3, UnmovedEffect, ClockEffect
<1>4. ASSUME NEW op \in Operators, BeginMission(op, queue) PROVE Lifecycle!Start
  <2>1. Phase \in {"ready", "completed", "canceled"}
    BY <1>1, <1>4, BeginEffect, PhaseMeaning DEF MayBegin, Stopped
  <2>2. Phase' = "running"
    BY <1>4, BeginEffect DEF Phase, Running, Stopped
  <2> QED
    BY <1>4, <2>1, <2>2, BeginEffect DEF Lifecycle!Start
<1>5. ASSUME NEW op \in Operators, PauseMission(op, queue) PROVE Lifecycle!Pause
  <2>1. Phase = "running"
    BY <1>1, <1>5, PauseEffect, PhaseMeaning
  <2>2. Phase' = "paused"
    BY <1>5, PauseEffect DEF Phase, Running, Stopped
  <2> QED
    BY <1>5, <2>1, <2>2, PauseEffect DEF Lifecycle!Pause
<1>6. ASSUME NEW op \in Operators, ResumeMission(op, queue) PROVE Lifecycle!Resume
  <2>1. Phase = "paused"
    BY <1>1, <1>6, ResumeEffect, PhaseMeaning
  <2>2. Phase' = "running"
    BY <1>1, <1>6, ResumeEffect DEF Phase, Running, FlowOK, Stopped
  <2> QED
    BY <1>6, <2>1, <2>2, ResumeEffect DEF Lifecycle!Resume
<1>7. ASSUME NEW op \in Operators, CancelMission(op, queue) PROVE Lifecycle!Cancel
  <2>1. Phase \in {"ready", "running", "paused"}
    BY <1>7, CancelEffect DEF Phase, Running, Stopped
  <2>2. Phase' = "canceled"
    BY <1>7, CancelEffect DEF Phase, Running, Stopped
  <2> QED
    BY <1>7, <2>1, <2>2, CancelEffect DEF Lifecycle!Cancel
<1>8. ASSUME NEW op \in Operators, ResetMission(op, queue) PROVE Lifecycle!Reset
  <2>1. Phase' = "ready"
    BY <1>8, ResetEffect DEF Phase, Running, Stopped
  <2> QED
    BY <1>8, <2>1, ResetEffect DEF Lifecycle!Reset
<1>9. CASE Running /\ AdvanceStep(queue)
  <2>1. Phase = "running"
    BY <1>1, <1>9, PhaseMeaning
  <2>2. ASSUME NextStep(queue) PROVE Lifecycle!Advance
    <3>1. Phase' = "running"
      BY <2>1, <2>2, NextStepEffect DEF FlagsKept, Phase, Running, Stopped
    <3>2. ~(current_step_index + 1 >= Len(Steps))
      BY <2>2, NextStepEffect, MissionAssumption DEF MissionInv, MissionTypeOK
    <3> QED
      BY <2>1, <2>2, <3>1, <3>2, NextStepEffect DEF Lifecycle!Advance
  <2>3. ASSUME CompleteMission(queue) PROVE Lifecycle!Advance
    <3>1. Phase' = "completed"
      BY <2>3, CompleteEffect DEF Phase, Running, Stopped
    <3> QED
      BY <2>1, <2>3, <3>1, CompleteEffect DEF Lifecycle!Advance
  <2> QED
    BY <1>9, <2>2, <2>3 DEF AdvanceStep
<1> QED
  BY <1>3, <1>4, <1>5, <1>6, <1>7, <1>8, <1>9, StepCases, StutterEffect
     DEF HandlerStep, MissionInv

\* Whatever operators command and whenever the timer fires, the mission goes
\* through its phases and steps as the life cycle says.
THEOREM LifecycleKept == MissionSafety => ImplementsLifecycle
<1>1. MissionStart => Lifecycle!LifecycleInit
  BY DEF MissionStart, MissionInit, Phase, Running, Stopped, Lifecycle!LifecycleInit
<1> QED
  BY <1>1, MissionInvariant, LifecycleStep, PTL
     DEF MissionSafety, ImplementsLifecycle, Lifecycle!LifecycleSafety

-----------------------------------------------------------------------------
(* What the node says.                                                     *)

\* What a reader of channel c finds last.
Last(s) == s[Len(s)]

ElementsOf(s) == {s[i] : i \in 1..Len(s)}

\* The channels of the two topics that the properties speak of.
Heard == {c \in Channels : c.topic \in {"mission/state", "robot/command_request"}}

Lists == \A c \in Heard : queue[c] \in Seq(ElementsOf(queue[c]))

HaltAnnounced == mission_paused \/ mission_canceled => StopIsNewest

MessagesInv == Lists /\ NewestStateIsCurrent /\ HaltAnnounced

-----------------------------------------------------------------------------
(* Queues.                                                                 *)

LEMMA SeqOfItself ==
  ASSUME NEW M, NEW s \in Seq(M)
  PROVE  s \in Seq(ElementsOf(s))
<1>1. \A i \in 1..Len(s) : s[i] \in ElementsOf(s)
  BY DEF ElementsOf
<1>2. Len(s) \in Nat /\ s = [i \in 1..Len(s) |-> s[i]]
  OBVIOUS
<1> QED  BY <1>1, <1>2

\* A message becomes the newest of its queue; without one the newest stays.
LEMMA QueueAfter ==
  ASSUME NEW s, s \in Seq(ElementsOf(s)), NEW t, NEW q, q = KeepLast(s \o t)
  PROVE  /\ \A m : t = <<m>> => q # << >> /\ Last(q) = m /\ q \in Seq(ElementsOf(q))
         /\ t = << >> => /\ q \in Seq(ElementsOf(q))
                         /\ s # << >> => q # << >> /\ Last(q) = Last(s)
                         /\ q # << >> => s # << >>
<1>1. ASSUME NEW m, t = <<m>> PROVE q # << >> /\ Last(q) = m /\ q \in Seq(ElementsOf(q))
  <2> DEFINE M == ElementsOf(s) \cup {m}
  <2>1. s \in Seq(M) /\ m \in M
    OBVIOUS
  <2> HIDE DEF M
  <2>2. q \in Seq(M) /\ q # << >> /\ q[Len(q)] = m
    BY <1>1, <2>1, DeliverOne
  <2> QED  BY <2>2, SeqOfItself DEF Last
<1>2. ASSUME t = << >>
      PROVE  /\ q \in Seq(ElementsOf(q))
             /\ s # << >> => q # << >> /\ Last(q) = Last(s)
             /\ q # << >> => s # << >>
  <2>1. q = KeepLast(s)
    BY <1>2, ConcatEmptySeq
  <2>2. q \in Seq(ElementsOf(s)) /\ (s # << >> => q # << >> /\ q[Len(q)] = s[Len(s)])
    BY <2>1, KeepLastKeepsNewest
  <2>3. s = << >> => q = << >>
    BY <2>1, DepthAssumption DEF KeepLast
  <2> QED  BY <2>2, <2>3, SeqOfItself DEF Last
<1> QED  BY <1>1, <1>2

OneOrNone(t) == t = << >> \/ \E m : t = <<m>>

\* What publishing t, one message or none, does to the queues of a topic.
NewestOn(topic, t) ==
  \A c \in Channels : c.topic = topic =>
    /\ \A m : t = <<m>> => queue'[c] # << >> /\ Last(queue'[c]) = m
    /\ t = << >> => /\ queue[c] # << >> => queue'[c] # << >> /\ Last(queue'[c]) = Last(queue[c])
                    /\ queue'[c] # << >> => queue[c] # << >>

LEMMA Published ==
  ASSUME Lists, NEW states, NEW events, NEW robot, NEW payload,
         queue' = Deliver(queue, Outbox(states, events, robot, payload)),
         OneOrNone(states), OneOrNone(robot)
  PROVE  Lists' /\ NewestOn("mission/state", states) /\ NewestOn("robot/command_request", robot)
<1> DEFINE out(c) == IF c.topic = "mission/state" THEN states ELSE robot
<1>1. \A c \in Heard : queue'[c] = KeepLast(queue[c] \o out(c))
  BY DEF Heard, Deliver, Outbox, MissionTopics
<1>2. \A c \in Heard : OneOrNone(out(c))
  OBVIOUS
<1>3. \A c \in Channels : c.topic = "mission/state" => c \in Heard /\ out(c) = states
  BY DEF Heard
<1>4. \A c \in Channels : c.topic = "robot/command_request" => c \in Heard /\ out(c) = robot
  BY DEF Heard
<1> HIDE DEF out
<1>5. ASSUME NEW c \in Heard
      PROVE  /\ queue'[c] \in Seq(ElementsOf(queue'[c]))
             /\ \A m : out(c) = <<m>> => queue'[c] # << >> /\ Last(queue'[c]) = m
             /\ out(c) = << >> =>
                  /\ queue[c] # << >> => queue'[c] # << >> /\ Last(queue'[c]) = Last(queue[c])
                  /\ queue'[c] # << >> => queue[c] # << >>
  <2>1. queue[c] \in Seq(ElementsOf(queue[c]))
    BY DEF Lists
  <2> QED  BY <1>1, <1>2, <2>1, QueueAfter DEF OneOrNone
<1>6. Lists'
  BY <1>5 DEF Lists, Heard
<1> QED  BY <1>3, <1>4, <1>5, <1>6 DEF NewestOn

LEMMA Ones == OneOrNone(<< >>) /\ \A m : OneOrNone(<<m>>)
BY DEF OneOrNone

\* A handler that announces its state keeps the newest state current.
LEMMA StateSaid ==
  ASSUME Lists, NEW m, NEW events, NEW robot, NEW payload,
         queue' = Deliver(queue, Outbox(<<m>>, events, robot, payload)),
         OneOrNone(robot),
         m.state = Phase', m.current_step = current_step_index'
  PROVE  Lists' /\ NewestStateIsCurrent'
<1>1. Lists' /\ NewestOn("mission/state", <<m>>)
  BY Ones, Published
<1>2. \A c \in Channels : c.topic = "mission/state" => Last(queue'[c]) = m
  BY <1>1 DEF NewestOn
<1> QED  BY <1>1, <1>2 DEF NewestStateIsCurrent, Last

\* A handler that asks for a stop may hold the mission.
LEMMA StopSaid ==
  ASSUME Lists, NEW m, NEW r, NEW events, NEW payload,
         queue' = Deliver(queue, Outbox(<<m>>, events, <<r>>, payload)),
         r.command_type = "stop"
  PROVE  StopIsNewest'
<1>1. NewestOn("robot/command_request", <<r>>)
  BY Ones, Published
<1>2. \A c \in Channels : c.topic = "robot/command_request"
         => queue'[c] # << >> /\ Last(queue'[c]) = r
  BY <1>1 DEF NewestOn
<1> QED  BY <1>2 DEF StopIsNewest, Last

LEMMA RobotOneOrNone ==
  ASSUME NEW i, NEW op, NEW r
  PROVE  OneOrNone(StepRobot(i, op, r))
BY DEF StepRobot, OneOrNone

-----------------------------------------------------------------------------
(* The handlers.                                                           *)

LEMMA SilentStep ==
  ASSUME MessagesInv, NEW events, Unmoved,
         queue' = Deliver(queue, Outbox(<< >>, events, << >>, << >>)) \/ queue' = queue
  PROVE  MessagesInv'
<1>1. UNCHANGED <<Phase, current_step_index, mission_paused, mission_canceled>>
  BY DEF Unmoved, flags, Phase, Stopped, Running
<1>2. CASE queue' = queue
  BY <1>1, <1>2 DEF MessagesInv, Lists, Heard, NewestStateIsCurrent, HaltAnnounced, StopIsNewest
<1>3. CASE queue' = Deliver(queue, Outbox(<< >>, events, << >>, << >>))
  <2>1. Lists' /\ NewestOn("mission/state", << >>) /\ NewestOn("robot/command_request", << >>)
    BY <1>3, Ones, Published DEF MessagesInv
  <2>2. /\ Lists'
        /\ \A c \in Heard :
             /\ queue[c] # << >> => queue'[c] # << >> /\ Last(queue'[c]) = Last(queue[c])
             /\ queue'[c] # << >> => queue[c] # << >>
    BY <2>1 DEF NewestOn, Heard
  <2>3. NewestStateIsCurrent'
    BY <1>1, <2>2 DEF MessagesInv, NewestStateIsCurrent, Last, Heard
  <2>4. HaltAnnounced'
    BY <1>1, <2>2 DEF MessagesInv, HaltAnnounced, StopIsNewest, Last, Heard
  <2> QED  BY <2>2, <2>3, <2>4 DEF MessagesInv
<1> QED  BY <1>2, <1>3

LEMMA BeginSaid ==
  ASSUME MessagesInv, NEW op, BeginMission(op, queue)
  PROVE  MessagesInv'
<1> DEFINE m == StateMsg("running", "Mission started", 0, run')
           events == <<EventMsg("mission_started", op, run')>> \o StepEvents(0, op, run')
<1>1. queue' = Deliver(queue, Outbox(<<m>>, events, StepRobot(0, op, run'), StepPayload(0, op, run')))
  BY DEF BeginMission, StepOutbox
<1>2. Phase' = "running"
  BY BeginEffect DEF Phase, Running, Stopped
<1>3. m.state = Phase' /\ m.current_step = current_step_index'
  BY <1>2, BeginEffect DEF StateMsg
<1> HIDE DEF m, events
<1>4. Lists' /\ NewestStateIsCurrent'
  BY <1>1, <1>3, StateSaid, RobotOneOrNone DEF MessagesInv
<1>5. HaltAnnounced'
  BY BeginEffect DEF HaltAnnounced
<1> QED  BY <1>4, <1>5 DEF MessagesInv

LEMMA PauseSaid ==
  ASSUME MessagesInv, NEW op, PauseMission(op, queue)
  PROVE  MessagesInv'
<1> DEFINE m == StateMsg("paused", "Mission paused", current_step_index, run)
           r == StopCommand(op, run)
           events == <<EventMsg("mission_paused", op, run)>>
<1>1. queue' = Deliver(queue, Outbox(<<m>>, events, <<r>>, << >>))
  BY DEF PauseMission
<1>2. Phase' = "paused"
  BY PauseEffect DEF Phase, Running, Stopped
<1>3. m.state = Phase' /\ m.current_step = current_step_index' /\ r.command_type = "stop"
  BY <1>2, PauseEffect DEF StateMsg, StopCommand, RobotCommand
<1> HIDE DEF m, r, events
<1>4. Lists' /\ NewestStateIsCurrent'
  BY <1>1, <1>3, Ones, StateSaid DEF MessagesInv
<1>5. HaltAnnounced'
  BY <1>1, <1>3, StopSaid DEF MessagesInv, HaltAnnounced
<1> QED  BY <1>4, <1>5 DEF MessagesInv

LEMMA ResumeSaid ==
  ASSUME MessagesInv, FlowOK, NEW op, ResumeMission(op, queue)
  PROVE  MessagesInv'
<1> DEFINE i == current_step_index
           m == StateMsg("running", "Mission resumed", i, run)
           events == <<EventMsg("mission_resumed", op, run)>> \o StepEvents(i, op, run)
<1>1. HasStep(i)
  BY ResumeEffect DEF FlowOK, Stopped
<1>2. queue' = Deliver(queue, Outbox(<<m>>, events, StepRobot(i, op, run), StepPayload(i, op, run)))
  BY <1>1 DEF ResumeMission, StepOutbox
<1>3. Phase' = "running" /\ ~mission_paused' /\ ~mission_canceled'
  BY ResumeEffect DEF Phase, Running, FlowOK, Stopped
<1>4. m.state = Phase' /\ m.current_step = current_step_index'
  BY <1>3, ResumeEffect DEF StateMsg
<1> HIDE DEF m, events
<1>5. Lists' /\ NewestStateIsCurrent'
  BY <1>2, <1>4, StateSaid, RobotOneOrNone DEF MessagesInv
<1>6. HaltAnnounced'
  BY <1>3 DEF HaltAnnounced
<1> QED  BY <1>5, <1>6 DEF MessagesInv

LEMMA CancelSaid ==
  ASSUME MessagesInv, NEW op, CancelMission(op, queue)
  PROVE  MessagesInv'
<1> DEFINE m == StateMsg("canceled", "Mission canceled", current_step_index, run)
           r == StopCommand(op, run)
           events == <<EventMsg("mission_canceled", op, run)>>
<1>1. queue' = Deliver(queue, Outbox(<<m>>, events, <<r>>, << >>))
  BY DEF CancelMission, CancelOutbox
<1>2. Phase' = "canceled"
  BY CancelEffect DEF Phase, Running, Stopped
<1>3. m.state = Phase' /\ m.current_step = current_step_index' /\ r.command_type = "stop"
  BY <1>2, CancelEffect DEF StateMsg, StopCommand, RobotCommand
<1> HIDE DEF m, r, events
<1>4. Lists' /\ NewestStateIsCurrent'
  BY <1>1, <1>3, Ones, StateSaid DEF MessagesInv
<1>5. HaltAnnounced'
  BY <1>1, <1>3, StopSaid DEF MessagesInv, HaltAnnounced
<1> QED  BY <1>4, <1>5 DEF MessagesInv

LEMMA ResetSaid ==
  ASSUME MessagesInv, NEW op, ResetMission(op, queue)
  PROVE  MessagesInv'
<1> DEFINE m == StateMsg("ready", "Mission reset", -1, run)
           events == <<EventMsg("mission_reset", op, run)>>
           robot == IF mission_started /\ ~Stopped THEN <<StopCommand(op, run)>> ELSE << >>
<1>1. queue' = Deliver(queue, Outbox(<<m>>, events, robot, << >>))
  BY DEF ResetMission, ResetOutbox
<1>2. OneOrNone(robot)
  BY Ones
<1>3. Phase' = "ready"
  BY ResetEffect DEF Phase, Running, Stopped
<1>4. m.state = Phase' /\ m.current_step = current_step_index'
  BY <1>3, ResetEffect DEF StateMsg
<1> HIDE DEF m, events, robot
<1>5. Lists' /\ NewestStateIsCurrent'
  BY <1>1, <1>2, <1>4, StateSaid DEF MessagesInv
<1>6. HaltAnnounced'
  BY ResetEffect DEF HaltAnnounced
<1> QED  BY <1>5, <1>6 DEF MessagesInv

LEMMA AdvanceSaid ==
  ASSUME MessagesInv, Running, AdvanceStep(queue)
  PROVE  MessagesInv'
<1> DEFINE i == current_step_index + 1
           op == current_operator_id
<1>1. CASE NextStep(queue)
  <2> DEFINE m == StateMsg("running", "Running step", i, run)
             events == <<EventMsg("step_started", op, run)>> \o StepEvents(i, op, run)
  <2>1. queue' = Deliver(queue, Outbox(<<m>>, events, StepRobot(i, op, run), StepPayload(i, op, run)))
    BY <1>1 DEF NextStep, StepOutbox
  <2>2. Phase' = "running" /\ ~mission_paused' /\ ~mission_canceled'
    BY <1>1, NextStepEffect DEF FlagsKept, Phase, Running, Stopped
  <2>3. m.state = Phase' /\ m.current_step = current_step_index'
    BY <1>1, <2>2, NextStepEffect DEF StateMsg
  <2> HIDE DEF m, events
  <2>4. Lists' /\ NewestStateIsCurrent'
    BY <2>1, <2>3, StateSaid, RobotOneOrNone DEF MessagesInv
  <2> QED  BY <2>2, <2>4 DEF MessagesInv, HaltAnnounced
<1>2. CASE CompleteMission(queue)
  <2> DEFINE m == StateMsg("completed", "Mission completed", i, run)
             events == <<EventMsg("mission_completed", op, run)>>
  <2>1. queue' = Deliver(queue, Outbox(<<m>>, events, << >>, << >>))
    BY <1>2 DEF CompleteMission
  <2>2. Phase' = "completed" /\ ~mission_paused' /\ ~mission_canceled'
    BY <1>2, CompleteEffect DEF Phase, Running, Stopped
  <2>3. m.state = Phase' /\ m.current_step = current_step_index'
    BY <1>2, <2>2, CompleteEffect DEF StateMsg
  <2> HIDE DEF m, events
  <2>4. Lists' /\ NewestStateIsCurrent'
    BY <2>1, <2>3, Ones, StateSaid DEF MessagesInv
  <2> QED  BY <2>2, <2>4 DEF MessagesInv, HaltAnnounced
<1> QED  BY <1>1, <1>2 DEF AdvanceStep

\* A command that moves nothing says nothing on the two topics.
LEMMA CommandSaid ==
  ASSUME MissionInv, MessagesInv, NEW msg \in MissionCommands, HandleMissionCommand(msg, queue)
  PROVE  MessagesInv'
<1> DEFINE op == msg.operator_id
           ignored == <<EventMsg("mission_command_ignored", op, run)>>
           rejected == <<EventMsg("mission_command_rejected", op, run)>>
<1>1. CASE NoEffect(queue)
  BY <1>1, SilentStep DEF NoEffect, Unmoved
<1>2. CASE IgnoreStart(op, queue)
  <2>1. Unmoved /\ queue' = Deliver(queue, Outbox(<< >>, ignored, << >>, << >>))
    BY <1>2 DEF IgnoreStart, Unmoved
  <2> HIDE DEF ignored
  <2> QED  BY <2>1, SilentStep
<1>3. CASE RejectCommand(op, queue)
  <2>1. Unmoved /\ queue' = Deliver(queue, Outbox(<< >>, rejected, << >>, << >>))
    BY <1>3 DEF RejectCommand, Unmoved
  <2> HIDE DEF rejected
  <2> QED  BY <2>1, SilentStep
<1>4. CASE BeginMission(op, queue) \/ PauseMission(op, queue) \/ ResumeMission(op, queue)
           \/ CancelMission(op, queue) \/ ResetMission(op, queue)
  BY <1>4, BeginSaid, PauseSaid, ResumeSaid, CancelSaid, ResetSaid DEF MissionInv
<1> QED  BY <1>1, <1>2, <1>3, <1>4 DEF HandleMissionCommand

LEMMA MessagesStep ==
  ASSUME MissionInv, MessagesInv, [MissionNext]_mission_vars
  PROVE  MessagesInv'
<1>1. CASE Command
  BY <1>1, CommandSaid DEF Command
<1>2. CASE TimerTick
  <2>1. AutoStartMission(queue) => MessagesInv'
    BY BeginSaid DEF AutoStartMission
  <2>2. AdvanceStep(queue) => Running
    BY <1>2 DEF TimerTick, Tick, AdvanceStep, Running
  <2> QED  BY <1>2, <2>1, <2>2, AdvanceSaid DEF TimerTick, Tick
<1>3. CASE ClockTick \/ UNCHANGED mission_vars
  <2>1. UNCHANGED <<queue, Phase, current_step_index, mission_paused, mission_canceled>>
    BY <1>3 DEF ClockTick, mission_vars, manager, flags, Phase, Stopped, Running
  <2> QED  BY <2>1 DEF MessagesInv, Lists, Heard, NewestStateIsCurrent, HaltAnnounced, StopIsNewest
<1> QED  BY <1>1, <1>2, <1>3 DEF MissionNext

\* What a step that halts the mission says.
HaltSaid == mission_paused' \/ mission_canceled' \/ ResetOutOfRun => StopIsNewest'

\* A reset that does not find the mission canceled already asks for a stop.
LEMMA ResetStops ==
  ASSUME MessagesInv, NEW op, ResetMission(op, queue), mission_started, ~mission_complete
  PROVE  StopIsNewest'
<1> DEFINE m == StateMsg("ready", "Mission reset", -1, run)
           events == <<EventMsg("mission_reset", op, run)>>
           r == StopCommand(op, run)
<1>1. r.command_type = "stop"
  BY DEF StopCommand, RobotCommand
<1>2. CASE ~mission_canceled
  <2>1. queue' = Deliver(queue, Outbox(<<m>>, events, <<r>>, << >>))
    BY <1>2 DEF ResetMission, ResetOutbox, Stopped
  <2> HIDE DEF m, events, r
  <2> QED  BY <1>1, <2>1, StopSaid DEF MessagesInv
<1>3. CASE mission_canceled
  <2>1. queue' = Deliver(queue, Outbox(<<m>>, events, << >>, << >>))
    BY <1>3 DEF ResetMission, ResetOutbox, Stopped
  <2> HIDE DEF m, events, r
  <2>2. NewestOn("robot/command_request", << >>)
    BY <2>1, Ones, Published DEF MessagesInv
  <2>3. StopIsNewest
    BY <1>3 DEF MessagesInv, HaltAnnounced
  <2> QED  BY <2>2, <2>3 DEF NewestOn, StopIsNewest, Last
<1> QED  BY <1>2, <1>3

\* No step but a reset takes mission_started back.
LEMMA HaltStep ==
  ASSUME MissionInv, MessagesInv, [MissionNext]_mission_vars
  PROVE  [HaltSaid]_mission_vars
<1>1. mission_paused' \/ mission_canceled' => StopIsNewest'
  BY MessagesStep DEF MessagesInv, HaltAnnounced
<1>2. ASSUME ResetOutOfRun PROVE StopIsNewest'
  <2> USE <1>2 DEF ResetOutOfRun
  <2>1. CASE Command
    <3>1. PICK msg \in MissionCommands : HandleMissionCommand(msg, queue)
      BY <2>1 DEF Command
    <3>2. ResetMission(msg.operator_id, queue)
      BY <3>1, BeginEffect, PauseEffect, ResumeEffect, CancelEffect
         DEF HandleMissionCommand, NoEffect, IgnoreStart, RejectCommand, flags
    <3> QED  BY <3>2, ResetStops
  <2>2. CASE TimerTick
    BY <2>2, BeginEffect, NextStepEffect, CompleteEffect
       DEF TimerTick, Tick, AutoStartMission, AdvanceStep, FlagsKept, flags
  <2>3. CASE ClockTick \/ UNCHANGED mission_vars
    BY <2>3, ClockEffect, StutterEffect DEF FlagsKept, Unmoved, flags
  <2> QED  BY <2>1, <2>2, <2>3 DEF MissionNext
<1> QED  BY <1>1, <1>2 DEF HaltSaid

LEMMA InitMessages == MissionStart => MessagesInv
<1> SUFFICES ASSUME MissionStart PROVE MessagesInv  OBVIOUS
<1> DEFINE created == StateMsg("created", "Mission manager ready", -1, 0)
<1>1. \A c \in Channels : queue[c] = IF c.topic = "mission/state" THEN <<created>> ELSE << >>
  BY DEF MissionStart, Observed
<1>2. << >> \in Seq({created}) /\ <<created>> \in Seq({created})
  OBVIOUS
<1>3. Lists
  <2> HIDE DEF created
  <2>1. \A c \in Heard : queue[c] = << >> \/ queue[c] = <<created>>
    BY <1>1 DEF Heard
  <2>2. \A c \in Heard : queue[c] \in Seq({created})
    BY <1>2, <2>1
  <2> QED  BY <2>2, SeqOfItself DEF Lists
<1>4. NewestStateIsCurrent
  <2>1. Phase = "ready" /\ current_step_index = -1
    BY DEF MissionStart, MissionInit, Phase, Running, Stopped
  <2>2. created.state = "created" /\ created.current_step = -1
    BY DEF StateMsg
  <2> HIDE DEF created
  <2>3. <<created>>[Len(<<created>>)] = created
    OBVIOUS
  <2> QED  BY <1>1, <2>1, <2>2, <2>3 DEF NewestStateIsCurrent
<1>5. HaltAnnounced
  BY DEF MissionStart, MissionInit, HaltAnnounced
<1> QED  BY <1>3, <1>4, <1>5 DEF MessagesInv

-----------------------------------------------------------------------------
(* Theorems.                                                               *)

LEMMA MessagesInvariant == MissionSafety => []MessagesInv
BY MissionInvariant, InitMessages, MessagesStep, PTL DEF MissionSafety

\* Whoever holds the newest mission/state message knows phase and step: no
\* handler moves the mission without saying so.
THEOREM StatesAnnounced == MissionSafety => []NewestStateIsCurrent
BY MessagesInvariant, PTL DEF MessagesInv

\* A mission that is paused or canceled, or was reset before it completed, has
\* asked the robot to stop, and nothing it has asked for since.
THEOREM HaltsRequested == MissionSafety => HaltRequested
<1>1. MissionInv /\ MessagesInv /\ [MissionNext]_mission_vars => [HaltSaid]_mission_vars
  BY HaltStep
<1>2. MissionSafety => [][HaltSaid]_mission_vars
  BY <1>1, MissionInvariant, MessagesInvariant, PTL DEF MissionSafety
<1> QED  BY <1>2 DEF HaltRequested, HaltSaid
=============================================================================
