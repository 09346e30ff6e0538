------------------------- MODULE MissionReportsProofs -------------------------
(* For all missions, commands, queues and timings, whether or not the        *)
(* database fails: an armed timer has a report to write, no report is        *)
(* written twice, and none holds the ends of two missions of an operator who *)
(* waits.  With queues that do not overflow and missions that operators      *)
(* start, a report holds all events of its missions and nothing else.        *)
EXTENDS MissionReports, MissionManagerProofs

-----------------------------------------------------------------------------
(* The inductive invariant.                                                 *)

IsList(s) == s \in Seq(ElementsOf(s))

Types ==
  /\ ids \in Nat /\ report_run_id \in 0..ids
  /\ report_written \in BOOLEAN /\ report_timer \in BOOLEAN
  /\ IsList(mission_states)

\* Report ids were drawn, and the lists that no report holds yet have an id that
\* no report has.
IdsFresh ==
  \A m \in missions :
    /\ m.report_id \in 1..ids
    /\ report_written = FALSE => m.report_id # report_run_id

ReportInv == Types /\ IdsFresh /\ ArmedTimerHasReport

-----------------------------------------------------------------------------
(* Lists.                                                                   *)

LEMMA ListOfOne == ASSUME NEW e PROVE IsList(<<e>>)
<1>1. Len(<<e>>) = 1 /\ <<e>>[1] = e
  OBVIOUS
<1>2. e \in ElementsOf(<<e>>)
  BY <1>1 DEF ElementsOf
<1> QED  BY <1>2 DEF IsList

\* A list that grows keeps what it has, in its places.
LEMMA ListGrows ==
  ASSUME NEW s, IsList(s), NEW e
  PROVE  /\ IsList(Append(s, e)) /\ Len(s) \in Nat /\ Len(Append(s, e)) = Len(s) + 1
         /\ \A i \in 1..Len(s) : Append(s, e)[i] = s[i]
         /\ Append(s, e)[Len(s) + 1] = e
<1> DEFINE S == ElementsOf(s) \cup {e}
           t == Append(s, e)
<1>1. s \in Seq(S)
  BY DEF IsList
<1> HIDE DEF S
<1>2. e \in S
  BY DEF S
<1>3. /\ t \in Seq(S) /\ Len(s) \in Nat /\ Len(t) = Len(s) + 1
      /\ \A i \in 1..Len(s) : t[i] = s[i]
      /\ t[Len(s) + 1] = e
  BY <1>1, <1>2
<1> HIDE DEF t
<1>4. \A i \in 1..Len(t) : t[i] \in ElementsOf(t)
  BY DEF ElementsOf
<1>5. t = [i \in 1..Len(t) |-> t[i]]
  BY <1>3
<1>6. t \in Seq(ElementsOf(t))
  BY <1>3, <1>4, <1>5
<1> QED  BY <1>3, <1>6 DEF IsList, t

-----------------------------------------------------------------------------
(* Steps of the report manager.                                             *)

LEMMA InitReports == Init => ReportInv
<1> SUFFICES ASSUME Init PROVE ReportInv  OBVIOUS
<1>1. IsList(<< >>)
  BY DEF IsList, ElementsOf
<1>2. /\ report_run_id = 0 /\ ids = 0 /\ missions = {} /\ mission_states = << >>
      /\ report_written = FALSE /\ report_timer = FALSE
  BY DEF Init, ReportInit
<1>3. IsList(mission_states)
  BY <1>1, <1>2, Zenon
<1>4. ids \in Nat /\ report_run_id \in 0..ids
  BY <1>2
<1>5. report_written \in BOOLEAN /\ report_timer \in BOOLEAN
  BY <1>2
<1>6. Types
  BY <1>3, <1>4, <1>5, Zenon DEF Types
<1> QED  BY <1>2, <1>6 DEF ReportInv, IdsFresh, ArmedTimerHasReport

\* A state opens new lists only when no report is due, or is collected.
LEMMA StateCollected ==
  ASSUME ReportInv, NEW msg, OnMissionState(msg)
  PROVE  ReportInv' /\ missions' = missions
<1>0. missions' = missions
  BY DEF OnMissionState
<1>1. CASE OpensRun(msg)
  <2>1. /\ report_run_id' = ids + 1 /\ ids' = ids + 1 /\ report_written' = FALSE
        /\ mission_states' = <<msg>>
        /\ report_timer' = (report_timer \/ (msg.state \in Terminal /\ ~report_written'))
    BY <1>1 DEF OnMissionState, OpenLists, NextRunId
  <2>2. report_timer = FALSE
    <3>1. SUFFICES ASSUME report_timer = TRUE PROVE FALSE
      BY DEF ReportInv, Types
    <3>2. report_written = FALSE /\ \E i \in 1..Len(mission_states) : mission_states[i].state \in Terminal
      BY <3>1 DEF ReportInv, Types, ArmedTimerHasReport
    <3>3. mission_states = << >>
      BY <1>1, <3>2 DEF OpensRun
    <3> QED  BY <3>2, <3>3
  <2>3. msg.state \notin Terminal
    BY <1>1 DEF OpensRun, Terminal
  <2>4. report_timer' = FALSE
    BY <2>1, <2>2, <2>3
  <2>5. Types'
    <3>1. ids' \in Nat /\ report_run_id' \in 0..ids'
      BY <2>1 DEF Types, ReportInv
    <3>2. IsList(mission_states')
      BY <2>1, ListOfOne
    <3> QED  BY <2>1, <2>4, <3>1, <3>2 DEF Types
  <2>6. IdsFresh'
    BY <1>0, <2>1 DEF IdsFresh, ReportInv, Types
  <2> QED  BY <1>0, <2>4, <2>5, <2>6 DEF ReportInv, ArmedTimerHasReport
<1>2. CASE ~OpensRun(msg)
  <2>1. /\ UNCHANGED <<report_run_id, ids, report_written>>
        /\ mission_states' = Append(mission_states, msg)
        /\ report_timer' = (report_timer \/ (msg.state \in Terminal /\ ~report_written))
    BY <1>2 DEF OnMissionState
  <2>2. /\ IsList(mission_states') /\ Len(mission_states) \in Nat
        /\ Len(mission_states') = Len(mission_states) + 1
        /\ \A i \in 1..Len(mission_states) : mission_states'[i] = mission_states[i]
        /\ mission_states'[Len(mission_states) + 1] = msg
    BY <2>1, ListGrows DEF ReportInv, Types
  <2>3. Types' /\ IdsFresh'
    BY <1>0, <2>1, <2>2 DEF ReportInv, Types, IdsFresh
  <2>4. ArmedTimerHasReport'
    <3> SUFFICES ASSUME report_timer' = TRUE
                 PROVE  /\ report_written' = FALSE
                        /\ \E i \in 1..Len(mission_states') : mission_states'[i].state \in Terminal
      BY <2>3 DEF ArmedTimerHasReport, Types
    <3>1. CASE report_timer = TRUE
      <4>1. PICK i \in 1..Len(mission_states) : mission_states[i].state \in Terminal
        BY <3>1 DEF ReportInv, ArmedTimerHasReport
      <4>2. i \in 1..Len(mission_states') /\ mission_states'[i].state \in Terminal
        BY <2>2, <4>1
      <4> QED  BY <2>1, <3>1, <4>2 DEF ReportInv, Types, ArmedTimerHasReport
    <3>2. CASE report_timer = FALSE
      <4>1. msg.state \in Terminal /\ report_written = FALSE
        BY <2>1, <3>2 DEF ReportInv, Types
      <4>2. Len(mission_states) + 1 \in 1..Len(mission_states')
        BY <2>2
      <4> QED  BY <2>1, <2>2, <4>1, <4>2
    <3> QED  BY <3>1, <3>2 DEF ReportInv, Types
  <2> QED  BY <1>0, <2>3, <2>4 DEF ReportInv
<1> QED  BY <1>1, <1>2

\* No other message touches the states, the ids or the timer.
LEMMA CollectStep ==
  ASSUME ReportInv, NEW c \in Inboxes, ReportStep(c)
  PROVE  ReportInv' /\ missions' = missions
<1> DEFINE msg == Head(queue[c])
<1>1. CASE OnMissionState(msg)
  BY <1>1, StateCollected
<1>2. CASE OnLatestState(c.topic, msg) \/ OnRecord(c.topic, msg)
  BY <1>2 DEF OnLatestState, OnRecord, ReportInv, Types, IdsFresh, ArmedTimerHasReport
<1> QED  BY <1>1, <1>2 DEF ReportStep

\* The report that is written is no report that was written before.
LEMMA WriteStep ==
  ASSUME ReportInv, WriteReportOnce
  PROVE  ReportInv' /\ \A m \in missions : m \in missions'
<1>1. /\ report_timer = TRUE /\ report_timer' = FALSE /\ report_written = FALSE
      /\ UNCHANGED <<report_run_id, mission_states>>
  BY DEF WriteReportOnce, ReportInv, Types, ArmedTimerHasReport
<1>2. WriteReport \/ WriteReportFails
  BY <1>1 DEF WriteReportOnce
<1>3. /\ ids' = IF report_run_id # 0 THEN ids ELSE ids + 1
      /\ ids' \in Nat /\ ids <= ids' /\ report_run_id' \in 0..ids'
  BY <1>1, <1>2 DEF WriteReport, WriteReportFails, ReportInv, Types
<1>4. ArmedTimerHasReport'
  BY <1>1 DEF ArmedTimerHasReport
<1>5. CASE WriteReport
  <2>1. report_written' = TRUE
    BY <1>5 DEF WriteReport
  <2>2. missions' = {m \in missions : m.report_id # CurrentReport.report_id} \cup {CurrentReport}
    BY <1>5 DEF WriteReport, PersistReport
  <2>3. CurrentReport.report_id = IF report_run_id # 0 THEN report_run_id ELSE ids + 1
    BY DEF CurrentReport
  <2>4. CurrentReport.report_id \in 1..ids' /\ \A m \in missions : m.report_id # CurrentReport.report_id
    BY <1>1, <1>3, <2>3 DEF ReportInv, Types, IdsFresh
  <2>5. Types'
    BY <1>1, <1>3, <2>1 DEF ReportInv, Types
  <2>6. IdsFresh'
    BY <1>3, <2>1, <2>2, <2>4 DEF ReportInv, Types, IdsFresh
  <2> QED  BY <1>4, <2>2, <2>4, <2>5, <2>6 DEF ReportInv
<1>6. CASE WriteReportFails
  <2>1. missions' = missions /\ report_written' = report_written
    BY <1>6 DEF WriteReportFails
  <2>2. Types'
    BY <1>1, <1>3, <2>1 DEF ReportInv, Types
  <2>3. IdsFresh'
    BY <1>1, <1>3, <2>1 DEF ReportInv, Types, IdsFresh
  <2> QED  BY <1>4, <2>1, <2>2, <2>3 DEF ReportInv
<1> QED  BY <1>2, <1>5, <1>6

LEMMA ReportsStep ==
  ASSUME ReportInv, [Next]_vars
  PROVE  ReportInv' /\ \A m \in missions : m \in missions'
<1>1. CASE UNCHANGED reporter
  BY <1>1 DEF reporter, ReportInv, Types, IdsFresh, ArmedTimerHasReport
<1>2. ASSUME NEW c \in Inboxes, Collect(c) PROVE ReportInv' /\ missions' = missions
  BY <1>2, CollectStep DEF Collect
<1>3. CASE HalfSecond
  BY <1>3, WriteStep DEF HalfSecond
<1>4. CASE (\E msg \in MissionCommands : Obey(msg)) \/ Advance \/ UNCHANGED vars
  BY <1>1, <1>4 DEF Obey, Advance, vars
<1> QED  BY <1>2, <1>3, <1>4 DEF Next

-----------------------------------------------------------------------------
(* Theorems.                                                                *)

\* The invariant holds under every timing, with and without patient operators.
THEOREM ReportsConsistent == Safety => []ReportInv
<1>1. ReportInv /\ [Next]_vars => ReportInv'
  BY ReportsStep
<1> QED  BY InitReports, <1>1, PTL DEF Safety

\* The half-second timer never fires for lists that are in a report, nor for
\* lists that were reopened under it.
THEOREM TimersHaveReports == Safety => []ArmedTimerHasReport
<1>1. ReportInv => ArmedTimerHasReport
  BY DEF ReportInv
<1> QED  BY ReportsConsistent, <1>1, PTL

\* What is in the database stays as it was written: no id is used twice, though
\* the write is INSERT OR REPLACE.
THEOREM WrittenReportsStay == Safety => ReportsAreFinal
<1>1. ReportInv /\ [Next]_vars => [\A m \in missions : m \in missions']_vars
  BY ReportsStep
<1> QED  BY ReportsConsistent, <1>1, PTL DEF Safety, ReportsAreFinal

-----------------------------------------------------------------------------
(* What the mission manager says to the report manager.                     *)

StateInbox == Inbox("mission/state")
EventInbox == Inbox("mission/events")

\* The messages t, at most two, all about run r.
Messages(t, r) == IsList(t) /\ Len(t) \in 0..2 /\ \A i \in 1..Len(t) : t[i].run = r

\* One step of the mission manager publishes states and events, and commands.
Publishes(states, events) ==
  /\ Messages(states, run') /\ Messages(events, run')
  /\ \E robot, payload :
       /\ Messages(robot, run') /\ Messages(payload, run')
       /\ queue' = Deliver(queue, Outbox(states, events, robot, payload))

Starts(s) == s.state = "running" /\ s.message = "Mission started"

\* The event that comes with the start and with the end of a mission.
Announces(s, type) ==
  \/ s.message = "Mission started" /\ type = "mission_started"
  \/ s.state = "completed" /\ type = "mission_completed"

HasType(events, type) == \E i \in 1..Len(events) : events[i].event_type = type

\* A state, with the events that belong to it.
Says(s) ==
  \E events :
    /\ Publishes(<<s>>, events)
    /\ \A type : Announces(s, type) => HasType(events, type)

LEMMA NoMessage == \A r : Messages(<< >>, r)
<1>1. IsList(<< >>)
  BY DEF IsList, ElementsOf
<1>2. Len(<< >>) = 0
  OBVIOUS
<1> QED  BY <1>1, <1>2 DEF Messages

LEMMA OneMessage ==
  ASSUME NEW e, NEW r, e.run = r
  PROVE  /\ Messages(<<e>>, r) /\ Messages(<<e>> \o << >>, r)
         /\ HasType(<<e>>, e.event_type) /\ HasType(<<e>> \o << >>, e.event_type)
<1>1. Len(<<e>>) = 1 /\ <<e>>[1] = e /\ <<e>> \o << >> = <<e>>
  OBVIOUS
<1> QED  BY <1>1, ListOfOne DEF Messages, HasType

LEMMA TwoMessages ==
  ASSUME NEW e, NEW f, NEW r, e.run = r, f.run = r
  PROVE  /\ Messages(<<e>> \o <<f>>, r)
         /\ HasType(<<e>> \o <<f>>, e.event_type)
<1> DEFINE t == <<e>> \o <<f>>
<1>1. /\ <<e>> \in Seq({e, f}) /\ <<f>> \in Seq({e, f})
      /\ Len(<<e>>) = 1 /\ Len(<<f>>) = 1 /\ <<e>>[1] = e /\ <<f>>[1] = f
  OBVIOUS
<1>2. /\ t \in Seq({e, f}) /\ Len(t) = 1 + 1
      /\ \A i \in 1..(1 + 1) : t[i] = IF i <= 1 THEN <<e>>[i] ELSE <<f>>[i - 1]
  BY <1>1, ConcatProperties
<1> HIDE DEF t
<1>3. Len(t) = 2 /\ t[1] = e /\ t[2] = f
  BY <1>1, <1>2
<1>4. IsList(t)
  BY <1>2, SeqOfItself DEF IsList
<1>5. Messages(t, r)
  BY <1>3, <1>4 DEF Messages
<1>6. HasType(t, e.event_type)
  BY <1>3 DEF HasType
<1> QED  BY <1>5, <1>6 DEF t

\* The commands and the event of a step.
LEMMA StepMessages ==
  ASSUME NEW i, NEW op, NEW r, NEW e, e.run = r
  PROVE  /\ Messages(StepRobot(i, op, r), r) /\ Messages(StepPayload(i, op, r), r)
         /\ Messages(<<e>> \o StepEvents(i, op, r), r)
         /\ HasType(<<e>> \o StepEvents(i, op, r), e.event_type)
<1>1. Messages(StepRobot(i, op, r), r)
  <2>1. RobotCommand(StepAt(i).command_type, StepAt(i).twist, op, r).run = r
    BY DEF RobotCommand
  <2> QED  BY <2>1, NoMessage, OneMessage DEF StepRobot
<1>2. Messages(StepPayload(i, op, r), r)
  <2>1. PayloadCommand(i, op, r).run = r
    BY DEF PayloadCommand
  <2> QED  BY <2>1, NoMessage, OneMessage DEF StepPayload
<1>3. \A type : EventMsg(type, op, r).run = r
  BY DEF EventMsg
<1>4. \/ StepEvents(i, op, r) = << >>
      \/ \E type : StepEvents(i, op, r) = <<EventMsg(type, op, r)>>
  BY DEF StepEvents
<1> QED  BY <1>1, <1>2, <1>3, <1>4, OneMessage, TwoMessages

LEMMA StepSaid ==
  ASSUME NEW s, NEW type, NEW i, NEW op, s.run = run',
         queue' = Deliver(queue, StepOutbox(s, type, i, op, run')),
         \A t : Announces(s, t) => t = type
  PROVE  Says(s)
<1> DEFINE e == EventMsg(type, op, run')
           events == <<e>> \o StepEvents(i, op, run')
<1>1. e.run = run' /\ e.event_type = type
  BY DEF EventMsg
<1>2. queue' = Deliver(queue, Outbox(<<s>>, events, StepRobot(i, op, run'), StepPayload(i, op, run')))
  BY DEF StepOutbox
<1> HIDE DEF e
<1>3. Messages(<<s>>, run')
  BY OneMessage
<1>4. /\ Messages(StepRobot(i, op, run'), run') /\ Messages(StepPayload(i, op, run'), run')
      /\ Messages(events, run') /\ HasType(events, type)
  BY <1>1, StepMessages
<1> HIDE DEF events
<1>5. Publishes(<<s>>, events)
  BY <1>2, <1>3, <1>4 DEF Publishes
<1> QED  BY <1>4, <1>5 DEF Says

LEMMA PlainSaid ==
  ASSUME NEW s, NEW type, NEW op, NEW robot, s.run = run',
         queue' = Deliver(queue, Outbox(<<s>>, <<EventMsg(type, op, run')>>, robot, << >>)),
         robot = << >> \/ robot = <<StopCommand(op, run')>>,
         \A t : Announces(s, t) => t = type
  PROVE  Says(s)
<1> DEFINE e == EventMsg(type, op, run')
           c == StopCommand(op, run')
<1>1. e.run = run' /\ e.event_type = type /\ c.run = run'
  BY DEF EventMsg, StopCommand, RobotCommand
<1>2. queue' = Deliver(queue, Outbox(<<s>>, <<e>>, robot, << >>)) /\ (robot = << >> \/ robot = <<c>>)
  OBVIOUS
<1> HIDE DEF e, c
<1>3. Messages(<<s>>, run') /\ Messages(<<e>>, run') /\ Messages(robot, run') /\ Messages(<< >>, run')
      /\ HasType(<<e>>, type)
  BY <1>1, <1>2, NoMessage, OneMessage
<1>4. Publishes(<<s>>, <<e>>)
  BY <1>2, <1>3 DEF Publishes
<1> QED  BY <1>3, <1>4 DEF Says

\* A handler without effect says nothing, or an event.
SaysNothing == queue' = queue \/ \E events : Publishes(<< >>, events)

\* What the handlers say.
LEMMA BeginSays ==
  ASSUME NEW op, BeginMission(op, queue)
  PROVE  \E s : Says(s) /\ Starts(s)
<1> DEFINE s == StateMsg("running", "Mission started", 0, run')
<1>1. s.run = run' /\ s.state = "running" /\ s.message = "Mission started"
  BY DEF StateMsg
<1>2. queue' = Deliver(queue, StepOutbox(s, "mission_started", 0, op, run'))
  BY DEF BeginMission
<1> HIDE DEF s
<1>3. Says(s)
  BY <1>1, <1>2, StepSaid DEF Announces
<1> QED  BY <1>1, <1>3 DEF Starts

LEMMA PauseSays ==
  ASSUME NEW op, PauseMission(op, queue)
  PROVE  \E s : Says(s) /\ s.state \notin Terminal
<1> DEFINE s == StateMsg("paused", "Mission paused", current_step_index, run)
<1>1. s.run = run' /\ s.state = "paused" /\ s.message = "Mission paused" /\ run' = run
  BY PauseEffect DEF StateMsg
<1>2. queue' = Deliver(queue, Outbox(<<s>>, <<EventMsg("mission_paused", op, run')>>,
                                     <<StopCommand(op, run')>>, << >>))
  BY <1>1 DEF PauseMission
<1> HIDE DEF s
<1>3. Says(s)
  BY <1>1, <1>2, PlainSaid DEF Announces
<1> QED  BY <1>1, <1>3 DEF Terminal

LEMMA ResumeSays ==
  ASSUME FlowOK, NEW op, ResumeMission(op, queue)
  PROVE  \E s : Says(s) /\ s.state \notin Terminal
<1> DEFINE i == current_step_index
           s == StateMsg("running", "Mission resumed", i, run)
<1>1. s.run = run' /\ s.state = "running" /\ s.message = "Mission resumed" /\ run' = run
  BY ResumeEffect DEF StateMsg
<1>2. HasStep(i)
  BY ResumeEffect DEF FlowOK, Stopped
<1>3. queue' = Deliver(queue, StepOutbox(s, "mission_resumed", i, op, run'))
  BY <1>1, <1>2 DEF ResumeMission
<1> HIDE DEF s
<1>4. Says(s)
  BY <1>1, <1>3, StepSaid DEF Announces
<1> QED  BY <1>1, <1>4 DEF Terminal

LEMMA CancelSays ==
  ASSUME NEW op, CancelMission(op, queue)
  PROVE  \E s : Says(s)
<1> DEFINE s == StateMsg("canceled", "Mission canceled", current_step_index, run)
<1>1. s.run = run' /\ s.state = "canceled" /\ s.message = "Mission canceled" /\ run' = run
  BY CancelEffect DEF StateMsg
<1>2. queue' = Deliver(queue, Outbox(<<s>>, <<EventMsg("mission_canceled", op, run')>>,
                                     <<StopCommand(op, run')>>, << >>))
  BY <1>1 DEF CancelMission, CancelOutbox
<1> HIDE DEF s
<1> QED  BY <1>1, <1>2, PlainSaid DEF Announces

LEMMA ResetSays ==
  ASSUME NEW op, ResetMission(op, queue)
  PROVE  \E s : Says(s) /\ s.state \notin Terminal
<1> DEFINE s == StateMsg("ready", "Mission reset", -1, run)
           robot == IF mission_started /\ ~Stopped THEN <<StopCommand(op, run)>> ELSE << >>
<1>1. s.run = run' /\ s.state = "ready" /\ s.message = "Mission reset" /\ run' = run
  BY ResetEffect DEF StateMsg
<1>2. queue' = Deliver(queue, Outbox(<<s>>, <<EventMsg("mission_reset", op, run')>>, robot, << >>))
  BY <1>1 DEF ResetMission, ResetOutbox
<1>3. robot = << >> \/ robot = <<StopCommand(op, run')>>
  BY <1>1
<1> HIDE DEF s, robot
<1>4. Says(s)
  BY <1>1, <1>2, <1>3, PlainSaid DEF Announces
<1> QED  BY <1>1, <1>4 DEF Terminal

LEMMA NextStepSays ==
  ASSUME NextStep(queue)
  PROVE  \E s : Says(s) /\ s.state \notin Terminal
<1> DEFINE i == current_step_index + 1
           s == StateMsg("running", "Running step", i, run)
<1>1. s.run = run' /\ s.state = "running" /\ s.message = "Running step" /\ run' = run
  BY NextStepEffect DEF StateMsg
<1>2. queue' = Deliver(queue, StepOutbox(s, "step_started", i, current_operator_id, run'))
  BY <1>1 DEF NextStep
<1> HIDE DEF s
<1>3. Says(s)
  BY <1>1, <1>2, StepSaid DEF Announces
<1> QED  BY <1>1, <1>3 DEF Terminal

LEMMA CompleteSays ==
  ASSUME CompleteMission(queue)
  PROVE  \E s : Says(s)
<1> DEFINE s == StateMsg("completed", "Mission completed", current_step_index + 1, run)
<1>1. s.run = run' /\ s.state = "completed" /\ s.message = "Mission completed" /\ run' = run
  BY CompleteEffect DEF StateMsg
<1>2. queue' = Deliver(queue, Outbox(<<s>>, <<EventMsg("mission_completed", current_operator_id, run')>>,
                                     << >>, << >>))
  BY <1>1 DEF CompleteMission
<1> HIDE DEF s
<1> QED  BY <1>1, <1>2, PlainSaid DEF Announces

LEMMA EventSaid ==
  ASSUME NEW type, NEW op, run' = run,
         queue' = Deliver(queue, Outbox(<< >>, <<EventMsg(type, op, run)>>, << >>, << >>))
  PROVE  SaysNothing
<1>1. EventMsg(type, op, run).run = run'
  BY DEF EventMsg
<1>2. Messages(<< >>, run') /\ Messages(<<EventMsg(type, op, run)>>, run')
  BY <1>1, NoMessage, OneMessage
<1> QED  BY <1>2 DEF Publishes, SaysNothing

-----------------------------------------------------------------------------
(* What its steps mean for the queues.                                      *)

\* The steps that the mission has announced since it began; all of them, for
\* one that is not under way.
StepsTold == IF MayBegin THEN Len(Steps) ELSE current_step_index

LEMMA StepsToldBounded ==
  ASSUME MissionInv
  PROVE  Len(Steps) \in Nat /\ StepsTold \in 0..Len(Steps)
<1>1. Len(Steps) \in Nat /\ current_step_index \in -1..Len(Steps)
  BY MissionAssumption DEF MissionInv, MissionTypeOK
<1>2. ~MayBegin => current_step_index >= 0
  BY DEF MissionInv, FlowOK, MayBegin
<1> QED  BY <1>1, <1>2 DEF StepsTold

\* A command moves nothing, begins a mission that may begin, or moves one run;
\* only a move that stops the mission says that it ended.
CommandMoves ==
  \/ Unmoved /\ SaysNothing
  \/ \E s :
       /\ Says(s)
       /\ s.state \in Terminal => Stopped'
       /\ (MayBegin /\ Starts(s)) \/ run' = run
       /\ MayBegin \/ StepsTold <= StepsTold'

LEMMA CommandsMove ==
  ASSUME MissionInv, NEW msg \in MissionCommands, HandleMissionCommand(msg, queue)
  PROVE  CommandMoves
<1> DEFINE op == msg.operator_id
<1>0. FlowOK /\ Len(Steps) \in Nat /\ StepsTold \in 0..Len(Steps)
  BY StepsToldBounded DEF MissionInv
<1>1. CASE NoEffect(queue)
  BY <1>1 DEF NoEffect, Unmoved, SaysNothing, CommandMoves
<1>2. CASE IgnoreStart(op, queue) \/ RejectCommand(op, queue)
  <2>1. Unmoved /\ run' = run
    BY <1>2 DEF IgnoreStart, RejectCommand, Unmoved
  <2>2. SaysNothing
    BY <1>2, <2>1, EventSaid DEF IgnoreStart, RejectCommand
  <2> QED  BY <2>1, <2>2 DEF CommandMoves
<1>3. CASE BeginMission(op, queue)
  <2>1. PICK s : Says(s) /\ Starts(s)
    BY <1>3, BeginSays
  <2>2. s.state \notin Terminal
    BY <2>1 DEF Starts, Terminal
  <2> QED  BY <1>3, <2>1, <2>2, BeginEffect DEF CommandMoves
<1>4. CASE PauseMission(op, queue)
  <2>1. PICK s : Says(s) /\ s.state \notin Terminal
    BY <1>4, PauseSays
  <2>2. (MayBegin' <=> MayBegin) /\ current_step_index' = current_step_index /\ run' = run
    BY <1>4, PauseEffect DEF MayBegin, Stopped
  <2>3. StepsTold' = StepsTold
    BY <2>2 DEF StepsTold
  <2> QED  BY <1>0, <2>1, <2>2, <2>3 DEF CommandMoves
<1>5. CASE ResumeMission(op, queue)
  <2>1. PICK s : Says(s) /\ s.state \notin Terminal
    BY <1>0, <1>5, ResumeSays
  <2>2. (MayBegin' <=> MayBegin) /\ current_step_index' = current_step_index /\ run' = run
    BY <1>5, ResumeEffect DEF MayBegin, Stopped
  <2>3. StepsTold' = StepsTold
    BY <2>2 DEF StepsTold
  <2> QED  BY <1>0, <2>1, <2>2, <2>3 DEF CommandMoves
<1>6. CASE CancelMission(op, queue)
  <2>1. PICK s : Says(s)
    BY <1>6, CancelSays
  <2>2. Stopped' /\ MayBegin' /\ run' = run
    BY <1>6, CancelEffect DEF MayBegin, Stopped
  <2>3. StepsTold <= StepsTold'
    BY <1>0, <2>2 DEF StepsTold
  <2> QED  BY <2>1, <2>2, <2>3 DEF CommandMoves
<1>7. CASE ResetMission(op, queue)
  <2>1. PICK s : Says(s) /\ s.state \notin Terminal
    BY <1>7, ResetSays
  <2>2. MayBegin' /\ run' = run
    BY <1>7, ResetEffect DEF MayBegin
  <2>3. StepsTold <= StepsTold'
    BY <1>0, <2>2 DEF StepsTold
  <2> QED  BY <2>1, <2>2, <2>3 DEF CommandMoves
<1> QED  BY <1>1, <1>2, <1>3, <1>4, <1>5, <1>6, <1>7 DEF HandleMissionCommand

\* A tick moves a mission that has not stopped; unless it begins one, it
\* announces one more step of it, or its end.
TickMoves ==
  /\ ~Stopped
  /\ \E s :
       /\ Says(s)
       /\ s.state \in Terminal => Stopped'
       /\ ~Autostart => run' = run /\ StepsTold + 1 <= StepsTold'

LEMMA TicksMove ==
  ASSUME MissionInv, Tick(queue)
  PROVE  TickMoves
<1>0. FlowOK /\ Len(Steps) \in Nat /\ StepsTold \in 0..Len(Steps)
  BY StepsToldBounded DEF MissionInv
<1>1. ~Stopped
  BY DEF Tick
<1>2. CASE AutoStartMission(queue)
  <2>1. PICK s : Says(s) /\ Starts(s)
    BY <1>2, BeginSays DEF AutoStartMission
  <2>2. s.state \notin Terminal /\ Autostart
    BY <1>2, <2>1 DEF Starts, Terminal, AutoStartMission
  <2> QED  BY <1>1, <2>1, <2>2 DEF TickMoves
<1>3. CASE AdvanceStep(queue)
  <2>0. mission_started /\ ~MayBegin
    BY <1>1, <1>3 DEF AdvanceStep, MayBegin
  <2>1. StepsTold = current_step_index /\ current_step_index \in 0..(Len(Steps) - 1)
    BY <1>0, <1>1, <2>0 DEF StepsTold, FlowOK, HasStep, Stopped
  <2>2. CASE NextStep(queue)
    <3>1. PICK s : Says(s) /\ s.state \notin Terminal
      BY <2>2, NextStepSays
    <3>2. (MayBegin' <=> MayBegin) /\ current_step_index' = current_step_index + 1 /\ run' = run
      BY <2>2, NextStepEffect DEF FlagsKept, MayBegin, Stopped
    <3>3. StepsTold' = StepsTold + 1
      BY <2>0, <2>1, <3>2 DEF StepsTold
    <3>4. StepsTold + 1 <= StepsTold'
      BY <1>0, <3>3
    <3> QED  BY <1>1, <3>1, <3>2, <3>4 DEF TickMoves
  <2>3. CASE CompleteMission(queue)
    <3>1. PICK s : Says(s)
      BY <2>3, CompleteSays
    <3>2. Stopped' /\ MayBegin' /\ run' = run
      BY <2>3, CompleteEffect DEF MayBegin, Stopped
    <3>3. StepsTold + 1 <= StepsTold'
      BY <1>0, <2>1, <3>2 DEF StepsTold
    <3> QED  BY <1>1, <3>1, <3>2, <3>3 DEF TickMoves
  <2> QED  BY <1>3, <2>2, <2>3 DEF AdvanceStep
<1> QED  BY <1>2, <1>3 DEF Tick

-----------------------------------------------------------------------------
(* The queues.                                                              *)

QueuesInv ==
  /\ MissionInv
  /\ queue = [c \in Channels |-> queue[c]]
  /\ \A c \in Inboxes : IsList(queue[c])
  /\ commands \in 0..MaxCommands

\* What is left of the messages q and then t in a queue.
Grown(after, q, t) ==
  /\ IsList(after)
  /\ \E k \in 0..(Len(q) + Len(t)) :
       /\ Len(after) = Len(q) + Len(t) - k
       /\ \A i \in 1..Len(after) :
            after[i] = IF i + k <= Len(q) THEN q[i + k] ELSE t[i + k - Len(q)]
       /\ Len(q) + Len(t) <= Depth => k = 0
       /\ Len(q) + Len(t) > 0 => Len(after) > 0

LEMMA QueueGrows ==
  ASSUME NEW q, IsList(q), NEW t, IsList(t)
  PROVE  Grown(KeepLast(q \o t), q, t)
<1> DEFINE M == ElementsOf(q) \cup ElementsOf(t)
           s == q \o t
           after == KeepLast(s)
<1>1. q \in Seq(M) /\ t \in Seq(M)
  BY DEF IsList
<1> HIDE DEF M
<1>2. /\ s \in Seq(M) /\ Len(s) = Len(q) + Len(t)
      /\ \A i \in 1..(Len(q) + Len(t)) : s[i] = IF i <= Len(q) THEN q[i] ELSE t[i - Len(q)]
  BY <1>1, ConcatProperties
<1>3. Len(q) \in Nat /\ Len(t) \in Nat
  BY <1>1, LenProperties
<1> HIDE DEF s
<1>4. after \in Seq(M)
  BY <1>2, KeepLastIsSuffix
<1>5. PICK k \in 0..Len(s) :
              /\ Len(after) = Len(s) - k
              /\ \A i \in 1..(Len(s) - k) : after[i] = s[i + k]
              /\ Len(s) <= Depth => k = 0
              /\ Len(s) > 0 => k < Len(s)
  BY <1>2, KeepLastIsSuffix
<1> HIDE DEF after
<1>6. IsList(after)
  BY <1>4, SeqOfItself DEF IsList
<1>7. \A i \in 1..Len(after) :
        after[i] = IF i + k <= Len(q) THEN q[i + k] ELSE t[i + k - Len(q)]
  <2> SUFFICES ASSUME NEW i \in 1..Len(after)
               PROVE  after[i] = IF i + k <= Len(q) THEN q[i + k] ELSE t[i + k - Len(q)]
    OBVIOUS
  <2>1. after[i] = s[i + k] /\ i + k \in 1..(Len(q) + Len(t))
    BY <1>2, <1>3, <1>5
  <2> QED  BY <1>2, <2>1
<1>8. Len(s) > 0 => Len(after) > 0
  BY <1>2, <1>3, <1>5
<1>9. Grown(after, q, t)
  BY <1>2, <1>5, <1>6, <1>7, <1>8 DEF Grown
<1> QED  BY <1>9 DEF after, s

LEMMA Boxes ==
  /\ StateInbox \in Inboxes /\ EventInbox \in Inboxes /\ StateInbox # EventInbox
  /\ StateInbox.topic = "mission/state" /\ EventInbox.topic = "mission/events"
  /\ \A c \in Inboxes : /\ c \in Channels
                        /\ c.topic = "mission/state" => c = StateInbox
                        /\ c.topic = "mission/events" => c = EventInbox
BY ReportAssumption DEF StateInbox, EventInbox, Inbox, Inboxes, Channel

\* What happens to the queues of the report manager when something is said.
Receive(states, events) ==
  /\ queue' = [c \in Channels |-> queue'[c]]
  /\ Grown(queue'[StateInbox], queue[StateInbox], states)
  /\ Grown(queue'[EventInbox], queue[EventInbox], events)
  /\ \A c \in Inboxes :
       \/ queue'[c] = queue[c]
       \/ \E t : Messages(t, run') /\ Grown(queue'[c], queue[c], t)

LEMMA WhatIsReceived ==
  ASSUME QueuesInv, NEW states, NEW events, Publishes(states, events)
  PROVE  Receive(states, events)
<1>1. PICK robot, payload :
        /\ Messages(robot, run') /\ Messages(payload, run')
        /\ queue' = Deliver(queue, Outbox(states, events, robot, payload))
  BY DEF Publishes
<1> DEFINE out == Outbox(states, events, robot, payload)
<1>2. /\ DOMAIN out = MissionTopics
      /\ out["mission/state"] = states /\ out["mission/events"] = events
      /\ out["robot/command_request"] = robot /\ out["payload/command_request"] = payload
  BY DEF Outbox, MissionTopics
<1>3. \A topic \in MissionTopics : Messages(out[topic], run')
  BY <1>1, <1>2 DEF Publishes, MissionTopics
<1>4. \A c \in Channels : queue'[c] = IF c.topic \in MissionTopics THEN KeepLast(queue[c] \o out[c.topic])
                                                                   ELSE queue[c]
  BY <1>1, <1>2 DEF Deliver
<1>5. queue' = [c \in Channels |-> queue'[c]]
  BY <1>1 DEF Deliver
<1> HIDE DEF out
<1>6. ASSUME NEW c \in Inboxes, c.topic \in MissionTopics
      PROVE  Grown(queue'[c], queue[c], out[c.topic])
  <2>1. queue'[c] = KeepLast(queue[c] \o out[c.topic]) /\ IsList(queue[c]) /\ IsList(out[c.topic])
    BY <1>3, <1>4, <1>6, Boxes DEF Messages, QueuesInv
  <2> QED  BY <2>1, QueueGrows
<1>7. \A c \in Inboxes :
        \/ queue'[c] = queue[c]
        \/ \E t : Messages(t, run') /\ Grown(queue'[c], queue[c], t)
  BY <1>3, <1>4, <1>6, Boxes
<1>8. "mission/state" \in MissionTopics /\ "mission/events" \in MissionTopics
  BY DEF MissionTopics
<1>9. Grown(queue'[StateInbox], queue[StateInbox], states)
  BY <1>2, <1>6, <1>8, Boxes
<1>10. Grown(queue'[EventInbox], queue[EventInbox], events)
  BY <1>2, <1>6, <1>8, Boxes
<1> QED  BY <1>5, <1>7, <1>9, <1>10 DEF Receive

\* A message taken is the first of its queue; the other queues stay.
LEMMA Taking ==
  ASSUME QueuesInv, NEW c \in Inboxes, queue[c] # << >>, queue' = Taken(c)
  PROVE  /\ queue' = [d \in Channels |-> queue'[d]]
         /\ \A d \in Inboxes : IsList(queue'[d])
         /\ \A d \in Channels : d # c => queue'[d] = queue[d]
         /\ Len(queue[c]) \in Nat /\ Len(queue[c]) > 0 /\ Head(queue[c]) = queue[c][1]
         /\ Len(queue'[c]) = Len(queue[c]) - 1
         /\ \A i \in 1..Len(queue'[c]) : queue'[c][i] = queue[c][i + 1]
<1>1. c \in Channels
  BY DEF Inboxes
<1>2. /\ queue' = [d \in Channels |-> IF d = c THEN Tail(queue[c]) ELSE queue[d]]
  BY <1>1 DEF Taken, QueuesInv
<1>3. queue'[c] = Tail(queue[c]) /\ \A d \in Channels : d # c => queue'[d] = queue[d]
  BY <1>1, <1>2
<1>4. queue' = [d \in Channels |-> queue'[d]]
  BY <1>2
<1> DEFINE q == queue[c]
           M == ElementsOf(q)
           r == queue'[c]
<1>5. q \in Seq(M)
  BY DEF QueuesInv, IsList
<1>6. q # << >> /\ r = Tail(q)
  BY <1>3
<1> HIDE DEF q, M, r
<1>7. /\ Head(q) = q[1] /\ r \in Seq(M) /\ Len(r) = Len(q) - 1
      /\ \A i \in 1..Len(r) : r[i] = q[i + 1]
      /\ Len(q) \in Nat /\ Len(q) > 0
  BY <1>5, <1>6, HeadTailProperties, EmptySeq, LenProperties
<1>8. IsList(r)
  BY <1>7, SeqOfItself DEF IsList
<1>9. \A d \in Inboxes : IsList(queue'[d])
  BY <1>3, <1>8 DEF QueuesInv, Inboxes, r
<1> QED  BY <1>3, <1>4, <1>7, <1>9 DEF q, r

LEMMA InitQueues == Init => QueuesInv
<1> SUFFICES ASSUME Init PROVE QueuesInv  OBVIOUS
<1>1. MissionInv /\ commands \in 0..MaxCommands
  BY InitInv, TimingAssumption DEF Init
<1>2. queue = NoMessages \/ queue = Observed
  BY DEF Init
<1>3. queue = [c \in Channels |-> queue[c]]
  BY <1>2 DEF NoMessages, Observed
<1> DEFINE created == StateMsg("created", "Mission manager ready", -1, 0)
<1>4. \A c \in Inboxes : queue[c] = << >> \/ queue[c] = <<created>>
  BY <1>2 DEF NoMessages, Observed, Inboxes
<1> HIDE DEF created
<1>5. \A c \in Inboxes : IsList(queue[c])
  BY <1>4, ListOfOne, NoMessage DEF Messages
<1> QED  BY <1>1, <1>3, <1>5 DEF QueuesInv

\* What the mission manager says arrives.
LEMMA QueuesAfter ==
  ASSUME QueuesInv, SaysNothing \/ \E s : Says(s)
  PROVE  /\ queue' = [c \in Channels |-> queue'[c]]
         /\ \A c \in Inboxes : IsList(queue'[c])
<1>1. CASE queue' = queue
  BY <1>1 DEF QueuesInv
<1>2. ASSUME NEW states, NEW events, Publishes(states, events)
      PROVE  /\ queue' = [c \in Channels |-> queue'[c]]
             /\ \A c \in Inboxes : IsList(queue'[c])
  <2>1. Receive(states, events)
    BY <1>2, WhatIsReceived
  <2> QED  BY <2>1 DEF Receive, Grown, QueuesInv
<1> QED  BY <1>1, <1>2 DEF SaysNothing, Says

LEMMA QueuesStep == QueuesInv /\ [Next]_vars => QueuesInv'
<1> SUFFICES ASSUME QueuesInv, [Next]_vars PROVE QueuesInv'  OBVIOUS
<1>0. MissionInv /\ MaxCommands \in Nat
  BY TimingAssumption DEF QueuesInv
<1>1. ASSUME NEW msg \in MissionCommands, Obey(msg) PROVE QueuesInv'
  <2>1. HandleMissionCommand(msg, queue) /\ commands < MaxCommands /\ commands' = commands + 1
    BY <1>1 DEF Obey
  <2>2. MissionInv'
    BY <1>0, <2>1, InvStep DEF MissionNext, Command
  <2>3. SaysNothing \/ \E s : Says(s)
    BY <1>0, <2>1, CommandsMove DEF CommandMoves
  <2>4. commands' \in 0..MaxCommands
    BY <1>0, <2>1 DEF QueuesInv
  <2> QED  BY <2>2, <2>3, <2>4, QueuesAfter DEF QueuesInv
<1>2. CASE Advance
  <2>1. Tick(queue) /\ commands' = commands
    BY <1>2 DEF Advance
  <2>2. MissionInv'
    BY <1>0, <2>1, InvStep DEF MissionNext, TimerTick
  <2>3. SaysNothing \/ \E s : Says(s)
    BY <1>0, <2>1, TicksMove DEF TickMoves
  <2> QED  BY <2>1, <2>2, <2>3, QueuesAfter DEF QueuesInv
<1>3. ASSUME UNCHANGED <<manager, now, commands>> PROVE MissionInv' /\ commands' \in 0..MaxCommands
  BY <1>3 DEF QueuesInv, MissionInv, MissionTypeOK, FlowOK, PausesPast, StepClock, HasStep, Running,
              Stopped, manager, flags
<1>4. ASSUME NEW c \in Inboxes, Collect(c) PROVE QueuesInv'
  <2>1. MissionInv' /\ commands' \in 0..MaxCommands
    BY <1>3, <1>4 DEF Collect
  <2>2. queue[c] # << >> /\ queue' = Taken(c)
    BY <1>4 DEF Collect, ReportStep
  <2> QED  BY <2>1, <2>2, Taking DEF QueuesInv
<1>5. CASE HalfSecond \/ UNCHANGED vars
  <2>1. UNCHANGED <<queue, manager, now, commands>>
    BY <1>5 DEF HalfSecond, WriteReportOnce, vars
  <2> QED  BY <1>3, <2>1 DEF QueuesInv
<1> QED  BY <1>1, <1>2, <1>4, <1>5 DEF Next

-----------------------------------------------------------------------------
(* A report ends one mission.                                               *)

EndsIn(s) == {i \in 1..Len(s) : s[i].state \in Terminal}

\* While operators wait, a mission/state that tells of an end is the newest one,
\* and the mission has stopped until the report of that end is written; lists
\* that no report holds yet and whose timer is not armed tell of no end.
EndingsReported ==
  timing.operator_waits =>
    /\ \A m \in missions : EndsIn(m.mission_states) = {Len(m.mission_states)}
    /\ \A i \in EndsIn(queue[StateInbox]) : i = Len(queue[StateInbox]) /\ Stopped
    /\ report_timer => /\ queue[StateInbox] = << >> /\ Stopped
                       /\ EndsIn(mission_states) = {Len(mission_states)}
    /\ reporter_alive /\ report_written = FALSE /\ report_timer = FALSE
         => EndsIn(mission_states) = {}

LEMMA InitEndings == Init => EndingsReported
<1> SUFFICES ASSUME Init PROVE EndingsReported  OBVIOUS
<1> DEFINE created == StateMsg("created", "Mission manager ready", -1, 0)
<1>1. missions = {} /\ mission_states = << >> /\ report_timer = FALSE
  BY DEF Init, ReportInit
<1>2. queue[StateInbox] = << >> \/ queue[StateInbox] = <<created>>
  BY Boxes DEF Init, NoMessages, Observed
<1>3. created.state \notin Terminal
  BY DEF StateMsg, Terminal
<1> HIDE DEF created
<1>4. EndsIn(<<created>>) = {} /\ EndsIn(<< >>) = {}
  BY <1>3 DEF EndsIn
<1> QED  BY <1>1, <1>2, <1>4 DEF EndingsReported

\* When a move is said while operators wait, no end is on its way and no report
\* is due.
Quiescent == Stopped => queue[StateInbox] = << >> /\ report_timer = FALSE

LEMMA EndingsMoved ==
  ASSUME QueuesInv, ReportInv, EndingsReported, UNCHANGED <<reporter, timing>>,
         \/ Unmoved /\ SaysNothing
         \/ /\ timing.operator_waits => Quiescent
            /\ \E s : Says(s) /\ (s.state \in Terminal => Stopped')
  PROVE  EndingsReported'
<1> SUFFICES ASSUME timing.operator_waits, timing.operator_waits' PROVE EndingsReported'
  BY DEF EndingsReported
<1> DEFINE S == queue[StateInbox]
           T == queue'[StateInbox]
<1>0. /\ UNCHANGED <<missions, report_timer, reporter_alive, report_written, mission_states>>
      /\ IsList(S)
  BY Boxes DEF reporter, QueuesInv
<1>1. Len(S) \in Nat /\ (S = << >> <=> Len(S) = 0)
  BY <1>0, LenProperties, EmptySeq DEF IsList
<1>2. CASE Unmoved /\ SaysNothing
  <2>1. Stopped' <=> Stopped
    BY <1>2, UnmovedEffect DEF FlagsKept, Stopped
  <2>2. CASE queue' = queue
    BY <1>0, <2>1, <2>2 DEF EndingsReported
  <2>3. ASSUME NEW events, Publishes(<< >>, events) PROVE EndingsReported'
    <3>1. Grown(T, S, << >>)
      BY <2>3, WhatIsReceived DEF Receive
    <3> HIDE DEF S, T
    <3>2. PICK k \in 0..Len(S) :
            /\ Len(T) = Len(S) - k
            /\ \A i \in 1..Len(T) : T[i] = S[i + k]
      <4>1. Len(<< >>) = 0
        OBVIOUS
      <4>2. PICK k \in 0..(Len(S) + 0) :
              /\ Len(T) = Len(S) + 0 - k
              /\ \A i \in 1..Len(T) : T[i] = IF i + k <= Len(S) THEN S[i + k] ELSE << >>[i + k - Len(S)]
        BY <3>1, <4>1 DEF Grown
      <4>3. Len(T) = Len(S) - k /\ k \in 0..Len(S)
        BY <1>1, <4>2
      <4>4. \A i \in 1..Len(T) : i + k <= Len(S)
        BY <1>1, <4>3
      <4> QED  BY <4>2, <4>3, <4>4
    <3>3. IsList(T) /\ (T = << >> <=> Len(T) = 0)
      <4>1. IsList(T)
        BY <3>1 DEF Grown
      <4> QED  BY <4>1, EmptySeq DEF IsList
    <3>4. ASSUME NEW i \in EndsIn(T) PROVE i = Len(T) /\ i + k \in EndsIn(S) /\ Stopped
      <4>1. i \in 1..Len(T) /\ T[i].state \in Terminal /\ T[i] = S[i + k] /\ i + k \in 1..Len(S)
        BY <1>1, <3>2, <3>4 DEF EndsIn
      <4>2. i + k \in EndsIn(S)
        BY <4>1 DEF EndsIn
      <4>3. i + k = Len(S) /\ Stopped
        BY <4>2 DEF EndingsReported, S
      <4> QED  BY <1>1, <3>2, <4>1, <4>2, <4>3
    <3>5. S = << >> => T = << >>
      BY <1>1, <3>2, <3>3
    <3> QED  BY <1>0, <2>1, <3>4, <3>5 DEF EndingsReported, S, T
  <2> QED  BY <1>2, <2>2, <2>3 DEF SaysNothing
<1>3. ASSUME Quiescent, NEW s, Says(s), s.state \in Terminal => Stopped'
      PROVE  EndingsReported'
  <2>1. PICK events : Publishes(<<s>>, events)
    BY <1>3 DEF Says
  <2>2. Grown(T, S, <<s>>)
    BY <2>1, WhatIsReceived DEF Receive
  <2>3. report_timer = FALSE
    BY <1>3 DEF Quiescent, EndingsReported, ReportInv, Types
  <2>4. EndsIn(S) = {}
    BY <1>3, <1>1 DEF Quiescent, EndingsReported, EndsIn
  <2>5. PICK k \in 0..(Len(S) + 1) :
          /\ Len(T) = Len(S) + 1 - k
          /\ \A i \in 1..Len(T) : T[i] = IF i + k <= Len(S) THEN S[i + k] ELSE <<s>>[i + k - Len(S)]
    <3>1. Len(<<s>>) = 1
      OBVIOUS
    <3> QED  BY <2>2, <3>1 DEF Grown
  <2> HIDE DEF S, T
  <2>6. ASSUME NEW i \in EndsIn(T) PROVE i = Len(T) /\ Stopped'
    <3>1. i \in 1..Len(T) /\ T[i].state \in Terminal
      BY <2>6 DEF EndsIn
    <3>2. CASE i + k <= Len(S)
      <4>1. T[i] = S[i + k] /\ i + k \in 1..Len(S)
        BY <1>1, <2>5, <3>1, <3>2
      <4> QED  BY <2>4, <3>1, <4>1 DEF EndsIn
    <3>3. CASE ~(i + k <= Len(S))
      <4>1. k \in Int /\ Len(T) = Len(S) + 1 - k /\ i \in 1..Len(T)
        BY <1>1, <2>5, <3>1
      <4>2. i + k - Len(S) = 1 /\ i = Len(T)
        BY <1>1, <3>3, <4>1
      <4>3. T[i] = s
        BY <2>5, <3>3, <4>1, <4>2
      <4> QED  BY <1>3, <3>1, <4>2, <4>3
    <3> QED  BY <3>2, <3>3
  <2> QED  BY <1>0, <2>3, <2>6 DEF EndingsReported, T
<1> QED  BY <1>2, <1>3

\* Who waits commands a stopped mission only once everything is collected and
\* the report is written.
LEMMA PatientCommand ==
  ASSUME QueuesInv, ReportInv, NEW msg, Obey(msg), timing.operator_waits, MayBegin
  PROVE  /\ report_timer = FALSE
         /\ \A c \in Inboxes : queue[c] = << >>
<1>1. Settled
  BY DEF Obey
<1> QED  BY <1>1 DEF Settled, Delivered, Inboxes, ReportInv, Types

LEMMA EndingsSpoken ==
  ASSUME QueuesInv, ReportInv, EndingsReported,
         (\E msg \in MissionCommands : Obey(msg)) \/ Advance
  PROVE  EndingsReported'
<1>1. MissionInv
  BY DEF QueuesInv
<1>2. ASSUME NEW msg \in MissionCommands, Obey(msg) PROVE EndingsReported'
  <2>1. HandleMissionCommand(msg, queue) /\ UNCHANGED <<reporter, timing>>
    BY <1>2 DEF Obey
  <2>2. timing.operator_waits => Quiescent
    BY <1>2, PatientCommand, Boxes DEF Quiescent, MayBegin
  <2> QED  BY <1>1, <2>1, <2>2, CommandsMove, EndingsMoved DEF CommandMoves
<1>3. CASE Advance
  <2>1. Tick(queue) /\ UNCHANGED <<reporter, timing>>
    BY <1>3 DEF Advance
  <2> QED  BY <1>1, <2>1, TicksMove, EndingsMoved DEF TickMoves, Quiescent
<1> QED  BY <1>2, <1>3

\* An end is collected alone: it is the newest of its queue, and no end before it
\* waits for its report.
LEMMA EndingCollected ==
  ASSUME QueuesInv, ReportInv, EndingsReported, timing.operator_waits, UNCHANGED <<manager, timing>>,
         NEW msg, OnMissionState(msg), reporter_alive,
         queue[StateInbox] # << >>, queue' = Taken(StateInbox), msg = Head(queue[StateInbox])
  PROVE  EndingsReported'
<1> DEFINE S == queue[StateInbox]
           T == queue'[StateInbox]
<1>0. (Stopped' <=> Stopped) /\ UNCHANGED missions /\ (reporter_alive' <=> reporter_alive)
  BY DEF OnMissionState, manager, flags, Stopped
<1>1. /\ Len(S) \in Nat /\ Len(S) > 0 /\ msg = S[1]
      /\ Len(T) = Len(S) - 1
      /\ \A i \in 1..Len(T) : T[i] = S[i + 1]
      /\ IsList(T)
  BY Boxes, Taking
<1>2. T = << >> <=> Len(T) = 0
  BY <1>1, EmptySeq DEF IsList
<1>3. report_timer = FALSE
  BY DEF EndingsReported, ReportInv, Types
<1> HIDE DEF S, T
<1>4. \A i \in EndsIn(T) : i = Len(T) /\ Stopped'
  <2> SUFFICES ASSUME NEW i \in EndsIn(T) PROVE i = Len(T) /\ Stopped'
    OBVIOUS
  <2>1. i \in 1..Len(T) /\ i + 1 \in 1..Len(S) /\ S[i + 1].state \in Terminal
    BY <1>1 DEF EndsIn
  <2>2. i + 1 \in EndsIn(S)
    BY <2>1 DEF EndsIn
  <2>3. i + 1 = Len(S) /\ Stopped
    BY <2>2 DEF EndingsReported, S
  <2> QED  BY <1>0, <1>1, <2>1, <2>3
<1>5. ASSUME msg.state \in Terminal PROVE Stopped' /\ T = << >>
  <2>1. 1 \in EndsIn(S)
    BY <1>1, <1>5 DEF EndsIn
  <2>2. 1 = Len(S) /\ Stopped
    BY <2>1 DEF EndingsReported, S
  <2>3. Len(S) = 1 /\ Len(T) = Len(S) - 1
    BY <1>1, <2>2
  <2>4. Len(T) = 0
    BY <2>3
  <2> QED  BY <1>0, <1>2, <2>2, <2>4
<1>6. CASE OpensRun(msg)
  <2>1. mission_states' = <<msg>> /\ report_timer' = FALSE /\ msg.state \notin Terminal
    BY <1>3, <1>6 DEF OnMissionState, OpensRun, Terminal
  <2>2. EndsIn(<<msg>>) = {}
    BY <2>1 DEF EndsIn
  <2> QED  BY <1>0, <1>4, <2>1, <2>2 DEF EndingsReported, T
<1>7. CASE ~OpensRun(msg)
  <2> DEFINE new == mission_states'
  <2>1. /\ new = Append(mission_states, msg) /\ (report_written' <=> report_written)
        /\ report_timer' = (msg.state \in Terminal /\ report_written = FALSE)
    BY <1>3, <1>7 DEF OnMissionState, ReportInv, Types
  <2>2. /\ Len(mission_states) \in Nat /\ Len(new) = Len(mission_states) + 1
        /\ \A i \in 1..Len(mission_states) : new[i] = mission_states[i]
        /\ new[Len(mission_states) + 1] = msg
    BY <2>1, ListGrows DEF ReportInv, Types
  <2> HIDE DEF new
  <2>3. ASSUME report_written = FALSE
        PROVE  EndsIn(new) = IF msg.state \in Terminal THEN {Len(new)} ELSE {}
    <3>1. EndsIn(mission_states) = {}
      BY <1>3, <2>3 DEF EndingsReported
    <3>2. \A i \in 1..Len(new) : i \in 1..Len(mission_states) \/ i = Len(new)
      BY <2>2
    <3>3. \A i \in 1..Len(mission_states) : new[i].state \notin Terminal
      BY <2>2, <3>1 DEF EndsIn
    <3>4. Len(new) \in 1..Len(new) /\ new[Len(new)] = msg
      BY <2>2
    <3> QED  BY <3>2, <3>3, <3>4 DEF EndsIn
  <2>4. CASE report_written = FALSE
    <3>1. report_timer' <=> msg.state \in Terminal
      BY <2>1, <2>4
    <3> QED  BY <1>0, <1>4, <1>5, <2>1, <2>3, <2>4, <3>1 DEF EndingsReported, T, new
  <2>5. CASE report_written = TRUE
    <3>1. report_timer' = FALSE /\ report_written' = TRUE
      BY <2>1, <2>5 DEF OnMissionState, ReportInv, Types
    <3> QED  BY <1>0, <1>4, <3>1 DEF EndingsReported, T
  <2> QED  BY <2>4, <2>5 DEF ReportInv, Types
<1> QED  BY <1>6, <1>7

LEMMA EndingsCollected ==
  ASSUME QueuesInv, ReportInv, EndingsReported, NEW c \in Inboxes, Collect(c)
  PROVE  EndingsReported'
<1>0. SUFFICES ASSUME timing.operator_waits PROVE EndingsReported'
  BY DEF Collect, EndingsReported
<1>1. /\ reporter_alive /\ queue[c] # << >> /\ queue' = Taken(c)
      /\ UNCHANGED <<manager, timing>>
  BY DEF Collect, ReportStep
<1>2. CASE c = StateInbox
  <2>1. OnMissionState(Head(queue[StateInbox]))
    BY <1>2, Boxes DEF Collect, ReportStep, StateTopics
  <2> QED  BY <1>0, <1>1, <1>2, <2>1, EndingCollected
<1>3. CASE c # StateInbox
  <2>1. UNCHANGED <<mission_states, missions, report_timer, report_written, reporter_alive>>
    BY <1>3, Boxes DEF Collect, ReportStep, OnLatestState, OnRecord
  <2>2. queue'[StateInbox] = queue[StateInbox]
    BY <1>1, <1>3, Taking, Boxes
  <2>3. Stopped' <=> Stopped
    BY <1>1 DEF manager, flags, Stopped
  <2> QED  BY <1>1, <2>1, <2>2, <2>3 DEF EndingsReported
<1> QED  BY <1>2, <1>3

LEMMA EndingsWritten ==
  ASSUME ReportInv, EndingsReported, HalfSecond
  PROVE  EndingsReported'
<1>1. /\ WriteReportOnce /\ UNCHANGED <<manager, timing, queue, mission_states>>
      /\ report_timer /\ report_timer' = FALSE
  BY DEF HalfSecond, WriteReportOnce
<1>2. report_written = FALSE
  BY <1>1 DEF ReportInv, Types, ArmedTimerHasReport
<1>3. (Stopped' <=> Stopped) /\ queue'[StateInbox] = queue[StateInbox]
  BY <1>1 DEF manager, flags, Stopped
<1>4. CASE WriteReport
  <2>1. report_written' = TRUE
    BY <1>4 DEF WriteReport
  <2>2. \A m \in missions' : m \in missions \/ m.mission_states = mission_states
    BY <1>4 DEF WriteReport, PersistReport, CurrentReport
  <2> QED  BY <1>1, <1>3, <2>1, <2>2 DEF EndingsReported
<1>5. CASE WriteReportFails
  <2>1. missions' = missions /\ reporter_alive' = FALSE
    BY <1>5 DEF WriteReportFails
  <2> QED  BY <1>1, <1>3, <2>1 DEF EndingsReported
<1> QED  BY <1>1, <1>2, <1>4, <1>5 DEF WriteReportOnce

LEMMA EndingsStep ==
  QueuesInv /\ ReportInv /\ EndingsReported /\ [Next]_vars => EndingsReported'
<1> SUFFICES ASSUME QueuesInv, ReportInv, EndingsReported, [Next]_vars PROVE EndingsReported'
  OBVIOUS
<1>1. CASE UNCHANGED vars
  BY <1>1 DEF vars, manager, flags, reporter, EndingsReported, Stopped
<1> QED  BY <1>1, EndingsSpoken, EndingsCollected, EndingsWritten DEF Next

\* What holds of every timing, and what operators gain who wait.
LEMMA PatienceRewarded == Safety => [](QueuesInv /\ ReportInv /\ EndingsReported)
<1>1. Init => QueuesInv /\ ReportInv /\ EndingsReported
  BY InitQueues, InitReports, InitEndings
<1>2. ReportInv /\ [Next]_vars => ReportInv'
  BY ReportsStep
<1> QED  BY <1>1, <1>2, QueuesStep, EndingsStep, PTL DEF Safety

\* Operators who wait get reports of single missions, for every mission,
\* whatever the order of the messages and however many a queue loses.
THEOREM ReportsEndOneMission == Safety => []ReportEndsOneMission
<1>1. EndingsReported => ReportEndsOneMission
  BY DEF EndingsReported, ReportEndsOneMission, Ends, EndsIn
<1> QED  BY PatienceRewarded, <1>1, PTL

-----------------------------------------------------------------------------
(* A report holds the records of its missions.                              *)

\* Only operators start missions, the default of the launch file.
OperatorsStart == Autostart = FALSE

\* No state that waits is lost while a mission runs: a queue has room for what
\* every command and every step of the mission says.
StatesFit == MaxCommands + Len(Steps) <= Depth

EventsFit == 2 * (MaxCommands + Len(Steps)) <= Depth

\* While operators wait, the queues hold what was said since they last were
\* empty, and nothing else.
QueuesFit ==
  timing.operator_waits =>
    /\ Len(queue[StateInbox]) <= commands + StepsTold
    /\ Len(queue[EventInbox]) <= 2 * (commands + StepsTold)

LEMMA GrownLength ==
  ASSUME NEW q, NEW t, NEW after, IsList(q), Len(t) \in Nat, Grown(after, q, t)
  PROVE  /\ Len(q) \in Nat /\ Len(after) \in Nat
         /\ Len(after) <= Len(q) + Len(t)
         /\ Len(q) + Len(t) > 0 => Len(after) > 0
<1>1. Len(q) \in Nat
  BY LenProperties DEF IsList
<1> QED  BY <1>1 DEF Grown

\* Sums of lengths.
LEMMA Sum == \A x, y \in Nat : x + y \in Nat
OBVIOUS

LEMMA AtMost == \A x, y, n, k \in Nat : x <= y + n /\ n <= k => x <= y + k
OBVIOUS

LEMMA Grows ==
  \A x, y, z, w \in Nat : \/ x + 1 <= z /\ y <= w
                          \/ x <= z /\ y + 1 <= w
                          => x + y + 1 <= z + w
OBVIOUS

LEMMA StillFits ==
  ASSUME NEW n \in Nat, NEW m \in Nat, n + 1 <= m,
         NEW s \in Nat, NEW t \in Nat, NEW e \in Nat, NEW f \in Nat,
         s <= n, e <= 2 * n, t <= s + 1, f <= e + 2
  PROVE  t <= m /\ f <= 2 * m
OBVIOUS

LEMMA InitFit == Init => QueuesFit
<1> SUFFICES ASSUME Init PROVE QueuesFit  OBVIOUS
<1> DEFINE created == StateMsg("created", "Mission manager ready", -1, 0)
<1>1. commands = 0 /\ MayBegin
  BY DEF Init, MissionInit, MayBegin
<1>2. Len(Steps) \in Nat \ {0} /\ StepsTold = Len(Steps)
  BY <1>1, MissionAssumption DEF StepsTold
<1>3. (queue[StateInbox] = << >> \/ queue[StateInbox] = <<created>>) /\ queue[EventInbox] = << >>
  BY Boxes DEF Init, NoMessages, Observed
<1> HIDE DEF created
<1>4. Len(<<created>>) = 1 /\ Len(<< >>) = 0
  OBVIOUS
<1>5. (Len(queue[StateInbox]) = 0 \/ Len(queue[StateInbox]) = 1) /\ Len(queue[EventInbox]) = 0
  BY <1>3, <1>4
<1> DEFINE n == commands + StepsTold
<1>6. n \in Nat /\ n >= 1
  <2> DEFINE p == StepsTold
  <2>1. p \in Nat /\ p >= 1
    BY <1>2
  <2> HIDE DEF p
  <2>2. 0 + p \in Nat /\ 0 + p >= 1
    BY <2>1
  <2> QED  BY <1>1, <2>2 DEF p
<1> HIDE DEF n
<1>7. Len(queue[StateInbox]) <= n
  <2> DEFINE x == Len(queue[StateInbox])
  <2>1. x = 0 \/ x = 1
    BY <1>5
  <2> HIDE DEF x
  <2>2. x <= n
    BY <1>6, <2>1
  <2> QED  BY <2>2 DEF x
<1>8. Len(queue[EventInbox]) <= 2 * n
  BY <1>5, <1>6
<1> QED  BY <1>7, <1>8 DEF QueuesFit, n

\* What one step of the mission manager adds to the two queues.
LEMMA FitMoved ==
  ASSUME QueuesInv, SaysNothing \/ \E s : Says(s)
  PROVE  /\ Len(queue[StateInbox]) \in Nat /\ Len(queue[EventInbox]) \in Nat
         /\ Len(queue'[StateInbox]) \in Nat /\ Len(queue'[EventInbox]) \in Nat
         /\ Len(queue'[StateInbox]) <= Len(queue[StateInbox]) + 1
         /\ Len(queue'[EventInbox]) <= Len(queue[EventInbox]) + 2
<1>0. IsList(queue[StateInbox]) /\ IsList(queue[EventInbox])
  BY Boxes DEF QueuesInv
<1>1. Len(queue[StateInbox]) \in Nat /\ Len(queue[EventInbox]) \in Nat
  BY <1>0, LenProperties DEF IsList
<1>2. ASSUME NEW states, NEW events, Publishes(states, events), Len(states) \in 0..1
      PROVE  /\ Len(queue'[StateInbox]) \in Nat /\ Len(queue'[EventInbox]) \in Nat
             /\ Len(queue'[StateInbox]) <= Len(queue[StateInbox]) + 1
             /\ Len(queue'[EventInbox]) <= Len(queue[EventInbox]) + 2
  <2>1. Grown(queue'[StateInbox], queue[StateInbox], states) /\ Grown(queue'[EventInbox], queue[EventInbox], events)
    BY <1>2, WhatIsReceived DEF Receive
  <2>2. Len(events) \in Nat /\ Len(events) <= 2 /\ Len(states) \in Nat /\ Len(states) <= 1
    BY <1>2 DEF Publishes, Messages
  <2>3. /\ Len(queue'[StateInbox]) \in Nat
        /\ Len(queue'[StateInbox]) <= Len(queue[StateInbox]) + Len(states)
    BY <1>0, <1>2, <2>1, GrownLength
  <2>4. /\ Len(queue'[EventInbox]) \in Nat
        /\ Len(queue'[EventInbox]) <= Len(queue[EventInbox]) + Len(events)
    BY <1>0, <2>1, <2>2, GrownLength
  <2>5. Len(queue'[StateInbox]) <= Len(queue[StateInbox]) + 1
    BY <1>1, <2>2, <2>3, AtMost
  <2>6. Len(queue'[EventInbox]) <= Len(queue[EventInbox]) + 2
    BY <1>1, <2>2, <2>4, AtMost
  <2> QED  BY <2>3, <2>4, <2>5, <2>6
<1>3. Len(<< >>) \in 0..1 /\ \A s : Len(<<s>>) \in 0..1
  OBVIOUS
<1>4. CASE queue' = queue
  BY <1>1, <1>4
<1>5. queue' = queue \/ \E states, events : Publishes(states, events) /\ Len(states) \in 0..1
  BY <1>3 DEF SaysNothing, Says
<1> QED  BY <1>1, <1>2, <1>4, <1>5

LEMMA FitStep ==
  ASSUME OperatorsStart, QueuesInv, QueuesInv', ReportInv, QueuesFit, [Next]_vars
  PROVE  QueuesFit'
<1> SUFFICES ASSUME timing.operator_waits PROVE QueuesFit'
  BY DEF QueuesFit, Next, Obey, Advance, Collect, HalfSecond, vars
<1>0. /\ MissionInv /\ commands \in Nat /\ commands' \in Nat
      /\ StepsTold \in Nat /\ StepsTold' \in Nat
  <2>1. MissionInv /\ MissionInv' /\ commands \in Nat /\ commands' \in Nat
    BY DEF QueuesInv
  <2>2. StepsTold \in Nat
    BY <2>1, StepsToldBounded
  <2>3. Len(Steps) \in Nat /\ (MayBegin' \/ current_step_index' \in Nat)
    BY <2>1, MissionAssumption DEF MissionInv, MissionTypeOK, FlowOK, MayBegin
  <2> QED  BY <2>1, <2>2, <2>3 DEF StepsTold
<1> DEFINE s == Len(queue[StateInbox])
           t == Len(queue'[StateInbox])
           e == Len(queue[EventInbox])
           f == Len(queue'[EventInbox])
           n == commands + StepsTold
           m == commands' + StepsTold'
<1>1. s <= n /\ e <= 2 * n
  BY DEF QueuesFit
<1>m. n \in Nat /\ m \in Nat
  BY <1>0, Sum
<1>f. ASSUME t <= m, f <= 2 * m PROVE QueuesFit'
  BY <1>f DEF QueuesFit
<1>2. ASSUME NEW msg \in MissionCommands, Obey(msg) PROVE QueuesFit'
  <2>1. commands' = commands + 1 /\ HandleMissionCommand(msg, queue)
    BY <1>2 DEF Obey
  <2>2. CommandMoves
    BY <1>0, <2>1, CommandsMove
  <2>3. s \in Nat /\ t \in Nat /\ t <= s + 1 /\ e \in Nat /\ f \in Nat /\ f <= e + 2
    BY <2>2, FitMoved DEF CommandMoves
  <2>4. CASE StepsTold <= StepsTold'
    <3>1. n + 1 <= m
      <4>1. commands + 1 <= commands'
        BY <1>0, <2>1
      <4> QED  BY <1>0, <2>4, <4>1, Grows
    <3> HIDE DEF s, t, e, f, n, m
    <3>2. t <= m /\ f <= 2 * m
      BY <1>1, <1>m, <2>3, <3>1, StillFits
    <3> QED  BY <1>f, <3>2
  <2>5. CASE MayBegin
    <3>1. queue[StateInbox] = << >> /\ queue[EventInbox] = << >>
      BY <1>2, <2>5, PatientCommand, Boxes
    <3>2. s = 0 /\ e = 0
      BY <3>1
    <3>3. 0 + 1 <= m
      <4> DEFINE p == StepsTold'
      <4>1. p \in Nat /\ m = commands + 1 + p
        BY <1>0, <2>1
      <4> HIDE DEF p, m
      <4> QED  BY <1>0, <4>1
    <3> HIDE DEF s, t, e, f, n, m
    <3>4. s <= 0 /\ e <= 2 * 0
      BY <3>2
    <3>5. t <= m /\ f <= 2 * m
      BY <1>m, <2>3, <3>3, <3>4, StillFits
    <3> QED  BY <1>f, <3>5
  <2>6. StepsTold <= StepsTold' \/ MayBegin
    <3>1. CASE Unmoved
      <4>1. (MayBegin' <=> MayBegin) /\ current_step_index' = current_step_index
        BY <3>1, UnmovedEffect DEF FlagsKept, MayBegin, Stopped
      <4>2. StepsTold' = StepsTold
        BY <4>1 DEF StepsTold
      <4> QED  BY <1>0, <4>2
    <3> QED  BY <2>2, <3>1 DEF CommandMoves
  <2> QED  BY <2>4, <2>5, <2>6
<1>3. CASE Advance
  <2>1. commands' = commands /\ Tick(queue)
    BY <1>3 DEF Advance
  <2>2. TickMoves
    BY <1>0, <2>1, TicksMove
  <2>3. s \in Nat /\ t \in Nat /\ t <= s + 1 /\ e \in Nat /\ f \in Nat /\ f <= e + 2
    BY <2>2, FitMoved DEF TickMoves
  <2>4. StepsTold + 1 <= StepsTold'
    BY <2>2 DEF TickMoves, OperatorsStart
  <2>5. n + 1 <= m
    <3>1. commands <= commands'
      BY <1>0, <2>1
    <3> QED  BY <1>0, <2>4, <3>1, Grows
  <2> HIDE DEF s, t, e, f, n, m
  <2>6. t <= m /\ f <= 2 * m
    BY <1>1, <1>m, <2>3, <2>5, StillFits
  <2> QED  BY <1>f, <2>6
<1>4. ASSUME UNCHANGED <<manager, commands>>, t <= s, f <= e, s \in Nat, t \in Nat, e \in Nat, f \in Nat
      PROVE  QueuesFit'
  <2>1. StepsTold' = StepsTold /\ commands' = commands
    BY <1>4 DEF StepsTold, MayBegin, Stopped, manager, flags
  <2>2. m = n
    BY <2>1
  <2> HIDE DEF s, t, e, f, n, m
  <2>3. t <= m /\ f <= 2 * m
    BY <1>1, <1>m, <1>4, <2>2
  <2> QED  BY <1>f, <2>3
<1>5. s \in Nat /\ e \in Nat
  <2>1. IsList(queue[StateInbox]) /\ IsList(queue[EventInbox])
    BY Boxes DEF QueuesInv
  <2> QED  BY <2>1, LenProperties DEF IsList
<1>6. ASSUME NEW c \in Inboxes, Collect(c) PROVE QueuesFit'
  <2>1. queue[c] # << >> /\ queue' = Taken(c) /\ UNCHANGED <<manager, commands>>
    BY <1>6 DEF Collect, ReportStep
  <2>2. \A d \in Inboxes : queue'[d] = queue[d] \/ Len(queue'[d]) = Len(queue[d]) - 1
    BY <2>1, Taking, Boxes
  <2>3. IsList(queue'[StateInbox]) /\ IsList(queue'[EventInbox])
    BY Boxes DEF QueuesInv
  <2>4. t \in Nat /\ f \in Nat
    BY <2>3, LenProperties DEF IsList
  <2>5. (t = s \/ t = s - 1) /\ (f = e \/ f = e - 1)
    BY <2>2, Boxes
  <2> HIDE DEF s, t, e, f
  <2>6. t <= s /\ f <= e
    BY <1>5, <2>4, <2>5
  <2> QED  BY <1>4, <1>5, <2>1, <2>4, <2>6
<1>7. CASE HalfSecond \/ UNCHANGED vars
  <2>1. UNCHANGED <<queue, manager, commands>>
    BY <1>7 DEF HalfSecond, WriteReportOnce, vars
  <2>2. t = s /\ f = e
    BY <2>1
  <2> HIDE DEF s, t, e, f
  <2>3. t <= s /\ f <= e /\ t \in Nat /\ f \in Nat
    BY <1>5, <2>2
  <2> QED  BY <1>4, <1>5, <2>1, <2>3
<1> QED  BY <1>2, <1>3, <1>6, <1>7 DEF Next

OfRun(s, r) == \A i \in 1..Len(s) : s[i].run = r

\* While operators wait and start the missions, what waits in the queues is of
\* the run of the last start.
OneRunQueued == timing.operator_waits => \A c \in Inboxes : OfRun(queue[c], run)

\* The element of a grown queue comes from one of the two lists.
LEMMA GrownFrom ==
  ASSUME NEW q, NEW t, NEW after, IsList(q), IsList(t), Grown(after, q, t), NEW i \in 1..Len(after)
  PROVE  \/ \E j \in 1..Len(q) : after[i] = q[j]
         \/ \E j \in 1..Len(t) : after[i] = t[j]
<1>1. Len(q) \in Nat /\ Len(t) \in Nat
  BY LenProperties DEF IsList
<1>2. PICK k \in 0..(Len(q) + Len(t)) :
        /\ Len(after) = Len(q) + Len(t) - k
        /\ \A n \in 1..Len(after) : after[n] = IF n + k <= Len(q) THEN q[n + k] ELSE t[n + k - Len(q)]
  BY DEF Grown
<1> DEFINE x == Len(q)
           y == Len(t)
<1>3. x \in Nat /\ y \in Nat /\ k \in Nat /\ i \in Nat /\ i >= 1 /\ i + k <= x + y
  BY <1>1, <1>2
<1>4. after[i] = IF i + k <= x THEN q[i + k] ELSE t[i + k - x]
  BY <1>2
<1> HIDE DEF x, y
<1>5. CASE i + k <= x
  <2>1. i + k \in 1..x
    BY <1>3, <1>5
  <2> QED  BY <1>4, <1>5, <2>1 DEF x
<1>6. CASE ~(i + k <= x)
  <2>1. i + k - x \in 1..y
    BY <1>3, <1>6
  <2> QED  BY <1>4, <1>6, <2>1 DEF y
<1> QED  BY <1>5, <1>6

LEMMA RunsReceived ==
  ASSUME QueuesInv, SaysNothing \/ \E s : Says(s), \A c \in Inboxes : OfRun(queue[c], run),
         run' = run \/ \A c \in Inboxes : queue[c] = << >>
  PROVE  \A c \in Inboxes : OfRun(queue'[c], run')
<1> SUFFICES ASSUME NEW c \in Inboxes PROVE OfRun(queue'[c], run')
  OBVIOUS
<1>1. OfRun(queue[c], run') /\ IsList(queue[c])
  <2>1. OfRun(<< >>, run')
    BY DEF OfRun
  <2> QED  BY <2>1 DEF QueuesInv
<1>2. ASSUME NEW states, NEW events, Publishes(states, events) PROVE OfRun(queue'[c], run')
  <2>1. CASE queue'[c] = queue[c]
    BY <1>1, <2>1
  <2>2. ASSUME NEW t, Messages(t, run'), Grown(queue'[c], queue[c], t) PROVE OfRun(queue'[c], run')
    <3>1. IsList(t) /\ OfRun(t, run')
      BY <2>2 DEF Messages, OfRun
    <3>2. \A i \in 1..Len(queue'[c]) :
            \/ \E j \in 1..Len(queue[c]) : queue'[c][i] = queue[c][j]
            \/ \E j \in 1..Len(t) : queue'[c][i] = t[j]
      BY <1>1, <2>2, <3>1, GrownFrom
    <3> QED  BY <1>1, <3>1, <3>2 DEF OfRun
  <2> QED  BY <1>2, <2>1, <2>2, WhatIsReceived DEF Receive
<1>3. CASE queue' = queue
  BY <1>1, <1>3
<1> QED  BY <1>2, <1>3 DEF SaysNothing, Says

LEMMA InitRuns == Init => OneRunQueued
<1> SUFFICES ASSUME Init PROVE OneRunQueued  OBVIOUS
<1> DEFINE created == StateMsg("created", "Mission manager ready", -1, 0)
<1>1. run = 0 /\ created.run = 0
  BY DEF Init, MissionInit, StateMsg
<1>2. \A c \in Inboxes : queue[c] = << >> \/ queue[c] = <<created>>
  BY DEF Init, NoMessages, Observed, Inboxes
<1> HIDE DEF created
<1>3. OfRun(<< >>, 0) /\ OfRun(<<created>>, 0)
  BY <1>1 DEF OfRun
<1> QED  BY <1>1, <1>2, <1>3 DEF OneRunQueued

LEMMA RunsStep ==
  ASSUME OperatorsStart, QueuesInv, ReportInv, OneRunQueued, [Next]_vars
  PROVE  OneRunQueued'
<1> SUFFICES ASSUME timing.operator_waits PROVE OneRunQueued'
  BY DEF OneRunQueued, Next, Obey, Advance, Collect, HalfSecond, vars
<1>0. MissionInv /\ \A c \in Inboxes : OfRun(queue[c], run)
  BY DEF QueuesInv, OneRunQueued
<1>1. ASSUME NEW msg \in MissionCommands, Obey(msg) PROVE OneRunQueued'
  <2>1. CommandMoves
    BY <1>0, <1>1, CommandsMove DEF Obey
  <2>2. run' = run \/ MayBegin
    BY <2>1, UnmovedEffect DEF CommandMoves
  <2>3. run' = run \/ \A c \in Inboxes : queue[c] = << >>
    BY <1>1, <2>2, PatientCommand
  <2> QED  BY <1>0, <2>1, <2>3, RunsReceived DEF CommandMoves, OneRunQueued
<1>2. CASE Advance
  <2>1. TickMoves
    BY <1>0, <1>2, TicksMove DEF Advance
  <2> QED  BY <1>0, <2>1, RunsReceived DEF TickMoves, OperatorsStart, OneRunQueued
<1>3. ASSUME NEW c \in Inboxes, Collect(c) PROVE OneRunQueued'
  <2>1. queue[c] # << >> /\ queue' = Taken(c) /\ run' = run
    BY <1>3 DEF Collect, ReportStep, manager
  <2>2. /\ \A d \in Inboxes : d # c => queue'[d] = queue[d]
        /\ Len(queue[c]) \in Nat /\ Len(queue'[c]) = Len(queue[c]) - 1
        /\ \A i \in 1..Len(queue'[c]) : queue'[c][i] = queue[c][i + 1]
    BY <2>1, Taking, Boxes
  <2>3. OfRun(queue'[c], run')
    <3> DEFINE n == Len(queue[c])
               m == Len(queue'[c])
    <3>1. n \in Nat /\ m = n - 1
      BY <2>2
    <3> HIDE DEF n, m
    <3>2. \A i \in 1..m : i + 1 \in 1..n
      BY <3>1
    <3> QED  BY <1>0, <2>1, <2>2, <3>2 DEF OfRun, n, m
  <2> QED  BY <1>0, <2>1, <2>2, <2>3 DEF OneRunQueued
<1>4. CASE HalfSecond \/ UNCHANGED vars
  <2>1. queue' = queue /\ run' = run
    BY <1>4 DEF HalfSecond, WriteReportOnce, vars, manager
  <2> QED  BY <1>0, <2>1 DEF OneRunQueued
<1> QED  BY <1>1, <1>2, <1>3, <1>4 DEF Next

-----------------------------------------------------------------------------

RunsIn(s) == {s[i].run : i \in 1..Len(s)}

\* What the lists hold that no report holds yet: records of the missions whose
\* states are in them, or of the mission whose states are on their way.  Before
\* the first state, a start that waits will empty the lists.
ListsTogether ==
  IF mission_states = << >>
  THEN \/ \A r \in collected : r[2].run = run
       \/ queue[StateInbox] # << >> /\ Starts(queue[StateInbox][1])
  ELSE /\ queue[StateInbox] # << >> \/ run \in RunsIn(mission_states)
       /\ \A r \in collected : r[2].run \in RunsIn(mission_states) \cup {run}

RowsOwned ==
  \A row \in record_rows : \E m \in missions :
    m.report_id = row.report_id /\ row.record.run \in RunsIn(m.mission_states)

RecordsOwned ==
  timing.operator_waits => RowsOwned /\ (report_written = FALSE => ListsTogether)

LEMMA InitRecords == Init => RecordsOwned
BY DEF Init, ReportInit, RecordsOwned, RowsOwned, ListsTogether

\* The queue of states after something was said.
LEMMA StatesAfter ==
  ASSUME QueuesInv, NEW states, NEW events, Publishes(states, events)
  PROVE  /\ queue[StateInbox] # << >> \/ states # << >> => queue'[StateInbox] # << >>
         /\ queue[StateInbox] # << >> /\ Len(queue[StateInbox]) + Len(states) <= Depth
              => queue'[StateInbox][1] = queue[StateInbox][1]
         /\ \A s : queue[StateInbox] = << >> /\ states = <<s>> => queue'[StateInbox][1] = s
<1> DEFINE S == queue[StateInbox]
           T == queue'[StateInbox]
<1>1. Grown(T, S, states) /\ IsList(S) /\ IsList(states)
  BY WhatIsReceived, Boxes DEF Receive, QueuesInv, Publishes, Messages
<1> HIDE DEF S, T
<1>2. /\ Len(S) \in Nat /\ Len(states) \in Nat /\ (S = << >> <=> Len(S) = 0)
      /\ (states = << >> <=> Len(states) = 0)
  BY <1>1, LenProperties, EmptySeq DEF IsList
<1>3. IsList(T)
  BY <1>1 DEF Grown
<1>4. Len(T) \in Nat /\ (T = << >> <=> Len(T) = 0)
  BY <1>3, LenProperties, EmptySeq DEF IsList
<1>5. PICK k \in 0..(Len(S) + Len(states)) :
       /\ Len(T) = Len(S) + Len(states) - k
       /\ \A i \in 1..Len(T) :
            T[i] = IF i + k <= Len(S) THEN S[i + k] ELSE states[i + k - Len(S)]
       /\ Len(S) + Len(states) <= Depth => k = 0
       /\ Len(S) + Len(states) > 0 => Len(T) > 0
  BY <1>1 DEF Grown
<1>6. S # << >> \/ states # << >> => Len(T) > 0
  BY <1>2, <1>5
<1>7. ASSUME S # << >>, Len(S) + Len(states) <= Depth PROVE T[1] = S[1]
  <2>1. k = 0 /\ 1 \in 1..Len(T) /\ 1 <= Len(S)
    BY <1>2, <1>4, <1>5, <1>6, <1>7
  <2> QED  BY <1>5, <2>1
<1>8. ASSUME NEW s, S = << >>, states = <<s>> PROVE T[1] = s
  <2>1. Len(states) = 1 /\ Len(S) = 0
    BY <1>2, <1>8
  <2>2. Depth \in Nat /\ Depth >= 1
    BY DepthAssumption
  <2>3. k = 0
    BY <1>5, <2>1, <2>2
  <2>4. Len(T) = 1
    BY <1>5, <2>1, <2>3
  <2>5. T[1] = states[1]
    BY <1>5, <2>1, <2>3, <2>4
  <2> QED  BY <1>8, <2>5
<1> QED  BY <1>2, <1>4, <1>6, <1>7, <1>8 DEF S, T

\* A step of the mission manager, while there is room for what it says.
LEMMA ListsMoved ==
  ASSUME QueuesInv, ListsTogether, UNCHANGED <<mission_states, collected>>,
         Len(queue[StateInbox]) + 1 <= Depth,
         \/ run' = run /\ (SaysNothing \/ \E s : Says(s))
         \/ queue[StateInbox] = << >> /\ \E s : Says(s) /\ Starts(s)
  PROVE  ListsTogether'
<1> DEFINE S == queue[StateInbox]
           T == queue'[StateInbox]
<1>1. CASE run' = run /\ (SaysNothing \/ \E s : Says(s))
  <2>1. S # << >> => T # << >> /\ T[1] = S[1]
    <3>1. ASSUME NEW states, NEW events, Publishes(states, events), Len(states) \in 0..1
          PROVE  S # << >> => T # << >> /\ T[1] = S[1]
      <4>1. Len(S) \in Nat /\ Len(states) \in Nat /\ Len(states) <= 1 /\ Depth \in Nat
        <5>1. IsList(S)
          BY Boxes DEF QueuesInv
        <5>2. Len(S) \in Nat
          BY <5>1, LenProperties DEF IsList
        <5> DEFINE n == Len(states)
        <5>3. n \in 0..1
          BY <3>1
        <5> HIDE DEF n
        <5>4. n \in Nat /\ n <= 1
          BY <5>3
        <5> QED  BY <5>2, <5>4, DepthAssumption DEF n
      <4>2. Len(S) + Len(states) <= Depth
        <5> DEFINE x == Len(S)
                   y == Len(states)
        <5>1. x \in Nat /\ y \in Nat /\ y <= 1 /\ Depth \in Nat /\ x + 1 <= Depth
          BY <4>1
        <5> HIDE DEF x, y
        <5>2. x + y <= Depth
          BY <5>1
        <5> QED  BY <5>2 DEF x, y
      <4> QED  BY <3>1, <4>2, StatesAfter
    <3>2. Len(<< >>) \in 0..1 /\ \A s : Len(<<s>>) \in 0..1
      OBVIOUS
    <3>3. queue' = queue \/ \E states, events : Publishes(states, events) /\ Len(states) \in 0..1
      BY <1>1, <3>2 DEF SaysNothing, Says
    <3> QED  BY <3>1, <3>3
  <2> HIDE DEF S, T
  <2>2. CASE mission_states = << >>
    BY <1>1, <2>1, <2>2 DEF ListsTogether, S, T
  <2>3. CASE mission_states # << >>
    BY <1>1, <2>1, <2>3 DEF ListsTogether, S, T
  <2> QED  BY <2>2, <2>3
<1>2. ASSUME S = << >>, NEW s, Says(s), Starts(s) PROVE ListsTogether'
  <2>1. PICK events : Publishes(<<s>>, events)
    BY <1>2 DEF Says
  <2>2. T # << >> /\ T[1] = s
    BY <1>2, <2>1, StatesAfter
  <2> HIDE DEF S, T
  <2>3. CASE mission_states = << >>
    BY <1>2, <2>2, <2>3 DEF ListsTogether, T
  <2>4. CASE mission_states # << >>
    BY <1>2, <2>2, <2>4 DEF ListsTogether, S, T
  <2> QED  BY <2>3, <2>4
<1> QED  BY <1>1, <1>2

LEMMA RecordsSpoken ==
  ASSUME OperatorsStart, StatesFit, QueuesInv, QueuesInv', ReportInv, QueuesFit, QueuesFit', RecordsOwned,
         (\E msg \in MissionCommands : Obey(msg)) \/ Advance, timing.operator_waits
  PROVE  RecordsOwned'
<1>0. MissionInv /\ IsList(queue[StateInbox])
  BY Boxes DEF QueuesInv
<1>1. UNCHANGED <<record_rows, missions, mission_states, collected, report_written, timing>>
  BY DEF Obey, Advance, reporter
<1> DEFINE s == Len(queue[StateInbox])
           p == StepsTold
           pp == StepsTold'
           N == Len(Steps)
<1>2. s \in Nat /\ p \in 0..N /\ N \in Nat /\ pp \in 0..N /\ s <= commands + p
      /\ Depth \in Nat /\ MaxCommands + N <= Depth /\ MaxCommands \in Nat
      /\ commands \in Nat /\ commands <= MaxCommands /\ Depth >= 1
  <2>1. p \in 0..N /\ N \in Nat
    BY <1>0, StepsToldBounded
  <2>2. pp \in 0..N
    <3>1. N \in Nat /\ (MayBegin' \/ current_step_index' \in 0..N)
      BY MissionAssumption DEF QueuesInv, MissionInv, MissionTypeOK, FlowOK, MayBegin
    <3> QED  BY <3>1 DEF StepsTold
  <2>3. s \in Nat
    BY <1>0, LenProperties DEF IsList
  <2>4. s <= commands + p /\ MaxCommands + N <= Depth
    BY <1>1 DEF QueuesFit, StatesFit
  <2>5. MaxCommands \in Nat /\ commands \in Nat /\ commands <= MaxCommands /\ Depth \in Nat /\ Depth >= 1
    BY TimingAssumption, DepthAssumption DEF QueuesInv
  <2> QED  BY <2>1, <2>2, <2>3, <2>4, <2>5
<1>3. ASSUME s + 1 <= Depth,
             \/ run' = run /\ (SaysNothing \/ \E m : Says(m))
             \/ queue[StateInbox] = << >> /\ \E m : Says(m) /\ Starts(m)
      PROVE  RecordsOwned'
  BY <1>1, <1>3, ListsMoved DEF RecordsOwned, RowsOwned
<1>4. ASSUME NEW msg \in MissionCommands, Obey(msg) PROVE RecordsOwned'
  <2>1. CommandMoves /\ commands < MaxCommands
    BY <1>0, <1>4, CommandsMove DEF Obey
  <2>2. s + 1 <= Depth
    <3> HIDE DEF s, p, pp, N
    <3>1. commands + 1 <= MaxCommands
      BY <1>2, <2>1
    <3> QED  BY <1>2, <3>1
  <2>3. MayBegin => queue[StateInbox] = << >>
    BY <1>4, PatientCommand, Boxes
  <2>4. \/ run' = run /\ (SaysNothing \/ \E m : Says(m))
        \/ queue[StateInbox] = << >> /\ \E m : Says(m) /\ Starts(m)
    BY <2>1, <2>3, UnmovedEffect DEF CommandMoves
  <2> QED  BY <1>3, <2>2, <2>4
<1>5. CASE Advance
  <2>1. TickMoves
    BY <1>0, <1>5, TicksMove DEF Advance
  <2>2. p + 1 <= pp /\ run' = run /\ \E m : Says(m)
    BY <2>1 DEF TickMoves, OperatorsStart
  <2>3. s + 1 <= Depth
    <3> HIDE DEF s, p, pp, N
    <3> QED  BY <1>2, <2>2
  <2> QED  BY <1>3, <2>2, <2>3
<1> QED  BY <1>4, <1>5

\* A state that is collected opens lists of its own or joins those of its run.
LEMMA StateJoins ==
  ASSUME QueuesInv, ReportInv, OneRunQueued, RecordsOwned, timing.operator_waits, NEW msg, OnMissionState(msg),
         queue[StateInbox] # << >>, queue' = Taken(StateInbox), msg = Head(queue[StateInbox]),
         UNCHANGED <<manager, timing>>
  PROVE  RecordsOwned'
<1>0. msg = queue[StateInbox][1] /\ Len(queue[StateInbox]) \in Nat /\ Len(queue[StateInbox]) > 0
  BY Boxes, Taking
<1>1. msg.run = run /\ run' = run
  BY <1>0, Boxes DEF OneRunQueued, OfRun, manager
<1>2. RowsOwned'
  BY DEF RecordsOwned, RowsOwned, OnMissionState
<1>3. ASSUME OpensRun(msg) PROVE ListsTogether'
  <2>1. collected' = {} /\ mission_states' = <<msg>>
    BY <1>3 DEF OnMissionState, OpenLists
  <2>2. mission_states' # << >> /\ run \in RunsIn(mission_states')
    <3>1. Len(<<msg>>) = 1 /\ <<msg>>[1] = msg /\ <<msg>> # << >>
      OBVIOUS
    <3> QED  BY <1>1, <2>1, <3>1 DEF RunsIn
  <2> QED  BY <1>1, <2>1, <2>2 DEF ListsTogether
<1>4. ASSUME ~OpensRun(msg), report_written' = FALSE PROVE ListsTogether'
  <2> DEFINE new == mission_states'
  <2>1. /\ new = Append(mission_states, msg) /\ collected' = collected /\ report_written = FALSE
    BY <1>4 DEF OnMissionState
  <2>2. /\ Len(mission_states) \in Nat /\ Len(new) = Len(mission_states) + 1
        /\ \A i \in 1..Len(mission_states) : new[i] = mission_states[i]
        /\ new[Len(mission_states) + 1] = msg /\ IsList(new)
    BY <2>1, ListGrows DEF ReportInv, Types
  <2> HIDE DEF new
  <2>3. new # << >>
    BY <2>2
  <2>4. \A i \in 1..Len(mission_states) : i \in 1..Len(new)
    BY <2>2
  <2>5. Len(mission_states) + 1 \in 1..Len(new)
    BY <2>2
  <2>6. run \in RunsIn(new) /\ RunsIn(mission_states) \subseteq RunsIn(new)
    BY <1>1, <2>2, <2>4, <2>5 DEF RunsIn
  <2>7. \A r \in collected : r[2].run \in RunsIn(mission_states) \cup {run}
    <3>1. CASE mission_states = << >>
      <4>1. ~Starts(queue[StateInbox][1])
        BY <1>0, <1>4, <3>1 DEF OpensRun, Starts
      <4> QED  BY <2>1, <3>1, <4>1 DEF RecordsOwned, ListsTogether
    <3>2. CASE mission_states # << >>
      BY <2>1, <3>2 DEF RecordsOwned, ListsTogether
    <3> QED  BY <3>1, <3>2
  <2> QED  BY <1>1, <2>1, <2>3, <2>6, <2>7 DEF ListsTogether, new
<1> QED  BY <1>2, <1>3, <1>4 DEF RecordsOwned

LEMMA RecordJoins ==
  ASSUME QueuesInv, OneRunQueued, RecordsOwned, timing.operator_waits, NEW c \in Inboxes, c # StateInbox, Collect(c)
  PROVE  RecordsOwned'
<1> DEFINE msg == Head(queue[c])
<1>1. /\ queue[c] # << >> /\ queue' = Taken(c) /\ UNCHANGED <<manager, timing>>
      /\ OnLatestState(c.topic, msg) \/ OnRecord(c.topic, msg)
  BY Boxes DEF Collect, ReportStep
<1>2. queue'[StateInbox] = queue[StateInbox] /\ msg = queue[c][1] /\ Len(queue[c]) \in Nat /\ Len(queue[c]) > 0
  BY <1>1, Taking, Boxes
<1>3. msg.run = run /\ run' = run
  BY <1>1, <1>2 DEF OneRunQueued, OfRun, manager
<1> HIDE DEF msg
<1>4. /\ UNCHANGED <<mission_states, report_written, record_rows, missions>>
      /\ collected' = collected \/ collected' = collected \cup {<<c.topic, msg>>}
  BY <1>1 DEF OnLatestState, OnRecord
<1>5. \A r \in collected' : r \in collected \/ r[2].run = run
  BY <1>3, <1>4
<1>6. ASSUME ListsTogether PROVE ListsTogether'
  <2>1. CASE mission_states = << >>
    BY <1>2, <1>3, <1>4, <1>5, <1>6, <2>1 DEF ListsTogether
  <2>2. CASE mission_states # << >>
    BY <1>2, <1>3, <1>4, <1>5, <1>6, <2>2 DEF ListsTogether
  <2> QED  BY <2>1, <2>2
<1> QED  BY <1>1, <1>4, <1>6 DEF RecordsOwned, RowsOwned

\* When the report is written, all states of its missions are in it.
LEMMA RecordsWritten ==
  ASSUME ReportInv, EndingsReported, RecordsOwned, timing.operator_waits, HalfSecond
  PROVE  RecordsOwned'
<1>1. /\ WriteReportOnce /\ UNCHANGED <<manager, timing, queue, mission_states, collected>>
      /\ report_timer
  BY DEF HalfSecond, WriteReportOnce
<1>2. report_written = FALSE
  BY <1>1 DEF ReportInv, Types, ArmedTimerHasReport
<1>3. queue[StateInbox] = << >> /\ mission_states # << >>
  BY <1>1 DEF EndingsReported, ReportInv, ArmedTimerHasReport
<1>4. \A r \in collected : r[2].run \in RunsIn(mission_states)
  BY <1>2, <1>3 DEF RecordsOwned, ListsTogether
<1>5. \A m \in missions : m \in missions'
  BY <1>1, WriteStep
<1>6. CASE WriteReport
  <2>1. record_rows' = record_rows \cup Rows(CurrentReport) /\ CurrentReport \in missions'
    BY <1>6 DEF WriteReport, PersistReport
  <2>2. CurrentReport.mission_states = mission_states /\ CurrentReport.records = collected
    BY DEF CurrentReport
  <2>3. \A row \in Rows(CurrentReport) :
          CurrentReport.report_id = row.report_id /\ row.record.run \in RunsIn(CurrentReport.mission_states)
    <3> SUFFICES ASSUME NEW r \in CurrentReport.records
                 PROVE  r[2].run \in RunsIn(CurrentReport.mission_states)
      BY DEF Rows
    <3> QED  BY <1>4, <2>2
  <2>4. RowsOwned'
    BY <1>5, <2>1, <2>3 DEF RecordsOwned, RowsOwned
  <2>5. report_written' = TRUE
    BY <1>6 DEF WriteReport
  <2> QED  BY <2>4, <2>5 DEF RecordsOwned
<1>7. CASE WriteReportFails
  <2>1. UNCHANGED <<record_rows, missions, report_written>>
    BY <1>7 DEF WriteReportFails
  <2>2. ListsTogether'
    BY <1>1, <1>2 DEF RecordsOwned, ListsTogether, manager
  <2> QED  BY <2>1, <2>2 DEF RecordsOwned, RowsOwned
<1> QED  BY <1>1, <1>2, <1>6, <1>7 DEF WriteReportOnce

LEMMA RecordsStep ==
  ASSUME OperatorsStart, StatesFit, QueuesInv, QueuesInv', ReportInv, EndingsReported,
         QueuesFit, QueuesFit', OneRunQueued, RecordsOwned, [Next]_vars
  PROVE  RecordsOwned'
<1> SUFFICES ASSUME timing.operator_waits PROVE RecordsOwned'
  BY DEF RecordsOwned, Next, Obey, Advance, Collect, HalfSecond, vars
<1>1. CASE UNCHANGED vars
  BY <1>1 DEF vars, manager, reporter, RecordsOwned, RowsOwned, ListsTogether
<1>2. ASSUME NEW c \in Inboxes, Collect(c) PROVE RecordsOwned'
  <2>1. CASE c = StateInbox
    <3>1. /\ OnMissionState(Head(queue[StateInbox])) /\ queue[StateInbox] # << >>
          /\ queue' = Taken(StateInbox) /\ UNCHANGED <<manager, timing>>
      BY <1>2, <2>1, Boxes DEF Collect, ReportStep, StateTopics
    <3> QED  BY <3>1, StateJoins
  <2> QED  BY <1>2, <2>1, RecordJoins
<1> QED  BY <1>1, <1>2, RecordsSpoken, RecordsWritten DEF Next

\* Operators who start the missions and wait for their reports find in the
\* tables of a report the records of its missions only, whatever the order in
\* which states, events and commands arrive.
THEOREM RecordsBelong ==
  ASSUME OperatorsStart, StatesFit
  PROVE  Safety => []NoForeignRecords
<1> DEFINE Inv == QueuesInv /\ ReportInv /\ EndingsReported
           Own == QueuesFit /\ OneRunQueued /\ RecordsOwned
<1>1. Init => Own
  BY InitFit, InitRuns, InitRecords
<1>2. Inv /\ Inv' /\ Own /\ [Next]_vars => Own'
  BY FitStep, RunsStep, RecordsStep
<1>3. Safety => []Inv
  BY PatienceRewarded
<1>4. Own => NoForeignRecords
  BY DEF RecordsOwned, RowsOwned, NoForeignRecords, RunsOf, RunsIn
<1> QED  BY <1>1, <1>2, <1>3, <1>4, PTL DEF Safety

-----------------------------------------------------------------------------
(* A report has the events of its missions' starts and ends.                *)

Waits(q, type, r) == \E i \in 1..Len(q) : q[i].event_type = type /\ q[i].run = r

Gathered(records, type, r) ==
  \E e \in records : e[1] = "mission/events" /\ e[2].event_type = type /\ e[2].run = r

HasRow(rows, m, type, r) ==
  \E row \in rows :
    /\ row.report_id = m.report_id /\ row.topic = "mission/events"
    /\ row.record.event_type = type /\ row.record.run = r

\* In calm times the event of a start or an end is behind the state it came with:
\* it waits as long as the state does, and then waits or is in the lists.
Following ==
  \A i \in 1..Len(queue[StateInbox]) : \A type :
    Announces(queue[StateInbox][i], type)
      => Waits(queue[EventInbox], type, queue[StateInbox][i].run)

Listed ==
  \A i \in 1..Len(mission_states) : \A type :
    Announces(mission_states[i], type)
      => \/ Waits(queue[EventInbox], type, mission_states[i].run)
         \/ Gathered(collected, type, mission_states[i].run)

Stored ==
  \A m \in missions : \A i \in 1..Len(m.mission_states) : \A type :
    Announces(m.mission_states[i], type)
      => HasRow(record_rows, m, type, m.mission_states[i].run)

EventsFollow == Calm => Following /\ (report_written = FALSE => Listed) /\ Stored

LEMMA InitFollow == Init => EventsFollow
<1> SUFFICES ASSUME Init PROVE EventsFollow  OBVIOUS
<1> DEFINE created == StateMsg("created", "Mission manager ready", -1, 0)
<1>1. missions = {} /\ mission_states = << >>
  BY DEF Init, ReportInit
<1>2. queue[StateInbox] = << >> \/ queue[StateInbox] = <<created>>
  BY Boxes DEF Init, NoMessages, Observed
<1>3. \A type : ~Announces(created, type)
  BY DEF StateMsg, Announces
<1> HIDE DEF created
<1>4. Following
  BY <1>2, <1>3 DEF Following
<1> QED  BY <1>1, <1>4 DEF EventsFollow, Listed, Stored

\* With room for them, what is said adds to the events and loses none.
LEMMA EventsAfter ==
  ASSUME QueuesInv, NEW states, NEW events, Publishes(states, events),
         Len(queue[EventInbox]) + 2 <= Depth
  PROVE  /\ \A type, r : Waits(queue[EventInbox], type, r) => Waits(queue'[EventInbox], type, r)
         /\ \A type : HasType(events, type) => Waits(queue'[EventInbox], type, run')
<1> DEFINE E == queue[EventInbox]
           F == queue'[EventInbox]
<1>1. Grown(F, E, events) /\ IsList(E) /\ IsList(events) /\ Len(events) \in 0..2
      /\ \A i \in 1..Len(events) : events[i].run = run'
  BY WhatIsReceived, Boxes DEF Receive, QueuesInv, Publishes, Messages
<1> DEFINE x == Len(E)
           y == Len(events)
           z == Len(F)
<1>2. x \in Nat /\ Depth \in Nat
  BY <1>1, LenProperties, DepthAssumption DEF IsList
<1>3. x + 2 <= Depth /\ y \in 0..2
  BY <1>1
<1> HIDE DEF E, F
<1>4. PICK k \in 0..(x + y) :
       /\ z = x + y - k
       /\ \A i \in 1..z : F[i] = IF i + k <= x THEN E[i + k] ELSE events[i + k - x]
       /\ x + y <= Depth => k = 0
  BY <1>1 DEF Grown
<1> HIDE DEF x, y, z
<1>5. k = 0 /\ z = x + y
  <2>1. x + y <= Depth
    BY <1>2, <1>3
  <2> QED  BY <1>2, <1>3, <1>4, <2>1
<1>6. \A i \in 1..x : i \in 1..z /\ F[i] = E[i]
  <2> SUFFICES ASSUME NEW i \in 1..x PROVE i \in 1..z /\ F[i] = E[i]
    OBVIOUS
  <2>1. i \in 1..z /\ i + k <= x /\ i + k = i
    BY <1>2, <1>3, <1>5
  <2> QED  BY <1>4, <2>1
<1>7. \A j \in 1..y : x + j \in 1..z /\ F[x + j] = events[j]
  <2> SUFFICES ASSUME NEW j \in 1..y PROVE x + j \in 1..z /\ F[x + j] = events[j]
    OBVIOUS
  <2>1. x + j \in 1..z /\ ~(x + j + k <= x) /\ x + j + k - x = j
    BY <1>2, <1>3, <1>5
  <2> QED  BY <1>4, <2>1
<1>8. ASSUME NEW type, NEW r, Waits(E, type, r) PROVE Waits(F, type, r)
  <2>1. PICK i \in 1..x : E[i].event_type = type /\ E[i].run = r
    BY <1>8 DEF Waits, x
  <2>2. i \in 1..z /\ F[i].event_type = type /\ F[i].run = r
    BY <1>6, <2>1
  <2> QED  BY <2>2 DEF Waits, z
<1>9. ASSUME NEW type, HasType(events, type) PROVE Waits(F, type, run')
  <2>1. PICK j \in 1..y : events[j].event_type = type /\ events[j].run = run'
    BY <1>1, <1>9 DEF HasType, y
  <2>2. x + j \in 1..z /\ F[x + j].event_type = type /\ F[x + j].run = run'
    BY <1>7, <2>1
  <2> QED  BY <2>2 DEF Waits, z
<1> QED  BY <1>8, <1>9 DEF E, F

LEMMA FollowMoved ==
  ASSUME QueuesInv, EventsFollow, Calm, UNCHANGED <<reporter, timing>>,
         Len(queue[EventInbox]) + 2 <= Depth, SaysNothing \/ \E s : Says(s)
  PROVE  EventsFollow'
<1>0. UNCHANGED <<mission_states, missions, report_written, collected, record_rows>>
  BY DEF reporter
<1>1. CASE queue' = queue
  BY <1>0, <1>1 DEF EventsFollow, Following, Listed, Stored
<1>2. ASSUME NEW states, NEW events, Publishes(states, events),
             \A i \in 1..Len(states) : \A type : Announces(states[i], type) => HasType(events, type)
      PROVE  EventsFollow'
  <2> DEFINE S == queue[StateInbox]
             T == queue'[StateInbox]
             E == queue[EventInbox]
             F == queue'[EventInbox]
  <2>1. /\ \A type, r : Waits(E, type, r) => Waits(F, type, r)
        /\ \A type : HasType(events, type) => Waits(F, type, run')
    BY <1>2, EventsAfter
  <2>2. /\ Grown(T, S, states) /\ IsList(S)
        /\ IsList(states) /\ \A i \in 1..Len(states) : states[i].run = run'
    BY <1>2, WhatIsReceived, Boxes DEF Receive, QueuesInv, Publishes, Messages
  <2>3. \A i \in 1..Len(S) : \A type : Announces(S[i], type) => Waits(E, type, S[i].run)
    BY DEF EventsFollow, Following
  <2> HIDE DEF S, T, E, F
  <2>4. ASSUME NEW i \in 1..Len(T), NEW type, Announces(T[i], type)
        PROVE  Waits(F, type, T[i].run)
    <3>1. \/ \E j \in 1..Len(S) : T[i] = S[j]
          \/ \E j \in 1..Len(states) : T[i] = states[j]
      BY <2>2, GrownFrom
    <3>2. ASSUME NEW j \in 1..Len(S), T[i] = S[j] PROVE Waits(F, type, T[i].run)
      BY <2>1, <2>3, <2>4, <3>2
    <3>3. ASSUME NEW j \in 1..Len(states), T[i] = states[j] PROVE Waits(F, type, T[i].run)
      BY <1>2, <2>1, <2>2, <2>4, <3>3
    <3> QED  BY <3>1, <3>2, <3>3
  <2>5. Following'
    BY <2>4 DEF Following, T, F
  <2>6. Listed => Listed'
    BY <1>0, <2>1 DEF Listed, E, F
  <2>7. Stored'
    BY <1>0 DEF EventsFollow, Stored
  <2> QED  BY <1>0, <2>5, <2>6, <2>7 DEF EventsFollow
<1>3. ASSUME NEW events, Publishes(<< >>, events) PROVE EventsFollow'
  BY <1>2, <1>3
<1>4. ASSUME NEW s, Says(s) PROVE EventsFollow'
  <2>1. PICK events : Publishes(<<s>>, events) /\ \A type : Announces(s, type) => HasType(events, type)
    BY <1>4 DEF Says
  <2>2. \A i \in 1..Len(<<s>>) : <<s>>[i] = s
    OBVIOUS
  <2> QED  BY <1>2, <2>1, <2>2
<1> QED  BY <1>1, <1>3, <1>4 DEF SaysNothing

LEMMA FollowSpoken ==
  ASSUME OperatorsStart, EventsFit, QueuesInv, QueuesInv', ReportInv, QueuesFit, EventsFollow, Calm,
         (\E msg \in MissionCommands : Obey(msg)) \/ Advance
  PROVE  EventsFollow'
<1>0. MissionInv /\ IsList(queue[EventInbox]) /\ timing.operator_waits /\ UNCHANGED <<reporter, timing>>
  BY Boxes DEF QueuesInv, Calm, Obey, Advance
<1> DEFINE e == Len(queue[EventInbox])
           p == StepsTold
           pp == StepsTold'
           N == Len(Steps)
<1>2. e \in Nat /\ p \in 0..N /\ N \in Nat /\ pp \in 0..N /\ e <= 2 * (commands + p)
      /\ Depth \in Nat /\ 2 * (MaxCommands + N) <= Depth /\ MaxCommands \in Nat
      /\ commands \in Nat /\ commands <= MaxCommands
  <2>1. p \in 0..N /\ N \in Nat
    BY <1>0, StepsToldBounded
  <2>2. pp \in 0..N
    <3>1. N \in Nat /\ (MayBegin' \/ current_step_index' \in 0..N)
      BY MissionAssumption DEF QueuesInv, MissionInv, MissionTypeOK, FlowOK, MayBegin
    <3> QED  BY <3>1 DEF StepsTold
  <2>3. e \in Nat
    BY <1>0, LenProperties DEF IsList
  <2>4. e <= 2 * (commands + p) /\ 2 * (MaxCommands + N) <= Depth
    BY <1>0 DEF QueuesFit, EventsFit
  <2>5. MaxCommands \in Nat /\ commands \in Nat /\ commands <= MaxCommands /\ Depth \in Nat
    BY TimingAssumption, DepthAssumption DEF QueuesInv
  <2> QED  BY <2>1, <2>2, <2>3, <2>4, <2>5
<1>3. ASSUME NEW msg \in MissionCommands, Obey(msg) PROVE EventsFollow'
  <2>1. CommandMoves /\ commands < MaxCommands
    BY <1>0, <1>3, CommandsMove DEF Obey
  <2>2. e + 2 <= Depth
    <3> HIDE DEF e, p, pp, N
    <3>1. commands + 1 <= MaxCommands
      BY <1>2, <2>1
    <3> QED  BY <1>2, <3>1
  <2> QED  BY <1>0, <2>1, <2>2, FollowMoved DEF CommandMoves
<1>4. CASE Advance
  <2>1. TickMoves
    BY <1>0, <1>4, TicksMove DEF Advance
  <2>2. p + 1 <= pp
    BY <2>1 DEF TickMoves, OperatorsStart
  <2>3. e + 2 <= Depth
    <3> HIDE DEF e, p, pp, N
    <3> QED  BY <1>2, <2>2
  <2> QED  BY <1>0, <2>1, <2>3, FollowMoved DEF TickMoves
<1> QED  BY <1>3, <1>4

\* A state is collected before the event it came with.
LEMMA FollowState ==
  ASSUME QueuesInv, ReportInv, EventsFollow, Calm, Collect(StateInbox)
  PROVE  EventsFollow'
<1> DEFINE S == queue[StateInbox]
           T == queue'[StateInbox]
           E == queue[EventInbox]
           msg == Head(S)
<1>1. /\ OnMissionState(msg) /\ S # << >>
      /\ queue' = Taken(StateInbox) /\ UNCHANGED <<manager, timing>>
  BY Boxes DEF Collect, ReportStep, StateTopics
<1>2. /\ queue'[EventInbox] = E /\ msg = S[1] /\ Len(S) \in Nat /\ Len(S) > 0
      /\ Len(T) = Len(S) - 1 /\ \A i \in 1..Len(T) : T[i] = S[i + 1]
  BY <1>1, Boxes, Taking
<1>3. \A i \in 1..Len(S) : \A type : Announces(S[i], type) => Waits(E, type, S[i].run)
  BY DEF EventsFollow, Following
<1> HIDE DEF S, T, E, msg
<1>4. 1 \in 1..Len(S) /\ \A i \in 1..Len(T) : i + 1 \in 1..Len(S)
  BY <1>2
<1>5. Following'
  <2>1. \A i \in 1..Len(T) : \A type : Announces(T[i], type) => Waits(E, type, T[i].run)
    BY <1>2, <1>3, <1>4
  <2> QED  BY <1>2, <2>1 DEF Following, T
<1>6. \A type : Announces(msg, type) => Waits(E, type, msg.run)
  BY <1>2, <1>3, <1>4
<1>7. Stored'
  BY <1>1 DEF EventsFollow, Stored, OnMissionState
<1>8. ASSUME OpensRun(msg) PROVE Listed'
  <2>1. mission_states' = <<msg>>
    BY <1>1, <1>8 DEF OnMissionState
  <2>2. \A i \in 1..Len(<<msg>>) : <<msg>>[i] = msg
    OBVIOUS
  <2> QED  BY <1>2, <1>6, <2>1, <2>2 DEF Listed
<1>9. ASSUME ~OpensRun(msg), report_written' = FALSE PROVE Listed'
  <2> DEFINE new == mission_states'
  <2>1. new = Append(mission_states, msg) /\ collected' = collected /\ report_written = FALSE
    BY <1>1, <1>9 DEF OnMissionState
  <2>2. /\ Len(mission_states) \in Nat /\ Len(new) = Len(mission_states) + 1
        /\ \A i \in 1..Len(mission_states) : new[i] = mission_states[i]
        /\ new[Len(mission_states) + 1] = msg
    BY <2>1, ListGrows DEF ReportInv, Types
  <2>3. Listed
    BY <2>1 DEF EventsFollow
  <2> HIDE DEF new
  <2>4. \A i \in 1..Len(new) : i \in 1..Len(mission_states) \/ i = Len(mission_states) + 1
    BY <2>2
  <2>5. \A i \in 1..Len(new) : \A type : Announces(new[i], type)
          => Waits(E, type, new[i].run) \/ Gathered(collected, type, new[i].run)
    BY <1>6, <2>2, <2>3, <2>4 DEF Listed, E
  <2> QED  BY <1>2, <2>1, <2>5 DEF Listed, new
<1> QED  BY <1>5, <1>7, <1>8, <1>9 DEF EventsFollow

\* No record is collected while a state waits.
LEMMA FollowRecord ==
  ASSUME QueuesInv, EventsFollow, Calm, NEW c \in Inboxes, c # StateInbox, Collect(c)
  PROVE  EventsFollow'
<1> DEFINE E == queue[EventInbox]
           F == queue'[EventInbox]
           q == queue[c]
           msg == Head(q)
<1>1. /\ q # << >> /\ queue' = Taken(c) /\ UNCHANGED timing
      /\ OnLatestState(c.topic, msg) \/ OnRecord(c.topic, msg)
      /\ c.topic \notin StateTopics \cup {"mission/state"} => OnRecord(c.topic, msg)
  BY Boxes DEF Collect, ReportStep
<1>2. queue[StateInbox] = << >> /\ queue'[StateInbox] = << >>
  <2>1. queue[StateInbox] = << >>
    BY Boxes DEF Collect, Calm, StateInbox
  <2> QED  BY <1>1, <2>1, Taking, Boxes
<1>3. /\ UNCHANGED <<mission_states, report_written, record_rows, missions>>
      /\ collected \subseteq collected'
  BY <1>1 DEF OnLatestState, OnRecord
<1>4. Following' /\ Stored'
  BY <1>2, <1>3 DEF EventsFollow, Following, Stored
<1>5. \A type, r : Waits(E, type, r) => Waits(F, type, r) \/ Gathered(collected', type, r)
  <2>1. CASE c # EventInbox
    <3>1. F = E
      BY <1>1, <2>1, Taking, Boxes
    <3> QED  BY <3>1
  <2>2. CASE c = EventInbox
    <3>1. /\ msg = E[1] /\ Len(E) \in Nat /\ Len(F) = Len(E) - 1
          /\ \A i \in 1..Len(F) : F[i] = E[i + 1]
      BY <1>1, <2>2, Taking, Boxes
    <3>2. <<"mission/events", msg>> \in collected'
      <4>1. OnRecord("mission/events", msg)
        BY <1>1, <2>2, Boxes DEF StateTopics
      <4> QED  BY <4>1 DEF OnRecord
    <3> HIDE DEF E, F, msg
    <3>3. ASSUME NEW type, NEW r, Waits(E, type, r) PROVE Waits(F, type, r) \/ Gathered(collected', type, r)
      <4>1. PICK i \in 1..Len(E) : E[i].event_type = type /\ E[i].run = r
        BY <3>3 DEF Waits
      <4>2. CASE i = 1
        BY <3>1, <3>2, <4>1, <4>2 DEF Gathered
      <4>3. CASE i # 1
        <5>1. i - 1 \in 1..Len(F) /\ i - 1 + 1 = i
          BY <3>1, <4>3
        <5>2. F[i - 1] = E[i]
          BY <3>1, <5>1
        <5> QED  BY <4>1, <5>1, <5>2 DEF Waits
      <4> QED  BY <4>2, <4>3
    <3> QED  BY <3>3
  <2> QED  BY <2>1, <2>2
<1>6. \A type, r : Gathered(collected, type, r) => Gathered(collected', type, r)
  BY <1>3 DEF Gathered
<1> HIDE DEF E, F
<1>7. Listed => Listed'
  BY <1>3, <1>5, <1>6 DEF Listed, E, F
<1> QED  BY <1>3, <1>4, <1>7 DEF EventsFollow

\* When the report is written, no event waits.
LEMMA FollowWritten ==
  ASSUME ReportInv, EventsFollow, Calm, HalfSecond
  PROVE  EventsFollow'
<1>1. /\ WriteReportOnce /\ UNCHANGED <<manager, timing, queue, mission_states, collected>>
      /\ report_timer /\ Delivered
  BY DEF HalfSecond, WriteReportOnce, Calm
<1>2. report_written = FALSE /\ Listed
  BY <1>1 DEF ReportInv, Types, ArmedTimerHasReport, EventsFollow
<1>3. queue[EventInbox] = << >>
  BY <1>1, Boxes DEF Delivered
<1>4. \A i \in 1..Len(mission_states) : \A type :
        Announces(mission_states[i], type) => Gathered(collected, type, mission_states[i].run)
  <2>1. \A type, r : ~Waits(<< >>, type, r)
    BY DEF Waits
  <2> QED  BY <1>2, <1>3, <2>1 DEF Listed
<1>5. Following'
  BY <1>1 DEF EventsFollow, Following
<1>6. CASE WriteReport
  <2>1. /\ record_rows' = record_rows \cup Rows(CurrentReport)
        /\ \A m \in missions' : m \in missions \/ m = CurrentReport
        /\ report_written' = TRUE
    BY <1>6 DEF WriteReport, PersistReport
  <2>2. CurrentReport.mission_states = mission_states /\ CurrentReport.records = collected
    BY DEF CurrentReport
  <2>3. \A m, type, r : HasRow(record_rows, m, type, r) => HasRow(record_rows', m, type, r)
    BY <2>1 DEF HasRow
  <2>4. \A type, r : Gathered(collected, type, r) => HasRow(record_rows', CurrentReport, type, r)
    <3> SUFFICES ASSUME NEW type, NEW r, Gathered(collected, type, r)
                 PROVE  HasRow(record_rows', CurrentReport, type, r)
      OBVIOUS
    <3>1. PICK e \in collected : e[1] = "mission/events" /\ e[2].event_type = type /\ e[2].run = r
      BY DEF Gathered
    <3> DEFINE row == [report_id |-> CurrentReport.report_id, topic |-> e[1], record |-> e[2]]
    <3>2. row \in record_rows'
      BY <2>1, <2>2 DEF Rows
    <3>3. /\ row.report_id = CurrentReport.report_id /\ row.topic = "mission/events"
          /\ row.record.event_type = type /\ row.record.run = r
      BY <3>1
    <3> HIDE DEF row
    <3> QED  BY <3>2, <3>3 DEF HasRow
  <2>5. Stored'
    BY <1>4, <2>1, <2>2, <2>3, <2>4 DEF EventsFollow, Stored
  <2> QED  BY <1>5, <2>1, <2>5 DEF EventsFollow
<1>7. CASE WriteReportFails
  <2>1. UNCHANGED <<record_rows, missions, report_written>>
    BY <1>7 DEF WriteReportFails
  <2> QED  BY <1>1, <1>5, <2>1 DEF EventsFollow, Listed, Stored
<1> QED  BY <1>1, <1>2, <1>6, <1>7 DEF WriteReportOnce

LEMMA FollowStep ==
  ASSUME OperatorsStart, EventsFit, QueuesInv, QueuesInv', ReportInv, QueuesFit, EventsFollow, [Next]_vars
  PROVE  EventsFollow'
<1>1. timing' = timing
  BY DEF Next, Obey, Advance, Collect, HalfSecond, vars
<1>2. SUFFICES ASSUME Calm PROVE EventsFollow'
  BY <1>1 DEF EventsFollow, Calm
<1>3. CASE UNCHANGED vars
  BY <1>2, <1>3 DEF vars, reporter, EventsFollow, Following, Listed, Stored
<1>4. ASSUME NEW c \in Inboxes, Collect(c) PROVE EventsFollow'
  BY <1>2, <1>4, FollowState, FollowRecord
<1> QED  BY <1>2, <1>3, <1>4, FollowSpoken, FollowWritten DEF Next

\* When nothing overtakes anything and no event is lost for want of room, a
\* report that tells of a start and an end has their events in the tables.
THEOREM EventsRecorded ==
  ASSUME OperatorsStart, EventsFit
  PROVE  Safety => []RecordsComplete
<1> DEFINE Inv == QueuesInv /\ ReportInv /\ EndingsReported
           Follow == QueuesFit /\ EventsFollow
<1>1. Init => Follow
  BY InitFit, InitFollow
<1>2. Inv /\ Inv' /\ Follow /\ [Next]_vars => Follow'
  BY FitStep, FollowStep
<1>3. Safety => []Inv
  BY PatienceRewarded
<1>4. Follow => RecordsComplete
  <2> SUFFICES ASSUME EventsFollow, Calm, NEW m \in missions,
                      NEW i \in 1..Len(m.mission_states), NEW j \in 1..Len(m.mission_states),
                      m.mission_states[i].message = "Mission started",
                      m.mission_states[j].state = "completed",
                      m.mission_states[i].run = m.mission_states[j].run
               PROVE  /\ HasEvent(m, "mission_started", m.mission_states[i].run)
                      /\ HasEvent(m, "mission_completed", m.mission_states[i].run)
    BY DEF RecordsComplete
  <2>1. /\ Announces(m.mission_states[i], "mission_started")
        /\ Announces(m.mission_states[j], "mission_completed")
    BY DEF Announces
  <2>2. /\ HasRow(record_rows, m, "mission_started", m.mission_states[i].run)
        /\ HasRow(record_rows, m, "mission_completed", m.mission_states[j].run)
    BY <2>1 DEF EventsFollow, Stored
  <2> QED  BY <2>2 DEF HasEvent, HasRow
<1> QED  BY <1>1, <1>2, <1>3, <1>4, PTL DEF Safety
=============================================================================
