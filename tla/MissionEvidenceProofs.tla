------------------------- MODULE MissionEvidenceProofs -------------------------
(* Whatever a mission scans is evidence of its own report, and of no other:  *)
(* for all missions that do not scan before they have stood, and whatever    *)
(* commands, queues, failures and clocks do.  And whatever a mission asks to *)
(* scan is evidence of its report, where queues have room.                   *)
EXTENDS MissionEvidence, MissionReportsProofs

-----------------------------------------------------------------------------
(* Queues on the payload path.                                              *)

PerceptionInbox == Inbox("perception/events")
ResultInbox == Inbox("payload/result")
CameraStateInbox == Inbox("payload/state")

LEMMA PathBoxes ==
  /\ {PayloadInbox, CameraInbox, PerceptionInbox, ResultInbox, CameraStateInbox} \subseteq Channels
  /\ {PerceptionInbox, ResultInbox, CameraStateInbox} \subseteq Inboxes
  /\ PayloadInbox \notin Inboxes /\ CameraInbox \notin Inboxes /\ PayloadInbox # CameraInbox
  /\ PayloadInbox.topic = "payload/command_request" /\ CameraInbox.topic = "payload/command"
  /\ PerceptionInbox.topic = "perception/events" /\ ResultInbox.topic = "payload/result"
  /\ CameraStateInbox.topic = "payload/state"
  /\ \A c \in Inboxes : /\ c.topic = "perception/events" => c = PerceptionInbox
                        /\ c.topic = "payload/result" => c = ResultInbox
                        /\ c.topic = "payload/state" => c = CameraStateInbox
<1>1. /\ PayloadInbox.node = "payload_manager" /\ CameraInbox.node = "mock_inspection_camera"
      /\ PayloadInbox.topic = "payload/command_request" /\ CameraInbox.topic = "payload/command"
  BY DEF PayloadInbox, CameraInbox, Channel
<1>2. \A t : Inbox(t).node = "report_manager" /\ Inbox(t).topic = t
  BY DEF Inbox, Channel
<1>3. {PayloadInbox, CameraInbox, PerceptionInbox, ResultInbox, CameraStateInbox} \subseteq Channels
  BY EvidenceAssumption DEF PerceptionInbox, ResultInbox, CameraStateInbox
<1>4. \A c \in Inboxes : c.node = "report_manager" /\ c = Inbox(c.topic)
  BY ReportAssumption DEF Inboxes
<1> QED  BY <1>1, <1>2, <1>3, <1>4 DEF Inboxes, PerceptionInbox, ResultInbox, CameraStateInbox

\* What waits on a channel once something was published: what waited, and what
\* was published on its topic; and all of it where nothing is lost.
LEMMA Arrives ==
  ASSUME NEW q, NEW out, queue' = Deliver(q, out), NEW c \in Channels, IsList(q[c]),
         c.topic \in DOMAIN out, IsList(out[c.topic])
  PROVE  /\ IsList(queue'[c])
         /\ ElementsOf(queue'[c]) \subseteq ElementsOf(q[c]) \cup ElementsOf(out[c.topic])
         /\ Grown(queue'[c], q[c], out[c.topic])
<1>1. queue'[c] = KeepLast(q[c] \o out[c.topic])
  BY DEF Deliver
<1>2. Grown(queue'[c], q[c], out[c.topic])
  BY <1>1, QueueGrows
<1>3. \A i \in 1..Len(queue'[c]) :
        \/ \E j \in 1..Len(q[c]) : queue'[c][i] = q[c][j]
        \/ \E j \in 1..Len(out[c.topic]) : queue'[c][i] = out[c.topic][j]
  BY <1>2, GrownFrom
<1> DEFINE old == q[c]
           new == out[c.topic]
           after == queue'[c]
<1>4. IsList(after) /\ Grown(after, old, new)
  BY <1>2 DEF Grown
<1>5. \A i \in 1..Len(after) : after[i] \in ElementsOf(old) \cup ElementsOf(new)
  BY <1>3 DEF ElementsOf
<1> HIDE DEF old, new, after
<1>6. ElementsOf(after) \subseteq ElementsOf(old) \cup ElementsOf(new)
  BY <1>5 DEF ElementsOf
<1> QED  BY <1>4, <1>6 DEF old, new, after

\* A channel of another topic is as it was.
LEMMA Untouched ==
  ASSUME NEW q, NEW out, queue' = Deliver(q, out)
  PROVE  /\ queue' = [c \in Channels |-> queue'[c]]
         /\ \A c \in Channels : c.topic \notin DOMAIN out => queue'[c] = q[c]
BY DEF Deliver

\* The queues without the oldest message of one of them.
LEMMA WithoutOldest ==
  ASSUME queue = [c \in Channels |-> queue[c]], NEW c \in Channels,
         IsList(queue[c]), queue[c] # << >>, NEW q, q = Taken(c)
  PROVE  /\ q = [d \in Channels |-> q[d]]
         /\ \A d \in Channels : d # c => q[d] = queue[d]
         /\ IsList(q[c])
         /\ ElementsOf(queue[c]) = ElementsOf(q[c]) \cup {Head(queue[c])}
         /\ Len(queue[c]) \in Nat /\ Len(q[c]) = Len(queue[c]) - 1
<1>1. q = [d \in Channels |-> IF d = c THEN Tail(queue[c]) ELSE queue[d]]
  BY DEF Taken
<1> DEFINE s == queue[c]
           r == q[c]
           M == ElementsOf(s)
<1>2. s \in Seq(M) /\ s # << >> /\ r = Tail(s)
  BY <1>1 DEF IsList
<1> HIDE DEF s, r, M
<1>3. /\ Head(s) = s[1] /\ r \in Seq(M) /\ Len(r) = Len(s) - 1
      /\ \A i \in 1..Len(r) : r[i] = s[i + 1]
      /\ Len(s) \in Nat /\ Len(s) > 0
  BY <1>2, HeadTailProperties, EmptySeq, LenProperties
<1>4. IsList(r)
  BY <1>3, SeqOfItself DEF IsList
<1>5. ElementsOf(s) = ElementsOf(r) \cup {Head(s)}
  <2> DEFINE n == Len(s)
             k == Len(r)
  <2>1. n \in Nat /\ n > 0 /\ k = n - 1
    BY <1>3
  <2>2. \A i \in 1..n : s[i] \in ElementsOf(r) \cup {Head(s)}
    <3> SUFFICES ASSUME NEW i \in 1..n, i # 1 PROVE s[i] \in ElementsOf(r)
      BY <1>3
    <3>1. i - 1 \in 1..k /\ (i - 1) + 1 = i
      BY <2>1
    <3>2. r[i - 1] = s[i]
      BY <1>3, <3>1
    <3> QED  BY <3>1, <3>2 DEF ElementsOf
  <2>3. \A i \in 1..k : i + 1 \in 1..n
    BY <2>1
  <2>4. 1 \in 1..n
    BY <2>1
  <2> QED  BY <1>3, <2>2, <2>3, <2>4 DEF ElementsOf
<1> QED  BY <1>1, <1>3, <1>4, <1>5 DEF s, r

LEMMA Single == \A e : IsList(<<e>>) /\ ElementsOf(<<e>>) = {e} /\ Len(<<e>>) = 1
<1> SUFFICES ASSUME NEW e PROVE IsList(<<e>>) /\ ElementsOf(<<e>>) = {e} /\ Len(<<e>>) = 1
  OBVIOUS
<1>1. Len(<<e>>) = 1 /\ <<e>>[1] = e
  OBVIOUS
<1> QED  BY <1>1, ListOfOne DEF ElementsOf

LEMMA Empty == IsList(<< >>) /\ ElementsOf(<< >>) = {} /\ Len(<< >>) = 0
<1>1. Len(<< >>) = 0
  OBVIOUS
<1> QED  BY <1>1, NoMessage DEF ElementsOf, Messages

-----------------------------------------------------------------------------
(* What the mission manager asks of the payloads.                           *)

Requests(e) == e.event_type = "payload_command_requested"

\* A payload command comes with the event that says so, and both with the
\* payload step that the mission is at.
Asks(events, payload) ==
  \/ payload = << >> /\ \A e \in ElementsOf(events) : ~Requests(e)
  \/ /\ ~MayBegin' /\ HasStep(current_step_index')
     /\ StepAt(current_step_index').target = "payload"
     /\ \E op : payload = <<PayloadCommand(current_step_index', op, run')>>
     /\ \A e \in ElementsOf(events) : Requests(e) => e.run = run'

\* The queues after a step of the manager.
Asked ==
  \/ queue' = queue
  \/ \E states, events, robot, payload :
       /\ queue' = Deliver(queue, Outbox(states, events, robot, payload))
       /\ IsList(events)
       /\ Asks(events, payload)

LEMMA TwoElements ==
  ASSUME NEW e, NEW f
  PROVE  IsList(<<e>> \o <<f>>) /\ ElementsOf(<<e>> \o <<f>>) = {e, f}
<1> DEFINE t == <<e>> \o <<f>>
<1>1. /\ <<e>> \in Seq({e, f}) /\ <<f>> \in Seq({e, f})
      /\ Len(<<e>>) = 1 /\ Len(<<f>>) = 1 /\ <<e>>[1] = e /\ <<f>>[1] = f
  OBVIOUS
<1>2. /\ t \in Seq({e, f}) /\ Len(t) = 1 + 1
      /\ \A i \in 1..(1 + 1) : t[i] = IF i <= 1 THEN <<e>>[i] ELSE <<f>>[i - 1]
  BY <1>1, ConcatProperties
<1> HIDE DEF t
<1>3. Len(t) = 2 /\ t[1] = e /\ t[2] = f
  BY <1>1, <1>2
<1>4. IsList(t)
  BY <1>2, SeqOfItself DEF IsList
<1>5. ElementsOf(t) = {e, f}
  BY <1>3 DEF ElementsOf
<1> QED  BY <1>4, <1>5 DEF t

\* A handler that announces a step asks what the step says.
LEMMA StepAsks ==
  ASSUME NEW state, NEW event, event # "payload_command_requested", NEW op,
         HasStep(current_step_index'), ~MayBegin',
         queue' = Deliver(queue, StepOutbox(state, event, current_step_index', op, run'))
  PROVE  Asked
<1> DEFINE i == current_step_index'
           said == EventMsg(event, op, run')
           events == <<said>> \o StepEvents(i, op, run')
           payload == StepPayload(i, op, run')
<1>1. queue' = Deliver(queue, Outbox(<<state>>, events, StepRobot(i, op, run'), payload))
  BY DEF StepOutbox
<1>2. ~Requests(said) /\ said.run = run'
  BY DEF EventMsg, Requests
<1> HIDE DEF said
<1>3. CASE StepAt(i).target = "payload"
  <2> DEFINE asked == EventMsg("payload_command_requested", op, run')
  <2>1. StepEvents(i, op, run') = <<asked>> /\ payload = <<PayloadCommand(i, op, run')>>
    BY <1>3 DEF StepEvents, StepPayload
  <2>2. asked.run = run'
    BY DEF EventMsg
  <2> HIDE DEF asked
  <2>3. IsList(events) /\ ElementsOf(events) = {said, asked}
    BY <2>1, TwoElements
  <2> HIDE DEF events, payload
  <2>4. Asks(events, payload)
    BY <1>2, <1>3, <2>1, <2>2, <2>3 DEF Asks
  <2> QED  BY <1>1, <2>3, <2>4 DEF Asked
<1>4. CASE StepAt(i).target # "payload"
  <2>1. payload = << >>
    BY <1>4 DEF StepPayload
  <2>2. IsList(events) /\ \A e \in ElementsOf(events) : ~Requests(e)
    <3>1. CASE StepAt(i).target = "robot"
      <4> DEFINE asked == EventMsg("robot_command_requested", op, run')
      <4>1. StepEvents(i, op, run') = <<asked>> /\ ~Requests(asked)
        BY <3>1 DEF StepEvents, EventMsg, Requests
      <4> HIDE DEF asked
      <4>2. IsList(events) /\ ElementsOf(events) = {said, asked}
        BY <4>1, TwoElements
      <4> QED  BY <1>2, <4>1, <4>2
    <3>2. CASE StepAt(i).target # "robot"
      <4>1. StepEvents(i, op, run') = << >>
        BY <1>4, <3>2 DEF StepEvents
      <4>2. events = <<said>>
        BY <4>1
      <4> QED  BY <1>2, <4>2, Single
    <3> QED  BY <3>1, <3>2
  <2> HIDE DEF events, payload
  <2>3. Asks(events, payload)
    BY <2>1, <2>2 DEF Asks
  <2> QED  BY <1>1, <2>2, <2>3 DEF Asked
<1> QED  BY <1>3, <1>4

\* A handler that announces no step asks nothing.
LEMMA PlainAsks ==
  ASSUME NEW states, NEW type, type # "payload_command_requested", NEW op, NEW r, NEW robot,
         queue' = Deliver(queue, Outbox(states, <<EventMsg(type, op, r)>>, robot, << >>))
  PROVE  Asked
<1> DEFINE said == EventMsg(type, op, r)
<1>1. ~Requests(said)
  BY DEF EventMsg, Requests
<1>2. IsList(<<said>>) /\ ElementsOf(<<said>>) = {said}
  BY Single
<1>3. queue' = Deliver(queue, Outbox(states, <<said>>, robot, << >>))
  OBVIOUS
<1> HIDE DEF said
<1>4. Asks(<<said>>, << >>)
  BY <1>1, <1>2 DEF Asks
<1> QED  BY <1>2, <1>3, <1>4 DEF Asked

LEMMA FirstStep == HasStep(0)
BY MissionAssumption DEF HasStep

LEMMA BeginAsks == ASSUME NEW op, BeginMission(op, queue) PROVE Asked
<1>1. current_step_index' = 0 /\ ~MayBegin'
  BY BeginEffect DEF MayBegin, Stopped
<1>2. queue' = Deliver(queue, StepOutbox(StateMsg("running", "Mission started", 0, run'),
                                         "mission_started", 0, op, run'))
  BY DEF BeginMission
<1> QED  BY <1>1, <1>2, FirstStep, StepAsks

LEMMA ResumeAsks == ASSUME MissionInv, NEW op, ResumeMission(op, queue) PROVE Asked
<1> DEFINE i == current_step_index
<1>1. /\ current_step_index' = i /\ run' = run
      /\ mission_started /\ ~mission_complete /\ HasStep(i)
  BY ResumeEffect DEF MissionInv, FlowOK, Stopped
<1>2. ~MayBegin'
  BY <1>1, ResumeEffect DEF MayBegin, Stopped, MissionInv, FlowOK
<1>3. queue' = Deliver(queue, StepOutbox(StateMsg("running", "Mission resumed", i, run),
                                         "mission_resumed", i, op, run))
  BY <1>1 DEF ResumeMission
<1> QED  BY <1>1, <1>2, <1>3, StepAsks

LEMMA CommandAsks ==
  ASSUME MissionInv, NEW msg \in MissionCommands, HandleMissionCommand(msg, queue)
  PROVE  Asked
<1> DEFINE op == msg.operator_id
<1>1. CASE NoEffect(queue)
  BY <1>1 DEF NoEffect, Asked
<1>2. CASE BeginMission(op, queue) \/ ResumeMission(op, queue)
  BY <1>2, BeginAsks, ResumeAsks
<1>3. CASE IgnoreStart(op, queue)
  BY <1>3, PlainAsks DEF IgnoreStart
<1>4. CASE RejectCommand(op, queue)
  BY <1>4, PlainAsks DEF RejectCommand
<1>5. CASE PauseMission(op, queue)
  BY <1>5, PlainAsks DEF PauseMission
<1>6. CASE CancelMission(op, queue)
  BY <1>6, PlainAsks DEF CancelMission, CancelOutbox
<1>7. CASE ResetMission(op, queue)
  <2> DEFINE robot == IF mission_started /\ ~Stopped THEN <<StopCommand(op, run)>> ELSE << >>
             states == <<StateMsg("ready", "Mission reset", -1, run)>>
  <2>1. queue' = Deliver(queue, Outbox(states, <<EventMsg("mission_reset", op, run)>>, robot, << >>))
    BY <1>7 DEF ResetMission, ResetOutbox
  <2> HIDE DEF robot, states
  <2> QED  BY <2>1, PlainAsks
<1> QED  BY <1>1, <1>2, <1>3, <1>4, <1>5, <1>6, <1>7 DEF HandleMissionCommand

LEMMA TickAsks == ASSUME MissionInv, Tick(queue) PROVE Asked
<1>1. CASE AutoStartMission(queue)
  BY <1>1, BeginAsks DEF AutoStartMission
<1>2. CASE NextStep(queue) /\ AdvanceStep(queue)
  <2>1. mission_started /\ ~Stopped
    BY <1>2 DEF Tick, AdvanceStep
  <2>2. current_step_index' = current_step_index + 1 /\ run' = run /\ FlagsKept
    BY <1>2, NextStepEffect
  <2>3. HasStep(current_step_index')
    <3>1. current_step_index \in 0..(Len(Steps) - 1) /\ current_step_index + 1 < Len(Steps)
      BY <1>2, <2>1, NextStepEffect DEF MissionInv, FlowOK, HasStep, Stopped
    <3> QED  BY <2>2, <3>1, MissionAssumption DEF HasStep
  <2>4. ~MayBegin'
    BY <2>1, <2>2 DEF MayBegin, Stopped, FlagsKept
  <2>5. queue' = Deliver(queue, StepOutbox(StateMsg("running", "Running step", current_step_index', run),
                                           "step_started", current_step_index', current_operator_id, run))
    BY <1>2, <2>2 DEF NextStep
  <2> QED  BY <2>2, <2>3, <2>4, <2>5, StepAsks
<1>3. CASE CompleteMission(queue)
  BY <1>3, PlainAsks DEF CompleteMission
<1> QED  BY <1>1, <1>2, <1>3 DEF Tick, AdvanceStep

-----------------------------------------------------------------------------
(* What the payload's nodes do to the queues.                               *)

IsPayload(msg) ==
  \E p, k, d, op, r :
    msg = [payload_type |-> p, command_type |-> k, duration_sec |-> d, operator_id |-> op, run |-> r]

IsScan(msg) == msg.payload_type = CameraType /\ msg.command_type = "scan"

\* Payload commands on their way to the camera.
Commanded == ElementsOf(queue[PayloadInbox]) \cup ElementsOf(queue[CameraInbox])

PathsInv ==
  /\ IsList(queue[PayloadInbox]) /\ IsList(queue[CameraInbox])
  /\ \A e \in Commanded : IsPayload(e)

\* Mission manager and report manager go by what they do not see.
Passes ==
  /\ UNCHANGED <<manager, now, reporter, timing>>
  /\ commands' \in 0..MaxCommands
  /\ queue' = [c \in Channels |-> queue'[c]]
  /\ \A c \in Inboxes : IsList(queue'[c])
  /\ queue'[StateInbox] = queue[StateInbox] /\ queue'[EventInbox] = queue[EventInbox]

LEMMA PassesDelivered ==
  ASSUME QueuesInv, UNCHANGED <<manager, now, reporter, timing>>, commands' \in 0..MaxCommands,
         NEW q, \A c \in Inboxes : q[c] = queue[c],
         NEW out, queue' = Deliver(q, out), \A t \in DOMAIN out : IsList(out[t]),
         "mission/state" \notin DOMAIN out, "mission/events" \notin DOMAIN out
  PROVE  Passes
<1>1. \A c \in Inboxes : IsList(q[c]) /\ c \in Channels
  BY Boxes DEF QueuesInv
<1>2. \A c \in Inboxes : IsList(queue'[c])
  BY <1>1, Arrives, Untouched
<1>3. queue'[StateInbox] = queue[StateInbox] /\ queue'[EventInbox] = queue[EventInbox]
  BY <1>1, Untouched, Boxes
<1> QED  BY <1>2, <1>3, Untouched DEF Passes

\* A payload command from elsewhere waits with the others.
LEMMA DirectEffect ==
  ASSUME QueuesInv, PathsInv, NEW msg, DirectPayload(msg)
  PROVE  /\ Passes /\ commands' = commands + 1
         /\ IsList(queue'[PayloadInbox]) /\ queue'[CameraInbox] = queue[CameraInbox]
         /\ Grown(queue'[PayloadInbox], queue[PayloadInbox], <<msg>>)
         /\ ElementsOf(queue'[PayloadInbox]) \subseteq ElementsOf(queue[PayloadInbox]) \cup {msg}
         /\ \A c \in Inboxes : c.topic # "payload/command_request" => queue'[c] = queue[c]
         /\ artifact_files' = artifact_files
<1> DEFINE out == [t \in {"payload/command_request"} |-> <<msg>>]
<1>1. queue' = Deliver(queue, out) /\ UNCHANGED <<manager, now, reporter, timing, artifact_files>>
  BY DEF DirectPayload
<1>2. DOMAIN out = {"payload/command_request"} /\ out["payload/command_request"] = <<msg>>
  OBVIOUS
<1>3. commands' \in 0..MaxCommands /\ commands' = commands + 1
  BY TimingAssumption DEF DirectPayload, QueuesInv
<1> HIDE DEF out
<1>4. \A t \in DOMAIN out : IsList(out[t])
  BY <1>2, Single
<1>5. Passes
  BY <1>1, <1>2, <1>3, <1>4, PassesDelivered
<1>6. queue'[CameraInbox] = queue[CameraInbox]
  BY <1>1, <1>2, Untouched, PathBoxes
<1>7. /\ IsList(queue'[PayloadInbox])
      /\ Grown(queue'[PayloadInbox], queue[PayloadInbox], <<msg>>)
      /\ ElementsOf(queue'[PayloadInbox]) \subseteq ElementsOf(queue[PayloadInbox]) \cup {msg}
  BY <1>1, <1>2, Single, Arrives, PathBoxes DEF PathsInv
<1>8. \A c \in Inboxes : c.topic # "payload/command_request" => queue'[c] = queue[c]
  BY <1>1, <1>2, Untouched, Boxes
<1> QED  BY <1>1, <1>3, <1>5, <1>6, <1>7, <1>8

Shortened(msg) == [msg EXCEPT !.duration_sec = MaxDuration]

LEMMA ShortenedPayload ==
  ASSUME NEW msg, IsPayload(msg)
  PROVE  /\ IsPayload(Shortened(msg)) /\ Shortened(msg).run = msg.run
         /\ IsScan(Shortened(msg)) <=> IsScan(msg)
<1>1. PICK p, k, d, op, r :
        msg = [payload_type |-> p, command_type |-> k, duration_sec |-> d, operator_id |-> op, run |-> r]
  BY DEF IsPayload
<1>2. Shortened(msg) = [payload_type |-> p, command_type |-> k, duration_sec |-> MaxDuration,
                        operator_id |-> op, run |-> r]
  BY <1>1 DEF Shortened
<1>3. IsPayload(Shortened(msg))
  BY <1>2 DEF IsPayload
<1> DEFINE short == Shortened(msg)
<1>4. /\ short.payload_type = msg.payload_type /\ short.command_type = msg.command_type
      /\ short.run = msg.run
  BY <1>1, <1>2
<1> HIDE DEF short
<1>5. (IsScan(short) <=> IsScan(msg)) /\ short.run = msg.run
  BY <1>4 DEF IsScan
<1> QED  BY <1>3, <1>5 DEF short

Allowed(msg) == msg.payload_type \in AllowedPayloadTypes /\ msg.command_type \in AllowedPayloadCommands

\* A payload command that is allowed goes on to the camera, shortened or not,
\* others are dropped.
LEMMA ForwardEffect ==
  ASSUME QueuesInv, PathsInv, Forward
  PROVE  /\ Passes /\ UNCHANGED <<commands, artifact_files, camera>>
         /\ IsList(queue'[PayloadInbox])
         /\ Len(queue[PayloadInbox]) \in Nat /\ Len(queue'[PayloadInbox]) = Len(queue[PayloadInbox]) - 1
         /\ \A c \in Inboxes : c.topic \notin {"payload/command", "safety/events"} => queue'[c] = queue[c]
         /\ \E msg, sent :
              /\ ElementsOf(queue[PayloadInbox]) = ElementsOf(queue'[PayloadInbox]) \cup {msg}
              /\ IsList(sent) /\ Grown(queue'[CameraInbox], queue[CameraInbox], sent)
              /\ ElementsOf(queue'[CameraInbox]) \subseteq ElementsOf(queue[CameraInbox]) \cup ElementsOf(sent)
              /\ \/ ~Allowed(msg) /\ sent = << >>
                 \/ Allowed(msg) /\ (sent = <<msg>> \/ sent = <<Shortened(msg)>>)
<1> DEFINE msg == Head(queue[PayloadInbox])
           q == Taken(PayloadInbox)
<1>0. /\ queue[PayloadInbox] # << >>
      /\ BlockPayloadType(msg, q) \/ BlockPayloadCommand(msg, q) \/ ForwardPayload(msg, q)
      /\ UNCHANGED <<manager, now, reporter, artifact_files, timing, commands, camera>>
  BY DEF Forward, PayloadStep
<1>1. /\ q = [d \in Channels |-> q[d]]
      /\ \A d \in Channels : d # PayloadInbox => q[d] = queue[d]
      /\ IsList(q[PayloadInbox])
      /\ ElementsOf(queue[PayloadInbox]) = ElementsOf(q[PayloadInbox]) \cup {msg}
      /\ Len(queue[PayloadInbox]) \in Nat /\ Len(q[PayloadInbox]) = Len(queue[PayloadInbox]) - 1
  BY <1>0, WithoutOldest, PathBoxes DEF QueuesInv, PathsInv
<1> HIDE DEF msg, q
<1>2. PICK sent, events :
        /\ queue' = Deliver(q, PayloadOutbox(sent, events))
        /\ IsList(sent) /\ IsList(events)
        /\ \/ ~Allowed(msg) /\ sent = << >>
           \/ Allowed(msg) /\ (sent = <<msg>> \/ sent = <<Shortened(msg)>>)
  BY <1>0, Single, Empty DEF BlockPayloadType, BlockPayloadCommand, ForwardPayload, Allowed, Shortened
<1> DEFINE out == PayloadOutbox(sent, events)
<1>3. /\ DOMAIN out = {"payload/command", "safety/events"}
      /\ out["payload/command"] = sent /\ out["safety/events"] = events
  BY DEF PayloadOutbox
<1>4. queue' = Deliver(q, out)
  BY <1>2
<1> HIDE DEF out
<1>5. \A c \in Inboxes : q[c] = queue[c]
  BY <1>1, Boxes, PathBoxes
<1>6. Passes
  <2>1. commands' \in 0..MaxCommands
    BY <1>0 DEF QueuesInv
  <2> QED  BY <1>0, <1>2, <1>3, <1>4, <1>5, <2>1, PassesDelivered
<1>7. queue'[PayloadInbox] = q[PayloadInbox]
  BY <1>3, <1>4, Untouched, PathBoxes
<1>8. /\ Grown(queue'[CameraInbox], queue[CameraInbox], sent)
      /\ ElementsOf(queue'[CameraInbox]) \subseteq ElementsOf(queue[CameraInbox]) \cup ElementsOf(sent)
  <2>1. q[CameraInbox] = queue[CameraInbox]
    BY <1>1, PathBoxes
  <2> QED  BY <1>2, <1>3, <1>4, <2>1, Arrives, PathBoxes DEF PathsInv
<1>9. \A c \in Inboxes : c.topic \notin {"payload/command", "safety/events"} => queue'[c] = queue[c]
  BY <1>3, <1>4, <1>5, Untouched, Boxes
<1> QED  BY <1>0, <1>1, <1>2, <1>6, <1>7, <1>8, <1>9

Photographs(results, events, on, state) ==
  /\ Grown(queue'[PerceptionInbox], queue[PerceptionInbox], events)
  /\ ElementsOf(queue'[PerceptionInbox])
       \subseteq ElementsOf(queue[PerceptionInbox]) \cup ElementsOf(events)
  /\ Grown(queue'[ResultInbox], queue[ResultInbox], results)
  /\ ElementsOf(queue'[ResultInbox])
       \subseteq ElementsOf(queue[ResultInbox]) \cup ElementsOf(results)
  /\ Grown(queue'[CameraStateInbox], queue[CameraStateInbox], <<PayloadState(on, state)>>)
  /\ ElementsOf(queue'[CameraStateInbox])
       \subseteq ElementsOf(queue[CameraStateInbox]) \cup {PayloadState(on, state)}

LEMMA CameraDelivers ==
  ASSUME QueuesInv, UNCHANGED <<manager, now, reporter, timing, commands>>,
         NEW q, \A c \in Inboxes : q[c] = queue[c],
         NEW results, NEW events, IsList(results), IsList(events), NEW on, NEW state,
         queue' = Deliver(q, CameraOutbox(results, events, on, state))
  PROVE  /\ Passes /\ Photographs(results, events, on, state)
         /\ queue'[PayloadInbox] = q[PayloadInbox] /\ queue'[CameraInbox] = q[CameraInbox]
<1> DEFINE out == CameraOutbox(results, events, on, state)
<1>1. /\ DOMAIN out = {"payload/result", "perception/events", "payload/state"}
      /\ out["payload/result"] = results /\ out["perception/events"] = events
      /\ out["payload/state"] = <<PayloadState(on, state)>>
  BY DEF CameraOutbox
<1>2. queue' = Deliver(q, out)
  OBVIOUS
<1> HIDE DEF out
<1>3. \A t \in DOMAIN out : IsList(out[t])
  BY <1>1, Single
<1>4. Passes
  <2>1. commands' \in 0..MaxCommands
    BY DEF QueuesInv
  <2> QED  BY <1>1, <1>2, <1>3, <2>1, PassesDelivered
<1>5. \A c \in {PerceptionInbox, ResultInbox, CameraStateInbox} :
        c \in Channels /\ IsList(q[c]) /\ q[c] = queue[c]
  BY PathBoxes DEF QueuesInv
<1>6. ElementsOf(<<PayloadState(on, state)>>) = {PayloadState(on, state)}
  BY Single
<1>7. Photographs(results, events, on, state)
  <2>1. \A c \in {PerceptionInbox, ResultInbox, CameraStateInbox} :
          /\ Grown(queue'[c], queue[c], out[c.topic])
          /\ ElementsOf(queue'[c]) \subseteq ElementsOf(queue[c]) \cup ElementsOf(out[c.topic])
    BY <1>1, <1>2, <1>3, <1>5, Arrives, PathBoxes
  <2> QED  BY <1>1, <1>6, <2>1, PathBoxes DEF Photographs
<1>8. queue'[PayloadInbox] = q[PayloadInbox] /\ queue'[CameraInbox] = q[CameraInbox]
  BY <1>1, <1>2, Untouched, PathBoxes
<1> QED  BY <1>4, <1>7, <1>8

\* A command that the camera takes is a scan, which leaves an artifact and the
\* messages that name it, or says nothing of artifacts.
Scanned(msg) ==
  /\ IsScan(msg)
  /\ artifact_files' = artifact_files \cup {now}
  /\ Photographs(<<Result(now, msg.run)>>, <<PersonDetected(now, msg.run)>>, TRUE, "scanning")

Configured(msg) ==
  /\ ~IsScan(msg)
  /\ artifact_files' = artifact_files
  /\ \/ \E on, state : Photographs(<< >>, << >>, on, state)
     \/ \A c \in Inboxes : queue'[c] = queue[c]

LEMMA ScanEffect ==
  ASSUME QueuesInv, PathsInv, Scan
  PROVE  /\ Passes /\ commands' = commands
         /\ queue'[PayloadInbox] = queue[PayloadInbox]
         /\ IsList(queue'[CameraInbox])
         /\ Len(queue[CameraInbox]) \in Nat /\ Len(queue'[CameraInbox]) = Len(queue[CameraInbox]) - 1
         /\ \E msg : /\ ElementsOf(queue[CameraInbox]) = ElementsOf(queue'[CameraInbox]) \cup {msg}
                     /\ Scanned(msg) \/ Configured(msg)
<1> DEFINE msg == Head(queue[CameraInbox])
           q == Taken(CameraInbox)
<1>0. /\ queue[CameraInbox] # << >>
      /\ UNCHANGED <<manager, now, reporter, timing, commands>>
  BY DEF Scan, CameraStep
<1>1. \/ msg.payload_type # CameraType /\ queue' = q /\ artifact_files' = artifact_files
      \/ IsScan(msg) /\ RunScan(msg, now, q)
      \/ ~IsScan(msg) /\ Configure(msg, q)
  BY DEF Scan, CameraStep, IsScan
<1>2. /\ q = [d \in Channels |-> q[d]]
      /\ \A d \in Channels : d # CameraInbox => q[d] = queue[d]
      /\ IsList(q[CameraInbox])
      /\ ElementsOf(queue[CameraInbox]) = ElementsOf(q[CameraInbox]) \cup {msg}
      /\ Len(queue[CameraInbox]) \in Nat /\ Len(q[CameraInbox]) = Len(queue[CameraInbox]) - 1
  BY <1>0, WithoutOldest, PathBoxes DEF QueuesInv, PathsInv
<1> HIDE DEF msg, q
<1>3. \A c \in Inboxes : q[c] = queue[c]
  BY <1>2, Boxes, PathBoxes
<1>4. q[PayloadInbox] = queue[PayloadInbox]
  BY <1>2, PathBoxes
<1>5. CASE msg.payload_type # CameraType /\ queue' = q /\ artifact_files' = artifact_files
  <2>1. Passes
    BY <1>0, <1>2, <1>3, <1>5, Boxes DEF Passes, QueuesInv
  <2>2. Configured(msg)
    BY <1>3, <1>5 DEF Configured, IsScan
  <2> QED  BY <1>0, <1>2, <1>4, <1>5, <2>1, <2>2
<1>6. CASE IsScan(msg) /\ RunScan(msg, now, q)
  <2>1. /\ queue' = Deliver(q, CameraOutbox(<<Result(now, msg.run)>>, <<PersonDetected(now, msg.run)>>,
                                            TRUE, "scanning"))
        /\ artifact_files' = artifact_files \cup {now}
    BY <1>6 DEF RunScan, ScanOutbox, ArtifactId
  <2>2. IsList(<<Result(now, msg.run)>>) /\ IsList(<<PersonDetected(now, msg.run)>>)
    BY Single
  <2>3. /\ Passes
        /\ Photographs(<<Result(now, msg.run)>>, <<PersonDetected(now, msg.run)>>, TRUE, "scanning")
        /\ queue'[PayloadInbox] = q[PayloadInbox] /\ queue'[CameraInbox] = q[CameraInbox]
    BY <1>0, <1>3, <2>1, <2>2, CameraDelivers
  <2>4. Scanned(msg)
    BY <1>6, <2>1, <2>3 DEF Scanned
  <2> QED  BY <1>0, <1>2, <1>4, <2>3, <2>4
<1>7. CASE ~IsScan(msg) /\ Configure(msg, q)
  <2>1. /\ queue' = Deliver(q, CameraOutbox(<< >>, << >>, camera_active', camera_state'))
        /\ artifact_files' = artifact_files
    BY <1>7 DEF Configure
  <2>2. /\ Passes /\ Photographs(<< >>, << >>, camera_active', camera_state')
        /\ queue'[PayloadInbox] = q[PayloadInbox] /\ queue'[CameraInbox] = q[CameraInbox]
    BY <1>0, <1>3, <2>1, Empty, CameraDelivers
  <2>3. Configured(msg)
    BY <1>7, <2>1, <2>2 DEF Configured
  <2> QED  BY <1>0, <1>2, <1>4, <2>2, <2>3
<1> QED  BY <1>1, <1>5, <1>6, <1>7

LEMMA ShowStateEffect ==
  ASSUME QueuesInv, PathsInv, ShowState
  PROVE  /\ Passes /\ UNCHANGED <<commands, artifact_files>>
         /\ queue'[PayloadInbox] = queue[PayloadInbox] /\ queue'[CameraInbox] = queue[CameraInbox]
         /\ \A c \in Inboxes : c # CameraStateInbox => queue'[c] = queue[c]
         /\ \E on, state :
              /\ Grown(queue'[CameraStateInbox], queue[CameraStateInbox], <<PayloadState(on, state)>>)
              /\ ElementsOf(queue'[CameraStateInbox])
                   \subseteq ElementsOf(queue[CameraStateInbox]) \cup {PayloadState(on, state)}
<1> DEFINE said == PayloadState(camera_active, camera_state)
           out == [t \in {"payload/state"} |-> <<said>>]
<1>1. /\ queue' = Deliver(queue, out)
      /\ UNCHANGED <<manager, now, reporter, timing, commands, artifact_files>>
  BY DEF ShowState, CameraTimer
<1>2. DOMAIN out = {"payload/state"} /\ out["payload/state"] = <<said>>
  OBVIOUS
<1> HIDE DEF out, said
<1>3. \A t \in DOMAIN out : IsList(out[t])
  BY <1>2, Single
<1>4. Passes
  <2>1. commands' \in 0..MaxCommands
    BY <1>1 DEF QueuesInv
  <2> QED  BY <1>1, <1>2, <1>3, <2>1, PassesDelivered
<1>5. queue'[PayloadInbox] = queue[PayloadInbox] /\ queue'[CameraInbox] = queue[CameraInbox]
  BY <1>1, <1>2, Untouched, PathBoxes
<1>6. \A c \in Inboxes : c # CameraStateInbox => queue'[c] = queue[c]
  BY <1>1, <1>2, Untouched, PathBoxes, Boxes
<1>7. IsList(queue[CameraStateInbox]) /\ ElementsOf(<<said>>) = {said}
  BY PathBoxes, Single DEF QueuesInv
<1>8. /\ Grown(queue'[CameraStateInbox], queue[CameraStateInbox], <<said>>)
      /\ ElementsOf(queue'[CameraStateInbox]) \subseteq ElementsOf(queue[CameraStateInbox]) \cup {said}
  BY <1>1, <1>2, <1>3, <1>7, Arrives, PathBoxes
<1> QED  BY <1>1, <1>4, <1>5, <1>6, <1>8 DEF said

-----------------------------------------------------------------------------
(* What holds of mission and report also beside the payloads.               *)

\* What the mission manager asks waits on its topics, and nothing else changes.
AskedEffect ==
  \/ queue' = queue
  \/ /\ queue'[CameraInbox] = queue[CameraInbox]
     /\ \A c \in Inboxes : c.topic \notin MissionTopics => queue'[c] = queue[c]
     /\ IsList(queue'[PayloadInbox])
     /\ \E events, payload :
          /\ IsList(events) /\ Asks(events, payload)
          /\ Grown(queue'[PayloadInbox], queue[PayloadInbox], payload)
          /\ ElementsOf(queue'[PayloadInbox])
               \subseteq ElementsOf(queue[PayloadInbox]) \cup ElementsOf(payload)
          /\ Grown(queue'[EventInbox], queue[EventInbox], events)
          /\ ElementsOf(queue'[EventInbox])
               \subseteq ElementsOf(queue[EventInbox]) \cup ElementsOf(events)

LEMMA AskedQueues ==
  ASSUME QueuesInv, PathsInv, Asked
  PROVE  AskedEffect
<1>1. SUFFICES ASSUME NEW states, NEW events, NEW robot, NEW payload,
                      queue' = Deliver(queue, Outbox(states, events, robot, payload)),
                      IsList(events), Asks(events, payload)
               PROVE  AskedEffect
  BY DEF Asked, AskedEffect
<1> DEFINE out == Outbox(states, events, robot, payload)
<1>2. /\ DOMAIN out = MissionTopics
      /\ out["mission/events"] = events /\ out["payload/command_request"] = payload
  BY DEF Outbox, MissionTopics
<1>3. queue' = Deliver(queue, out)
  BY <1>1
<1> HIDE DEF out
<1>4. IsList(payload)
  BY <1>1, Single, Empty DEF Asks
<1>5. "payload/command" \notin MissionTopics
      /\ "mission/events" \in MissionTopics /\ "payload/command_request" \in MissionTopics
  BY DEF MissionTopics
<1>6. queue'[CameraInbox] = queue[CameraInbox]
  BY <1>2, <1>3, <1>5, Untouched, PathBoxes
<1>7. \A c \in Inboxes : c.topic \notin MissionTopics => queue'[c] = queue[c]
  BY <1>2, <1>3, Untouched, Boxes
<1>8. /\ IsList(queue'[PayloadInbox])
      /\ Grown(queue'[PayloadInbox], queue[PayloadInbox], payload)
      /\ ElementsOf(queue'[PayloadInbox]) \subseteq ElementsOf(queue[PayloadInbox]) \cup ElementsOf(payload)
  BY <1>2, <1>3, <1>4, <1>5, Arrives, PathBoxes DEF PathsInv
<1>9. /\ Grown(queue'[EventInbox], queue[EventInbox], events)
      /\ ElementsOf(queue'[EventInbox]) \subseteq ElementsOf(queue[EventInbox]) \cup ElementsOf(events)
  <2>1. IsList(queue[EventInbox]) /\ EventInbox \in Channels
    BY Boxes DEF QueuesInv
  <2> QED  BY <1>1, <1>2, <1>3, <1>5, <2>1, Arrives, Boxes
<1> QED  BY <1>1, <1>6, <1>7, <1>8, <1>9 DEF AskedEffect

LEMMA MissionAsks == ASSUME QueuesInv, PathsInv, Mission PROVE AskedEffect
<1>1. MissionInv
  BY DEF QueuesInv
<1>2. ASSUME NEW msg \in MissionCommands, Obey(msg) PROVE Asked
  BY <1>1, <1>2, CommandAsks DEF Obey
<1>3. ASSUME Advance PROVE Asked
  <2>1. Tick(queue)
    BY <1>3 DEF Advance
  <2> QED  BY <1>1, <2>1, TickAsks
<1> QED  BY <1>2, <1>3, AskedQueues DEF Mission

\* The report manager takes from its own queues.
LEMMA GatherEffect ==
  ASSUME QueuesInv, NEW c \in Inboxes, Gather(c)
  PROVE  /\ queue'[PayloadInbox] = queue[PayloadInbox] /\ queue'[CameraInbox] = queue[CameraInbox]
         /\ \A d \in Inboxes : d # c => queue'[d] = queue[d]
         /\ queue[c] # << >> /\ ElementsOf(queue[c]) = ElementsOf(queue'[c]) \cup {Head(queue[c])}
         /\ IsList(queue'[c])
         /\ Len(queue[c]) \in Nat /\ Len(queue'[c]) = Len(queue[c]) - 1
         /\ UNCHANGED <<manager, now, timing, commands, artifact_files, camera>>
<1>1. queue[c] # << >> /\ queue' = Taken(c) /\ c \in Channels /\ IsList(queue[c])
  BY Boxes DEF Gather, Collect, ReportStep, QueuesInv
<1>2. /\ \A d \in Channels : d # c => queue'[d] = queue[d]
      /\ ElementsOf(queue[c]) = ElementsOf(queue'[c]) \cup {Head(queue[c])}
      /\ IsList(queue'[c]) /\ Len(queue[c]) \in Nat /\ Len(queue'[c]) = Len(queue[c]) - 1
  BY <1>1, WithoutOldest DEF QueuesInv
<1> QED  BY <1>1, <1>2, PathBoxes, Boxes DEF Gather, Collect, ReportStep

Base == QueuesInv /\ ReportInv /\ EndingsReported /\ PathsInv

LEMMA PassesKeeps ==
  ASSUME QueuesInv, ReportInv, EndingsReported, Passes
  PROVE  QueuesInv' /\ ReportInv' /\ EndingsReported'
<1>1. MissionInv'
  BY DEF Passes, QueuesInv, MissionInv, MissionTypeOK, FlowOK, PausesPast, StepClock, HasStep, Running,
         Stopped, manager, flags
<1>2. QueuesInv'
  BY <1>1 DEF Passes, QueuesInv
<1>3. ReportInv'
  BY DEF Passes, reporter, ReportInv, Types, IdsFresh, ArmedTimerHasReport
<1>4. EndingsReported'
  BY DEF Passes, reporter, EndingsReported, manager, flags, Stopped
<1> QED  BY <1>2, <1>3, <1>4

LEMMA ClockKeeps ==
  ASSUME QueuesInv, ReportInv, EndingsReported, Clock
  PROVE  /\ QueuesInv' /\ ReportInv' /\ EndingsReported' /\ queue' = queue
         /\ now' = now + 1 /\ UNCHANGED <<reporter, artifact_files, timing, commands>>
<1>1. ClockTick /\ UNCHANGED <<reporter, artifact_files, timing, commands, queue>> /\ FlagsKept
      /\ now' = now + 1
  BY ClockEffect DEF Clock, ClockTick
<1>2. MissionInv'
  BY <1>1, InvStep DEF QueuesInv, MissionNext
<1>3. QueuesInv'
  BY <1>1, <1>2 DEF QueuesInv
<1>4. ReportInv'
  BY <1>1 DEF reporter, ReportInv, Types, IdsFresh, ArmedTimerHasReport
<1>5. EndingsReported'
  BY <1>1 DEF reporter, EndingsReported, Stopped, FlagsKept
<1> QED  BY <1>1, <1>3, <1>4, <1>5

\* What others ask of the payloads are payload commands ...
DirectsArePayloads == \A msg \in DirectPayloads : IsPayload(msg)

\* ... and no scans.
DirectsDoNotScan == \A msg \in DirectPayloads : IsPayload(msg) /\ ~IsScan(msg)

LEMMA DirectsTyped == DirectsDoNotScan => DirectsArePayloads
BY DEF DirectsDoNotScan, DirectsArePayloads

LEMMA AskedPayload ==
  ASSUME NEW events, NEW payload, Asks(events, payload), NEW e \in ElementsOf(payload)
  PROVE  /\ IsPayload(e) /\ e.run = run'
         /\ ~MayBegin' /\ HasStep(current_step_index')
         /\ StepAt(current_step_index').target = "payload"
         /\ e.payload_type = StepAt(current_step_index').payload_type
         /\ e.command_type = StepAt(current_step_index').command_type
<1>1. payload # << >>
  BY Empty
<1>2. PICK op : payload = <<PayloadCommand(current_step_index', op, run')>>
  BY <1>1 DEF Asks
<1>3. e = PayloadCommand(current_step_index', op, run')
  BY <1>2, Single
<1>4. IsPayload(e)
  BY <1>3 DEF PayloadCommand, IsPayload
<1> QED  BY <1>1, <1>3, <1>4 DEF Asks, PayloadCommand

LEMMA PathsStep ==
  ASSUME QueuesInv, PathsInv, DirectsArePayloads, [EvidenceNext]_evidence_vars
  PROVE  PathsInv'
<1> DEFINE P == queue[PayloadInbox]
           C == queue[CameraInbox]
           Kept == /\ IsList(P') /\ IsList(C')
                   /\ \A e \in ElementsOf(P') \cup ElementsOf(C') :
                        e \in ElementsOf(P) \cup ElementsOf(C) \/ IsPayload(e)
<1>1. SUFFICES Kept
  BY DEF PathsInv, Commanded
<1>0. IsList(P) /\ IsList(C) /\ \A e \in ElementsOf(P) \cup ElementsOf(C) : IsPayload(e)
  BY DEF PathsInv, Commanded
<1>2. ASSUME P' = P, C' = C PROVE Kept
  BY <1>0, <1>2
<1>3. CASE Mission
  <2>1. SUFFICES ASSUME queue' # queue PROVE Kept
    BY <1>2
  <2>2. PICK events, payload :
          /\ C' = C /\ IsList(P') /\ Asks(events, payload)
          /\ ElementsOf(P') \subseteq ElementsOf(P) \cup ElementsOf(payload)
    BY <1>3, <2>1, MissionAsks DEF AskedEffect
  <2>3. \A e \in ElementsOf(payload) : IsPayload(e)
    BY <2>2, AskedPayload
  <2> QED  BY <1>0, <2>2, <2>3
<1>4. ASSUME NEW msg \in DirectPayloads, DirectPayload(msg) PROVE Kept
  <2>1. IsPayload(msg)
    BY DEF DirectsArePayloads
  <2> QED  BY <1>0, <1>4, <2>1, DirectEffect
<1>5. ASSUME NEW c \in Inboxes, Gather(c) PROVE Kept
  BY <1>2, <1>5, GatherEffect
<1>6. CASE Write \/ Clock \/ UNCHANGED evidence_vars
  <2>1. queue' = queue
    BY <1>6 DEF Write, HalfSecond, WriteReportOnce, Clock, ClockTick, evidence_vars, vars
  <2> QED  BY <1>2, <2>1
<1>7. CASE Forward
  <2>1. PICK msg, sent :
          /\ IsList(P') /\ ElementsOf(P) = ElementsOf(P') \cup {msg}
          /\ Grown(C', C, sent) /\ ElementsOf(C') \subseteq ElementsOf(C) \cup ElementsOf(sent)
          /\ sent = << >> \/ sent = <<msg>> \/ sent = <<Shortened(msg)>>
    BY <1>7, ForwardEffect
  <2>2. IsPayload(msg) /\ IsPayload(Shortened(msg))
    BY <1>0, <2>1, ShortenedPayload
  <2>3. \A e \in ElementsOf(sent) : IsPayload(e)
    BY <2>1, <2>2, Single, Empty
  <2>4. IsList(C')
    BY <2>1 DEF Grown
  <2> QED  BY <1>0, <2>1, <2>3, <2>4
<1>8. CASE Scan
  BY <1>0, <1>8, ScanEffect
<1>9. CASE ShowState
  BY <1>2, <1>9, ShowStateEffect
<1> QED  BY <1>3, <1>4, <1>5, <1>6, <1>7, <1>8, <1>9 DEF EvidenceNext

LEMMA InitBase == EvidenceInit => Base
<1> SUFFICES ASSUME EvidenceInit PROVE Base  OBVIOUS
<1>1. Init
  BY DEF EvidenceInit
<1>2. queue[PayloadInbox] = << >> /\ queue[CameraInbox] = << >>
  BY <1>1, PathBoxes DEF Init, NoMessages, Observed
<1>3. PathsInv
  BY <1>2, Empty DEF PathsInv, Commanded
<1> QED  BY <1>1, <1>3, InitQueues, InitReports, InitEndings DEF Base

LEMMA BaseStep ==
  ASSUME Base, DirectsArePayloads, [EvidenceNext]_evidence_vars
  PROVE  Base'
<1>1. PathsInv'
  BY PathsStep DEF Base
<1>2. CASE [Next]_vars
  BY <1>1, <1>2, QueuesStep, ReportsStep, EndingsStep DEF Base
<1>3. CASE Mission \/ (\E c \in Inboxes : Gather(c)) \/ Write \/ UNCHANGED evidence_vars
  BY <1>2, <1>3 DEF Mission, Gather, Write, Next, evidence_vars
<1>4. ASSUME Passes PROVE Base'
  BY <1>1, <1>4, PassesKeeps DEF Base
<1>5. ASSUME NEW msg \in DirectPayloads, DirectPayload(msg) PROVE Passes
  BY <1>5, DirectEffect DEF Base
<1>6. CASE Forward \/ Scan \/ ShowState
  BY <1>4, <1>6, ForwardEffect, ScanEffect, ShowStateEffect DEF Base
<1>7. CASE Clock
  BY <1>1, <1>7, ClockKeeps DEF Base
<1> QED  BY <1>3, <1>4, <1>5, <1>6, <1>7 DEF EvidenceNext

-----------------------------------------------------------------------------
(* Who claims which artifact.                                               *)

\* What the perception events among some records name.
Named(records) == {r[2].artifact_id : r \in {e \in records : e[1] = "perception/events"}}

ReportedIds == UNION {Named(m.records) : m \in missions}

\* What is named exists, and was made at a time that has come.
FilesExist ==
  /\ artifact_files \subseteq 0..now
  /\ Named(collected) \subseteq artifact_files
  /\ ReportedIds \subseteq artifact_files
  /\ \A e \in ElementsOf(queue[PerceptionInbox]) : e.artifact_id \in artifact_files

\* A scan that is still to be made gets an id that no report has ...
ScansLater ==
  (\E e \in Commanded : IsScan(e)) => \A a \in ReportedIds : a < now

\* ... for its mission stands in a later second than the last report's scans.
StepsLater ==
  ~MayBegin =>
    \A a \in ReportedIds :
      IF current_step_index = 0 THEN a <= current_step_started ELSE a < now

\* What is not reported yet is in no report.
Unclaimed ==
  /\ \A e \in ElementsOf(queue[PerceptionInbox]) : e.artifact_id \notin ReportedIds
  /\ report_written = FALSE => Named(collected) \cap ReportedIds = {}

LinkedOnce ==
  /\ \A m \in missions : \A a \in Named(m.records) :
       [artifact_id |-> a, report_id |-> m.report_id] \in evidence_artifacts
  /\ \A m, n \in missions : m # n => Named(m.records) \cap Named(n.records) = {}

Orderly == timing.prompt /\ timing.operator_waits

ClaimsInv == Orderly => ScansLater /\ StepsLater /\ Unclaimed /\ LinkedOnce

\* A mission stands for a second or more before it scans, as the shipped ones do.
StandsFirst ==
  /\ Duration(0) >= 1
  /\ ~(StepAt(0).target = "payload" /\ StepAt(0).payload_type = CameraType
       /\ StepAt(0).command_type = "scan")

\* What the report manager does with a message.
LEMMA GatherRecords ==
  ASSUME ReportInv, NEW c \in Inboxes, Gather(c)
  PROVE  /\ UNCHANGED <<missions, evidence_artifacts, record_rows>>
         /\ \/ /\ c = StateInbox /\ OpensRun(Head(queue[c]))
               /\ collected' = {} /\ latest_states' = {} /\ report_written' = FALSE
            \/ /\ c = StateInbox /\ ~OpensRun(Head(queue[c]))
               /\ UNCHANGED <<collected, latest_states, report_written>>
            \/ /\ c.topic \in StateTopics /\ c # StateInbox
               /\ OnLatestState(c.topic, Head(queue[c]))
               /\ UNCHANGED <<collected, report_written>>
            \/ /\ c.topic \notin StateTopics \cup {"mission/state"} /\ c # StateInbox
               /\ collected' = collected \cup {<<c.topic, Head(queue[c])>>}
               /\ UNCHANGED <<latest_states, report_written>>
<1> DEFINE msg == Head(queue[c])
<1>1. \/ c.topic = "mission/state" /\ OnMissionState(msg)
      \/ c.topic \in StateTopics /\ OnLatestState(c.topic, msg)
      \/ c.topic \notin StateTopics \cup {"mission/state"} /\ OnRecord(c.topic, msg)
  BY DEF Gather, Collect, ReportStep
<1>2. c.topic = "mission/state" <=> c = StateInbox
  BY Boxes
<1>3. "mission/state" \notin StateTopics
  BY DEF StateTopics
<1> HIDE DEF msg
<1>4. CASE c.topic = "mission/state" /\ OnMissionState(msg)
  BY <1>2, <1>4 DEF OnMissionState, OpenLists, msg
<1>5. CASE c.topic \in StateTopics /\ OnLatestState(c.topic, msg)
  BY <1>2, <1>3, <1>5 DEF OnLatestState, msg
<1>6. CASE c.topic \notin StateTopics \cup {"mission/state"} /\ OnRecord(c.topic, msg)
  BY <1>2, <1>6 DEF OnRecord, msg
<1> QED  BY <1>1, <1>4, <1>5, <1>6

\* What the half-second timer writes is a new report, of the lists as they are.
Adds(m) ==
  /\ m.records = collected /\ m.latest_states = latest_states /\ m.mission_states = mission_states
  /\ missions' = missions \cup {m} /\ \A n \in missions : n.report_id # m.report_id
  /\ record_rows' = record_rows \cup Rows(m)
  /\ LinkEvidence(m)
  /\ report_written' = TRUE

LEMMA WriteAdds ==
  ASSUME ReportInv, Write
  PROVE  /\ UNCHANGED <<manager, now, queue, timing, commands, artifact_files, camera>>
         /\ UNCHANGED <<mission_states, collected, latest_states>>
         /\ report_timer /\ report_written = FALSE
         /\ timing.prompt => Delivered
         /\ \/ UNCHANGED <<missions, record_rows, evidence_artifacts, report_written>>
            \/ \E m : Adds(m)
<1>1. /\ UNCHANGED <<manager, now, queue, timing, commands, artifact_files, camera>>
      /\ UNCHANGED <<mission_states, collected, latest_states>>
      /\ report_timer /\ (timing.prompt => Delivered) /\ WriteReportOnce
  BY DEF Write, HalfSecond, WriteReportOnce
<1>2. report_timer = TRUE /\ report_written = FALSE
  BY <1>1 DEF ReportInv, Types, ArmedTimerHasReport
<1>3. CASE WriteReportFails
  BY <1>1, <1>2, <1>3 DEF WriteReportFails
<1>4. CASE WriteReport
  <2> DEFINE m == CurrentReport
  <2>1. /\ m.records = collected /\ m.latest_states = latest_states
        /\ m.mission_states = mission_states
        /\ m.report_id = IF report_run_id # 0 THEN report_run_id ELSE ids + 1
    BY DEF CurrentReport
  <2>2. /\ missions' = {n \in missions : n.report_id # m.report_id} \cup {m}
        /\ record_rows' = record_rows \cup Rows(m) /\ LinkEvidence(m) /\ report_written' = TRUE
    BY <1>4 DEF WriteReport, PersistReport
  <2> HIDE DEF m
  <2>3. \A n \in missions : n.report_id # m.report_id
    BY <1>2, <2>1 DEF ReportInv, Types, IdsFresh
  <2>4. missions' = missions \cup {m}
    BY <2>2, <2>3
  <2>5. Adds(m)
    BY <2>1, <2>2, <2>3, <2>4 DEF Adds
  <2> QED  BY <1>1, <1>2, <2>5
<1> QED  BY <1>1, <1>2, <1>3, <1>4 DEF WriteReportOnce

\* Reports in the database stay the same but for those that are written.
LEMMA ReportsStay == UNCHANGED missions => ReportedIds' = ReportedIds
BY DEF ReportedIds

LEMMA NamedNone == Named({}) = {}
BY DEF Named

LEMMA NamedGrows ==
  ASSUME NEW records, NEW t, NEW e, NEW after, after = records \cup {<<t, e>>}
  PROVE  /\ Named(after) \subseteq Named(records) \cup {e.artifact_id}
         /\ t # "perception/events" => Named(after) = Named(records)
<1> DEFINE seen == {r \in records : r[1] = "perception/events"}
           now_seen == {r \in after : r[1] = "perception/events"}
<1>1. <<t, e>>[1] = t /\ <<t, e>>[2].artifact_id = e.artifact_id
  OBVIOUS
<1>2. \A some : Named(some) = {r[2].artifact_id : r \in {x \in some : x[1] = "perception/events"}}
  BY DEF Named
<1>3. t # "perception/events" => now_seen = seen
  BY <1>1
<1>4. now_seen \subseteq seen \cup {<<t, e>>}
  OBVIOUS
<1>5. Named(after) = {r[2].artifact_id : r \in now_seen} /\ Named(records) = {r[2].artifact_id : r \in seen}
  BY <1>2
<1> DEFINE pair == <<t, e>>
<1>6. pair[2].artifact_id = e.artifact_id
  BY <1>1
<1> HIDE DEF now_seen, seen, pair
<1>7. t # "perception/events" => Named(after) = Named(records)
  BY <1>3, <1>5
<1>8. Named(after) \subseteq Named(records) \cup {e.artifact_id}
  <2>1. now_seen \subseteq seen \cup {pair}
    BY <1>4 DEF pair
  <2> QED  BY <1>5, <1>6, <2>1
<1> QED  BY <1>7, <1>8

LEMMA ReportsAdded ==
  ASSUME NEW m, Adds(m)
  PROVE  ReportedIds' = ReportedIds \cup Named(collected)
<1>1. missions' = missions \cup {m} /\ m.records = collected
  BY DEF Adds
<1>2. ReportedIds' = UNION {Named(n.records) : n \in missions'}
  BY DEF ReportedIds
<1> QED  BY <1>1, <1>2 DEF ReportedIds

LEMMA GatheredNames ==
  ASSUME QueuesInv, ReportInv, NEW c \in Inboxes, Gather(c)
  PROVE  /\ UNCHANGED <<missions, evidence_artifacts>>
         /\ ElementsOf(queue'[PerceptionInbox]) \subseteq ElementsOf(queue[PerceptionInbox])
         /\ \A a \in Named(collected') :
              \/ a \in Named(collected) /\ report_written' = report_written
              \/ \E e \in ElementsOf(queue[PerceptionInbox]) : e.artifact_id = a
<1> DEFINE msg == Head(queue[c])
           P == queue[PerceptionInbox]
<1>1. /\ \A d \in Inboxes : d # c => queue'[d] = queue[d]
      /\ ElementsOf(queue[c]) = ElementsOf(queue'[c]) \cup {msg}
  BY GatherEffect
<1>2. PerceptionInbox \in Inboxes /\ (c.topic = "perception/events" => c = PerceptionInbox)
  BY PathBoxes
<1>3. ElementsOf(P') \subseteq ElementsOf(P)
  BY <1>1, <1>2
<1>4. UNCHANGED <<missions, evidence_artifacts>>
  BY GatherRecords
<1>5. \/ collected' = {}
      \/ collected' = collected /\ report_written' = report_written
      \/ collected' = collected \cup {<<c.topic, msg>>} /\ report_written' = report_written
  BY GatherRecords
<1>6. c.topic = "perception/events" => msg \in ElementsOf(P)
  BY <1>1, <1>2
<1> DEFINE topic == c.topic
<1> HIDE DEF msg, P, topic
<1>7. \A a \in Named(collected') :
        \/ a \in Named(collected) /\ report_written' = report_written
        \/ \E e \in ElementsOf(P) : e.artifact_id = a
  <2>1. CASE collected' = {}
    BY <2>1, NamedNone
  <2>2. CASE collected' = collected /\ report_written' = report_written
    BY <2>2
  <2>3. CASE collected' = collected \cup {<<topic, msg>>} /\ report_written' = report_written
    <3>1. /\ Named(collected') \subseteq Named(collected) \cup {msg.artifact_id}
          /\ topic # "perception/events" => Named(collected') = Named(collected)
      BY <2>3, NamedGrows
    <3>2. topic = "perception/events" => msg \in ElementsOf(P)
      BY <1>6 DEF topic
    <3> QED  BY <2>3, <3>1, <3>2
  <2> QED  BY <1>5, <2>1, <2>2, <2>3 DEF topic
<1> QED  BY <1>3, <1>4, <1>7 DEF P

LEMMA PhotographedNames ==
  ASSUME Scan, QueuesInv, PathsInv
  PROVE  /\ UNCHANGED <<missions, collected, report_written, evidence_artifacts, now>>
         /\ \A e \in ElementsOf(queue'[PerceptionInbox]) :
              \/ e \in ElementsOf(queue[PerceptionInbox])
              \/ e.artifact_id = now /\ now \in artifact_files' /\ \E s \in Commanded : IsScan(s)
         /\ artifact_files \subseteq artifact_files' /\ artifact_files' \subseteq artifact_files \cup {now}
<1>1. PICK msg : /\ ElementsOf(queue[CameraInbox]) = ElementsOf(queue'[CameraInbox]) \cup {msg}
                 /\ Scanned(msg) \/ Configured(msg)
  BY ScanEffect
<1>2. UNCHANGED <<missions, collected, report_written, evidence_artifacts, now>>
  BY ScanEffect DEF Passes, reporter
<1>3. msg \in Commanded
  BY <1>1 DEF Commanded
<1>4. CASE Scanned(msg)
  <2> DEFINE seen == PersonDetected(now, msg.run)
  <2>1. ElementsOf(queue'[PerceptionInbox]) \subseteq ElementsOf(queue[PerceptionInbox]) \cup {seen}
    BY <1>4, Single DEF Scanned, Photographs
  <2>2. seen.artifact_id = now /\ artifact_files' = artifact_files \cup {now} /\ IsScan(msg)
    BY <1>4 DEF PersonDetected, Scanned
  <2> QED  BY <1>2, <1>3, <2>1, <2>2
<1>5. CASE Configured(msg)
  <2>1. ElementsOf(queue'[PerceptionInbox]) \subseteq ElementsOf(queue[PerceptionInbox])
    BY <1>5, Empty, PathBoxes DEF Configured, Photographs
  <2> QED  BY <1>2, <1>5, <2>1 DEF Configured
<1> QED  BY <1>1, <1>4, <1>5

\* The other steps of the payload's nodes and of the mission manager.
ClaimsNothing ==
  \/ Mission \/ (\E msg \in DirectPayloads : DirectPayload(msg)) \/ Forward \/ ShowState

LEMMA ClaimsKept ==
  ASSUME QueuesInv, PathsInv, ClaimsNothing
  PROVE  /\ UNCHANGED <<missions, collected, report_written, evidence_artifacts, artifact_files, now>>
         /\ queue'[PerceptionInbox] = queue[PerceptionInbox]
<1>0. PerceptionInbox \in Inboxes /\ PerceptionInbox.topic = "perception/events"
      /\ PerceptionInbox # CameraStateInbox
  BY PathBoxes
<1>1. CASE Mission
  <2>1. queue'[PerceptionInbox] = queue[PerceptionInbox]
    BY <1>0, <1>1, MissionAsks DEF AskedEffect, MissionTopics
  <2>2. UNCHANGED <<reporter, artifact_files, now>>
    BY <1>1 DEF Mission, Obey, Advance, HandleMissionCommand, Tick
  <2> QED  BY <2>1, <2>2 DEF reporter
<1>2. ASSUME NEW msg \in DirectPayloads, DirectPayload(msg)
      PROVE  /\ UNCHANGED <<reporter, artifact_files, now>>
             /\ queue'[PerceptionInbox] = queue[PerceptionInbox]
  BY <1>0, <1>2, DirectEffect DEF Passes
<1>3. CASE Forward
  BY <1>0, <1>3, ForwardEffect DEF Passes, reporter
<1>4. CASE ShowState
  BY <1>0, <1>4, ShowStateEffect DEF Passes, reporter
<1> QED  BY <1>1, <1>2, <1>3, <1>4 DEF ClaimsNothing, reporter

LEMMA InitFiles == EvidenceInit => FilesExist
<1> SUFFICES ASSUME EvidenceInit PROVE FilesExist  OBVIOUS
<1>1. /\ artifact_files = {} /\ missions = {} /\ collected = {}
      /\ queue = NoMessages \/ queue = Observed
  BY DEF EvidenceInit, Init, ReportInit
<1>2. queue[PerceptionInbox] = << >>
  BY <1>1, PathBoxes DEF NoMessages, Observed
<1> QED  BY <1>1, <1>2, Empty, NamedNone DEF FilesExist, ReportedIds

LEMMA FilesStep ==
  ASSUME Base, FilesExist, [EvidenceNext]_evidence_vars
  PROVE  FilesExist'
<1> DEFINE P == queue[PerceptionInbox]
<1>0. /\ QueuesInv /\ ReportInv /\ PathsInv /\ now \in Nat
      /\ artifact_files \subseteq 0..now /\ Named(collected) \subseteq artifact_files
      /\ ReportedIds \subseteq artifact_files
      /\ \A e \in ElementsOf(P) : e.artifact_id \in artifact_files
  BY DEF Base, QueuesInv, MissionInv, MissionTypeOK, FilesExist
<1> HIDE DEF P
<1>1. CASE ClaimsNothing \/ UNCHANGED evidence_vars
  <2>1. UNCHANGED <<missions, collected, artifact_files, now, P>>
    BY <1>0, <1>1, ClaimsKept DEF P, evidence_vars, vars, reporter
  <2> QED  BY <1>0, <2>1, ReportsStay DEF FilesExist, P
<1>2. ASSUME NEW c \in Inboxes, Gather(c) PROVE FilesExist'
  <2>1. UNCHANGED <<missions, now, artifact_files>>
    BY <1>0, <1>2, GatheredNames, GatherEffect
  <2>2. /\ ElementsOf(P') \subseteq ElementsOf(P)
        /\ Named(collected') \subseteq artifact_files
    BY <1>0, <1>2, GatheredNames DEF P
  <2> QED  BY <1>0, <2>1, <2>2, ReportsStay DEF FilesExist, P
<1>3. CASE Write
  <2>1. UNCHANGED <<now, P, artifact_files, collected>> /\ (UNCHANGED missions \/ \E m : Adds(m))
    BY <1>0, <1>3, WriteAdds DEF P
  <2>2. ReportedIds' \subseteq artifact_files
    BY <1>0, <2>1, ReportsStay, ReportsAdded
  <2> QED  BY <1>0, <2>1, <2>2 DEF FilesExist, P
<1>4. CASE Scan
  <2>1. /\ UNCHANGED <<missions, collected, now>> /\ artifact_files \subseteq artifact_files'
        /\ artifact_files' \subseteq artifact_files \cup {now}
        /\ \A e \in ElementsOf(P') : e \in ElementsOf(P) \/ e.artifact_id \in artifact_files'
    BY <1>0, <1>4, PhotographedNames DEF P
  <2>2. now \in 0..now
    BY <1>0
  <2> QED  BY <1>0, <2>1, <2>2, ReportsStay DEF FilesExist, P
<1>5. CASE Clock
  <2>1. UNCHANGED <<missions, collected, artifact_files, P>> /\ now' = now + 1
    BY <1>5, ClockKeeps DEF Base, reporter, P
  <2>2. artifact_files \subseteq 0..now'
    BY <1>0, <2>1
  <2> QED  BY <1>0, <2>1, <2>2, ReportsStay DEF FilesExist, P
<1> QED  BY <1>1, <1>2, <1>3, <1>4, <1>5 DEF EvidenceNext, ClaimsNothing
-----------------------------------------------------------------------------
(* No artifact is claimed twice.                                            *)

\* The ways a mission moves, as far as its scans go: it begins, stays where it
\* is while a resume may move the step's start forward, or leaves a step that
\* has had its time.
LEMMA ManagerMoves ==
  ASSUME MissionInv, Mission
  PROVE  /\ now' = now
         /\ \/ MayBegin'
            \/ current_step_index' = 0 /\ current_step_started' = now
            \/ /\ ~MayBegin /\ current_step_index' = current_step_index
               /\ current_step_started <= current_step_started'
            \/ /\ ~MayBegin /\ current_step_index' = current_step_index + 1
               /\ now - current_step_started >= Duration(current_step_index)
<1> DEFINE Goal == \/ MayBegin'
                   \/ current_step_index' = 0 /\ current_step_started' = now
                   \/ /\ ~MayBegin /\ current_step_index' = current_step_index
                      /\ current_step_started <= current_step_started'
                   \/ /\ ~MayBegin /\ current_step_index' = current_step_index + 1
                      /\ now - current_step_started >= Duration(current_step_index)
<1>0. current_step_started \in Nat /\ now \in Nat /\ (mission_paused => mission_started /\ ~Stopped)
  BY DEF MissionInv, MissionTypeOK, FlowOK
<1>1. HandlerStep /\ UNCHANGED now
  <2>1. ASSUME NEW msg \in MissionCommands, Obey(msg) PROVE MissionNext /\ UNCHANGED now
    BY <2>1 DEF Obey, MissionNext, Command, HandleMissionCommand
  <2>2. ASSUME Advance PROVE MissionNext /\ UNCHANGED now
    BY <2>2 DEF Advance, MissionNext, TimerTick, Tick
  <2>3. MissionNext /\ UNCHANGED now
    BY <2>1, <2>2 DEF Mission
  <2>4. ~ClockTick
    BY <1>0, <2>3, ClockEffect
  <2> QED  BY <2>3, <2>4, StepCases DEF MissionInv
<1>9. SUFFICES Goal
  BY <1>1
<1> USE DEF MayBegin, Stopped
<1>2. CASE Unmoved
  <2>1. MayBegin' <=> MayBegin
    BY <1>2, UnmovedEffect DEF FlagsKept
  <2>2. UNCHANGED <<current_step_index, current_step_started>>
    BY <1>2, UnmovedEffect
  <2>3. current_step_started <= current_step_started'
    BY <1>0, <2>2
  <2> HIDE DEF MayBegin
  <2> QED  BY <2>1, <2>2, <2>3
<1>3. ASSUME NEW op \in Operators, BeginMission(op, queue) PROVE Goal
  BY <1>3, BeginEffect
<1>4. ASSUME NEW op \in Operators, PauseMission(op, queue) PROVE Goal
  BY <1>0, <1>4, PauseEffect DEF Running
<1>5. ASSUME NEW op \in Operators, ResumeMission(op, queue) PROVE Goal
  <2>1. current_step_started <= ResumedStart
    BY <1>0, <1>5, ResumeEffect, ResumedForward DEF MissionInv
  <2> QED  BY <1>0, <1>5, <2>1, ResumeEffect
<1>6. ASSUME NEW op \in Operators, CancelMission(op, queue) PROVE Goal
  BY <1>6, CancelEffect
<1>7. ASSUME NEW op \in Operators, ResetMission(op, queue) PROVE Goal
  BY <1>7, ResetEffect
<1>8. CASE Running /\ AdvanceStep(queue)
  <2>1. ~MayBegin /\ now - current_step_started >= Duration(current_step_index)
    BY <1>8 DEF Running, AdvanceStep, StepElapsed
  <2>2. CASE NextStep(queue)
    <3>1. current_step_index' = current_step_index + 1
      BY <2>2, NextStepEffect
    <3> HIDE DEF MayBegin
    <3> QED  BY <2>1, <3>1
  <2>3. CASE CompleteMission(queue)
    <3>1. MayBegin'
      BY <2>3, CompleteEffect
    <3> HIDE DEF MayBegin
    <3> QED  BY <3>1
  <2> QED  BY <1>8, <2>2, <2>3 DEF AdvanceStep
<1> HIDE DEF Goal
<1> QED  BY <1>1, <1>2, <1>3, <1>4, <1>5, <1>6, <1>7, <1>8 DEF HandlerStep

\* Commands that wait after a step which waited before, but for those that the
\* mission asks for at the step that it has come to.
LEMMA ScansWaiting ==
  ASSUME Base, DirectsDoNotScan, [EvidenceNext]_evidence_vars, NEW e \in Commanded', IsScan(e)
  PROVE  \/ \E f \in Commanded : IsScan(f)
         \/ /\ Mission /\ ~MayBegin'
            /\ StepAt(current_step_index').target = "payload"
            /\ StepAt(current_step_index').payload_type = CameraType
            /\ StepAt(current_step_index').command_type = "scan"
<1> DEFINE P == ElementsOf(queue[PayloadInbox])
           C == ElementsOf(queue[CameraInbox])
<1>0. QueuesInv /\ PathsInv /\ Commanded = P \cup C /\ Commanded' = P' \cup C'
  BY DEF Base, Commanded
<1>1. CASE P' \cup C' \subseteq P \cup C
  BY <1>0, <1>1
<1>2. CASE Mission
  <2>1. CASE queue' = queue
    BY <1>1, <2>1
  <2>2. CASE queue' # queue
    <3>1. PICK events, payload :
            /\ C' = C /\ P' \subseteq P \cup ElementsOf(payload) /\ Asks(events, payload)
      BY <1>0, <1>2, <2>2, MissionAsks DEF AskedEffect
    <3>2. CASE e \in ElementsOf(payload)
      BY <1>2, <3>1, <3>2, AskedPayload DEF IsScan
    <3>3. CASE e \notin ElementsOf(payload)
      BY <1>0, <3>1, <3>3
    <3> QED  BY <3>2, <3>3
  <2> QED  BY <2>1, <2>2
<1>3. ASSUME NEW msg \in DirectPayloads, DirectPayload(msg) PROVE e \in P \cup C
  <2>1. e # msg
    BY DEF DirectsDoNotScan
  <2>2. C' = C /\ P' \subseteq P \cup {msg}
    BY <1>0, <1>3, DirectEffect
  <2> QED  BY <1>0, <2>1, <2>2
<1>4. ASSUME NEW c \in Inboxes, Gather(c) PROVE P' \cup C' \subseteq P \cup C
  BY <1>0, <1>4, GatherEffect
<1>5. CASE Write \/ Clock \/ UNCHANGED evidence_vars
  <2>1. queue' = queue
    BY <1>5 DEF Write, HalfSecond, WriteReportOnce, Clock, ClockTick, evidence_vars, vars
  <2> QED  BY <1>1, <2>1
<1>6. CASE Forward
  <2>1. PICK msg, sent :
          /\ P = P' \cup {msg} /\ C' \subseteq C \cup ElementsOf(sent)
          /\ sent = << >> \/ sent = <<msg>> \/ sent = <<Shortened(msg)>>
    BY <1>0, <1>6, ForwardEffect
  <2>2. msg \in Commanded /\ IsPayload(msg)
    BY <1>0, <2>1 DEF PathsInv
  <2>3. \A f \in ElementsOf(sent) : IsScan(f) => IsScan(msg)
    BY <2>1, <2>2, Single, Empty, ShortenedPayload
  <2> QED  BY <1>0, <2>1, <2>2, <2>3
<1>7. CASE Scan
  BY <1>0, <1>1, <1>7, ScanEffect
<1>8. CASE ShowState
  BY <1>0, <1>1, <1>8, ShowStateEffect
<1> QED  BY <1>0, <1>1, <1>2, <1>3, <1>4, <1>5, <1>6, <1>7, <1>8 DEF EvidenceNext

LEMMA InitClaims == EvidenceInit => ClaimsInv
<1> SUFFICES ASSUME EvidenceInit PROVE ClaimsInv  OBVIOUS
<1>1. missions = {} /\ collected = {} /\ (queue = NoMessages \/ queue = Observed)
  BY DEF EvidenceInit, Init, ReportInit
<1>2. queue[PerceptionInbox] = << >> /\ queue[PayloadInbox] = << >> /\ queue[CameraInbox] = << >>
  BY <1>1, PathBoxes DEF NoMessages, Observed
<1>3. ReportedIds = {}
  BY <1>1 DEF ReportedIds
<1> QED  BY <1>1, <1>2, <1>3, Empty, NamedNone
         DEF ClaimsInv, ScansLater, StepsLater, Unclaimed, LinkedOnce

LEMMA BeganLater == Base /\ Mission => current_step_started' \in Nat
<1>1. MissionInv /\ Mission => MissionInv'
  BY InvStep DEF Mission, Obey, Advance, MissionNext, Command, TimerTick
<1>2. MissionInv' => current_step_started' \in Nat
  BY DEF MissionInv, MissionTypeOK
<1> QED  BY <1>1, <1>2 DEF Base, QueuesInv

\* The step of a mission stands later than what is reported, also after a step.
LEMMA StandsLater ==
  ASSUME Base, FilesExist, StandsFirst, Mission, StepsLater, ReportedIds' = ReportedIds
  PROVE  StepsLater'
<1> DEFINE i == current_step_index
           began == current_step_started
<1>0. /\ now \in Nat /\ began \in Nat /\ i \in Int
      /\ ReportedIds \subseteq 0..now
      /\ ~MayBegin => i >= 0
  BY DEF Base, QueuesInv, MissionInv, MissionTypeOK, FilesExist, FlowOK, MayBegin
<1>1. CASE MayBegin'
  BY <1>1 DEF StepsLater
<1>2. CASE i' = 0 /\ began' = now
  <2>1. \A a \in ReportedIds : a <= began'
    BY <1>0, <1>2
  <2> QED  BY <1>2, <2>1 DEF StepsLater
<1>3. CASE ~MayBegin /\ i' = i /\ began <= began'
  <2>1. now' = now /\ began' \in Nat
    BY BeganLater, ManagerMoves DEF Base, QueuesInv
  <2>2. \A a \in ReportedIds : IF i = 0 THEN a <= began ELSE a < now
    BY <1>3 DEF StepsLater
  <2>3. \A a \in ReportedIds : IF i = 0 THEN a <= began' ELSE a < now
    BY <1>0, <1>3, <2>1, <2>2
  <2> QED  BY <1>3, <2>1, <2>3 DEF StepsLater
<1>4. CASE ~MayBegin /\ i' = i + 1 /\ now - began >= Duration(i)
  <2>1. i' # 0 /\ now' = now
    BY <1>0, <1>4, ManagerMoves DEF Base, QueuesInv
  <2>2. i = 0 => began < now
    <3> DEFINE d == Duration(i)
    <3>1. i = 0 => d >= 1
      BY DEF StandsFirst
    <3>2. i = 0 => d \in Int
      BY MissionAssumption DEF Duration, StepAt
    <3>3. now - began >= d
      BY <1>4
    <3> HIDE DEF d
    <3> QED  BY <1>0, <3>1, <3>2, <3>3
  <2>3. \A a \in ReportedIds : IF i = 0 THEN a <= began ELSE a < now
    BY <1>4 DEF StepsLater
  <2>4. \A a \in ReportedIds : a < now
    BY <1>0, <2>2, <2>3
  <2> QED  BY <2>1, <2>4 DEF StepsLater
<1> QED  BY <1>1, <1>2, <1>3, <1>4, ManagerMoves DEF Base, QueuesInv

LEMMA WrittenClaims ==
  ASSUME Base, FilesExist, Unclaimed, LinkedOnce, report_written = FALSE,
         UNCHANGED <<queue, collected>>, NEW m, Adds(m)
  PROVE  LinkedOnce'
<1> DEFINE mine == Named(collected)
<1>1. /\ mine \cap ReportedIds = {} /\ mine \subseteq artifact_files
      /\ missions' = missions \cup {m} /\ m.records = collected
      /\ \A n \in missions : n.report_id # m.report_id
  BY DEF FilesExist, Unclaimed, Adds
<1>2. Evidence(m) = mine
  BY <1>1 DEF Evidence, Named
<1>3. evidence_artifacts' =
        {row \in evidence_artifacts : row.artifact_id \notin mine}
        \cup {[artifact_id |-> a, report_id |-> m.report_id] : a \in mine}
  BY <1>2 DEF Adds, LinkEvidence
<1> HIDE DEF mine
<1>4. \A n \in missions : Named(n.records) \subseteq ReportedIds
  BY DEF ReportedIds
<1>5. \A n \in missions : \A a \in Named(n.records) :
        [artifact_id |-> a, report_id |-> n.report_id] \in evidence_artifacts'
  <2> SUFFICES ASSUME NEW n \in missions, NEW a \in Named(n.records)
               PROVE  [artifact_id |-> a, report_id |-> n.report_id] \in evidence_artifacts'
    OBVIOUS
  <2> DEFINE row == [artifact_id |-> a, report_id |-> n.report_id]
  <2>1. row \in evidence_artifacts
    BY DEF LinkedOnce
  <2>2. row.artifact_id = a /\ a \notin mine
    BY <1>1, <1>4
  <2> HIDE DEF row
  <2> QED  BY <1>3, <2>1, <2>2 DEF row
<1>6. Named(m.records) = mine
  BY <1>1 DEF mine
<1>7. \A a \in Named(m.records) :
        [artifact_id |-> a, report_id |-> m.report_id] \in evidence_artifacts'
  BY <1>3, <1>6
<1>8. \A n \in missions : Named(n.records) \cap Named(m.records) = {}
  BY <1>1, <1>4, <1>6
<1>9. \A n, k \in missions : n # k => Named(n.records) \cap Named(k.records) = {}
  BY DEF LinkedOnce
<1> QED  BY <1>1, <1>5, <1>7, <1>8, <1>9 DEF LinkedOnce

LEMMA TimingStays ==
  ASSUME QueuesInv, PathsInv, [EvidenceNext]_evidence_vars
  PROVE  timing' = timing
<1>1. CASE ClaimsNothing \/ Scan
  BY <1>1, ForwardEffect, ShowStateEffect, DirectEffect, ScanEffect
     DEF ClaimsNothing, Passes, Mission, Obey, Advance
<1>2. CASE (\E c \in Inboxes : Gather(c)) \/ Write \/ Clock \/ UNCHANGED evidence_vars
  BY <1>2 DEF Gather, Collect, Write, HalfSecond, Clock, evidence_vars, vars
<1> QED  BY <1>1, <1>2 DEF EvidenceNext, ClaimsNothing

LEMMA ClaimsStep ==
  ASSUME Base, FilesExist, FilesExist', ClaimsInv, StandsFirst, DirectsDoNotScan,
         [EvidenceNext]_evidence_vars
  PROVE  ClaimsInv'
<1> DEFINE P == ElementsOf(queue[PerceptionInbox])
           ScanWaits == \E e \in Commanded : IsScan(e)
<1>0. timing' = timing
  BY TimingStays DEF Base
<1>1. SUFFICES ASSUME Orderly PROVE ScansLater' /\ StepsLater' /\ Unclaimed' /\ LinkedOnce'
  BY <1>0 DEF ClaimsInv, Orderly
<1>2. /\ QueuesInv /\ ReportInv /\ EndingsReported /\ PathsInv
      /\ ScansLater /\ StepsLater /\ Unclaimed /\ LinkedOnce
      /\ now \in Nat /\ ReportedIds \subseteq 0..now
  BY <1>1 DEF Base, ClaimsInv, QueuesInv, MissionInv, MissionTypeOK, FilesExist
<1>3. ASSUME UNCHANGED <<missions, evidence_artifacts>>
      PROVE  ReportedIds' = ReportedIds /\ LinkedOnce'
  BY <1>2, <1>3 DEF ReportedIds, LinkedOnce
<1>4. ASSUME UNCHANGED <<missions, now>>, ScanWaits' => ScanWaits PROVE ScansLater'
  BY <1>2, <1>4, ReportsStay DEF ScansLater
<1>5. ASSUME UNCHANGED <<missions, now, manager>> PROVE StepsLater'
  BY <1>2, <1>5, ReportsStay DEF StepsLater, manager, flags, MayBegin, Stopped
<1>6. ASSUME ~Mission PROVE ScanWaits' => ScanWaits
  BY <1>6, ScansWaiting
<1>7. CASE Mission
  <2>1. /\ UNCHANGED <<missions, collected, report_written, evidence_artifacts, now>>
        /\ queue'[PerceptionInbox] = queue[PerceptionInbox]
    BY <1>2, <1>7, ClaimsKept DEF ClaimsNothing
  <2>2. StepsLater'
    BY <1>2, <1>3, <1>7, <2>1, StandsLater
  <2>3. ScansLater'
    <3>1. CASE ScanWaits' => ScanWaits
      BY <1>4, <2>1, <3>1
    <3>2. CASE ScanWaits' /\ ~ScanWaits
      <4>1. /\ ~MayBegin' /\ StepAt(current_step_index').target = "payload"
            /\ StepAt(current_step_index').payload_type = CameraType
            /\ StepAt(current_step_index').command_type = "scan"
        BY <3>2, ScansWaiting
      <4>2. current_step_index' # 0
        BY <4>1 DEF StandsFirst
      <4> QED  BY <2>2, <4>1, <4>2 DEF StepsLater, ScansLater
    <3> QED  BY <3>1, <3>2
  <2>4. Unclaimed'
    BY <1>2, <1>3, <2>1 DEF Unclaimed
  <2> QED  BY <1>3, <2>1, <2>2, <2>3, <2>4
<1>8. CASE \/ \E msg \in DirectPayloads : DirectPayload(msg)
           \/ Forward \/ ShowState \/ UNCHANGED evidence_vars
  <2>1. /\ UNCHANGED <<missions, collected, report_written, evidence_artifacts, now>>
        /\ queue'[PerceptionInbox] = queue[PerceptionInbox]
    BY <1>2, <1>8, ClaimsKept DEF ClaimsNothing, evidence_vars, vars, reporter
  <2>2. UNCHANGED manager
    BY <1>2, <1>8, ForwardEffect, ShowStateEffect, DirectEffect DEF Passes, evidence_vars, vars
  <2>3. Unclaimed'
    BY <1>2, <1>3, <2>1 DEF Unclaimed
  <2> QED  BY <1>3, <1>4, <1>5, <1>6, <1>7, <2>1, <2>2, <2>3
<1>9. ASSUME NEW c \in Inboxes, Gather(c)
      PROVE  ScansLater' /\ StepsLater' /\ Unclaimed' /\ LinkedOnce'
  <2>1. UNCHANGED <<missions, evidence_artifacts, manager, now>>
    BY <1>2, <1>9, GatheredNames, GatherEffect
  <2>2. /\ P' \subseteq P
        /\ \A a \in Named(collected') :
             \/ a \in Named(collected) /\ report_written' = report_written
             \/ \E e \in P : e.artifact_id = a
    BY <1>2, <1>9, GatheredNames
  <2>3. Unclaimed'
    BY <1>2, <1>3, <2>1, <2>2 DEF Unclaimed
  <2> QED  BY <1>3, <1>4, <1>5, <1>6, <1>7, <2>1, <2>3
<1>10. CASE Scan
  <2>1. /\ UNCHANGED <<missions, collected, report_written, evidence_artifacts, now>>
        /\ \A e \in P' : e \in P \/ (e.artifact_id = now /\ ScanWaits)
    BY <1>2, <1>10, PhotographedNames
  <2>2. UNCHANGED manager
    BY <1>2, <1>10, ScanEffect DEF Passes
  <2>3. ScanWaits => now \notin ReportedIds
    BY <1>2 DEF ScansLater
  <2>4. Unclaimed'
    BY <1>2, <1>3, <2>1, <2>3 DEF Unclaimed
  <2> QED  BY <1>3, <1>4, <1>5, <1>6, <1>7, <2>1, <2>2, <2>4
<1>11. CASE Clock
  <2>1. /\ UNCHANGED <<missions, collected, report_written, evidence_artifacts, queue>>
        /\ now' = now + 1
        /\ UNCHANGED <<current_step_index, current_step_started, flags>>
    BY <1>2, <1>11, ClockKeeps DEF reporter, Clock, ClockTick
  <2>2. ReportedIds' = ReportedIds /\ LinkedOnce' /\ Unclaimed'
    BY <1>2, <1>3, <2>1 DEF Unclaimed
  <2>3. \A a \in ReportedIds : a < now' /\ (a < now => a < now')
    BY <1>2, <2>1
  <2>4. ScansLater'
    BY <2>2, <2>3 DEF ScansLater
  <2>5. StepsLater'
    <3>1. \A a \in ReportedIds :
            ~MayBegin => IF current_step_index = 0 THEN a <= current_step_started ELSE a < now
      BY <1>2 DEF StepsLater
    <3>2. (~MayBegin)' => ~MayBegin
      BY <2>1 DEF MayBegin, Stopped, flags
    <3> QED  BY <2>1, <2>2, <2>3, <3>1, <3>2 DEF StepsLater
  <2> QED  BY <2>2, <2>4, <2>5
<1>12. CASE Write
  <2>1. /\ UNCHANGED <<manager, now, queue, collected>>
        /\ report_timer /\ report_written = FALSE /\ Delivered
    BY <1>1, <1>2, <1>12, WriteAdds DEF Orderly
  <2>2. Commanded' = {} /\ P' = {}
    BY <2>1, Empty, PathBoxes DEF Delivered, Commanded
  <2>3. Stopped' /\ ScansLater'
    BY <1>1, <1>2, <2>1, <2>2 DEF EndingsReported, Orderly, ScansLater, manager, flags, Stopped
  <2>4. StepsLater'
    BY <2>3 DEF StepsLater, MayBegin
  <2>5. CASE UNCHANGED <<missions, evidence_artifacts, report_written>>
    BY <1>2, <1>3, <2>1, <2>2, <2>3, <2>4, <2>5 DEF Unclaimed
  <2>6. ASSUME NEW m, Adds(m) PROVE LinkedOnce' /\ Unclaimed'
    <3>1. report_written' = TRUE
      BY <2>6 DEF Adds
    <3> QED  BY <1>2, <2>1, <2>2, <2>6, <3>1, WrittenClaims DEF Unclaimed
  <2> QED  BY <1>2, <1>12, <2>3, <2>4, <2>5, <2>6, WriteAdds
<1> QED  BY <1>7, <1>8, <1>9, <1>10, <1>11, <1>12 DEF EvidenceNext

LEMMA EvidenceClaimed ==
  ASSUME StandsFirst, DirectsDoNotScan
  PROVE  EvidenceSafety => [](Base /\ FilesExist /\ ClaimsInv)
<1> DEFINE All == Base /\ FilesExist /\ ClaimsInv
<1>1. EvidenceInit => All
  BY InitBase, InitFiles, InitClaims
<1>2. All /\ [EvidenceNext]_evidence_vars => All'
  BY BaseStep, FilesStep, ClaimsStep, DirectsTyped
<1> QED  BY <1>1, <1>2, PTL DEF EvidenceSafety

LEMMA NamedPerceived == \A m : Named(m.records) = {e.artifact_id : e \in Perceived(m)}
BY DEF Named, Perceived, Collected

\* While the report's timer fires once the topics are drained and operators wait
\* for reports, what a report of the database names as evidence stays there and
\* stays linked to it: persist_evidence_artifacts' INSERT OR REPLACE takes no
\* artifact away from an earlier report.
THEOREM EvidenceStaysLinked ==
  ASSUME StandsFirst, DirectsDoNotScan
  PROVE  EvidenceSafety => [](Orderly => EvidenceLinked)
<1>1. Base /\ FilesExist /\ ClaimsInv => (Orderly => EvidenceLinked)
  <2> SUFFICES ASSUME FilesExist, ClaimsInv, Orderly PROVE EvidenceLinked
    OBVIOUS
  <2>1. \A m \in missions : \A a \in Named(m.records) :
          /\ a \in artifact_files
          /\ [artifact_id |-> a, report_id |-> m.report_id] \in evidence_artifacts
    BY DEF FilesExist, ReportedIds, ClaimsInv, LinkedOnce
  <2> QED  BY <2>1, NamedPerceived DEF EvidenceLinked
<1> QED  BY <1>1, EvidenceClaimed, PTL

\* Under the same conditions, no two reports name the same artifact, although
\* artifact ids are but seconds.
THEOREM EvidenceOfOne ==
  ASSUME StandsFirst, DirectsDoNotScan
  PROVE  EvidenceSafety => [](Orderly => EvidenceOfOneReport)
<1>1. Base /\ FilesExist /\ ClaimsInv => (Orderly => EvidenceOfOneReport)
  BY NamedPerceived DEF ClaimsInv, LinkedOnce, EvidenceOfOneReport
<1> QED  BY <1>1, EvidenceClaimed, PTL

-----------------------------------------------------------------------------
(* Nothing is lost on the way from a request to its evidence.               *)

\* A queue with room for what is added has all of it.
LEMMA NothingLost ==
  ASSUME NEW q, NEW t, NEW after, IsList(q), IsList(t), Grown(after, q, t), Len(q) + Len(t) <= Depth
  PROVE  ElementsOf(q) \cup ElementsOf(t) \subseteq ElementsOf(after)
<1> DEFINE x == Len(q)
           y == Len(t)
           z == Len(after)
<1>1. x \in Nat /\ y \in Nat
  BY LenProperties DEF IsList
<1>2. PICK k \in 0..(x + y) :
       /\ z = x + y - k
       /\ \A i \in 1..z : after[i] = IF i + k <= x THEN q[i + k] ELSE t[i + k - x]
       /\ x + y <= Depth => k = 0
  BY DEF Grown
<1>3. x + y <= Depth
  OBVIOUS
<1> HIDE DEF x, y, z
<1>4. k = 0 /\ z = x + y
  BY <1>1, <1>2, <1>3
<1>5. \A i \in 1..x : i \in 1..z /\ after[i] = q[i]
  <2> SUFFICES ASSUME NEW i \in 1..x PROVE i \in 1..z /\ after[i] = q[i]
    OBVIOUS
  <2>1. i \in 1..z /\ i + k <= x /\ i + k = i
    BY <1>1, <1>4
  <2> QED  BY <1>2, <2>1
<1>6. \A j \in 1..y : x + j \in 1..z /\ after[x + j] = t[j]
  <2> SUFFICES ASSUME NEW j \in 1..y PROVE x + j \in 1..z /\ after[x + j] = t[j]
    OBVIOUS
  <2>1. x + j \in 1..z /\ ~(x + j + k <= x) /\ x + j + k - x = j
    BY <1>1, <1>4
  <2> QED  BY <1>2, <2>1
<1> QED  BY <1>5, <1>6 DEF ElementsOf, x, y, z

\* Requests on their way to the camera, and what of theirs waits on channel c.
Passing(c) == Len(queue[PayloadInbox]) + Len(queue[CameraInbox]) + Len(queue[c])

\* While operators wait, every command and every step of the mission has but one
\* request under way.
PathsFit ==
  timing.operator_waits =>
    \A c \in {PerceptionInbox, ResultInbox} : Passing(c) <= commands + StepsTold

LEMMA PathLengths ==
  ASSUME QueuesInv, PathsInv
  PROVE  /\ Len(queue[PayloadInbox]) \in Nat /\ Len(queue[CameraInbox]) \in Nat
         /\ \A c \in Inboxes : Len(queue[c]) \in Nat
<1>1. \A s : IsList(s) => Len(s) \in Nat
  BY LenProperties DEF IsList
<1> QED  BY <1>1 DEF QueuesInv, PathsInv

LEMMA StepsToldNext == MissionInv' => StepsTold' \in 0..Len(Steps)
<1>1. Len(Steps) \in Nat /\ (MissionInv' => MayBegin' \/ current_step_index' \in 0..Len(Steps))
  BY MissionAssumption DEF MissionInv, MissionTypeOK, FlowOK, MayBegin
<1> QED  BY <1>1 DEF StepsTold

LEMMA WithinRoom ==
  \A x, y, m, n, d \in Nat : x <= m /\ y <= n /\ m + n <= d => x + y <= d
OBVIOUS

\* The room that the commands and steps to come leave.
LEMMA RoomLeft ==
  ASSUME StatesFit, QueuesInv
  PROVE  commands \in Nat /\ StepsTold \in Nat /\ commands + StepsTold <= Depth /\ Depth \in Nat
<1>1. Len(Steps) \in Nat /\ StepsTold \in Nat /\ StepsTold <= Len(Steps)
  <2>1. Len(Steps) \in Nat /\ StepsTold \in 0..Len(Steps)
    BY StepsToldBounded DEF QueuesInv
  <2> QED  BY <2>1
<1>2. commands \in Nat /\ commands <= MaxCommands /\ MaxCommands \in Nat /\ Depth \in Nat
  <2>1. commands \in 0..MaxCommands
    BY DEF QueuesInv
  <2> QED  BY <2>1, TimingAssumption, DepthAssumption
<1>3. MaxCommands + Len(Steps) <= Depth
  BY DEF StatesFit
<1> QED  BY <1>1, <1>2, <1>3, WithinRoom

LEMMA RoomLeftNext ==
  ASSUME StatesFit, QueuesInv'
  PROVE  commands' \in Nat /\ StepsTold' \in Nat /\ commands' + StepsTold' <= Depth
<1>1. Len(Steps) \in Nat /\ StepsTold' \in Nat /\ StepsTold' <= Len(Steps)
  BY StepsToldNext, MissionAssumption DEF QueuesInv
<1>2. commands' \in Nat /\ commands' <= MaxCommands /\ MaxCommands \in Nat /\ Depth \in Nat
  BY TimingAssumption, DepthAssumption DEF QueuesInv
<1>3. MaxCommands + Len(Steps) <= Depth
  BY DEF StatesFit
<1> QED  BY <1>1, <1>2, <1>3, WithinRoom

\* Where the mission manager finds room for one more request.
LEMMA MissionRoom ==
  ASSUME OperatorsStart, StatesFit, QueuesInv, QueuesInv', PathsInv, PathsFit, timing.operator_waits,
         Mission
  PROVE  /\ \A c \in {PerceptionInbox, ResultInbox} : Passing(c) + 1 <= commands' + StepsTold'
         /\ MayBegin => Delivered
<1> DEFINE n == commands + StepsTold
           m == commands' + StepsTold'
<1>0. /\ commands \in Nat /\ StepsTold \in Nat /\ commands' \in Nat /\ StepsTold' \in Nat
      /\ n \in Nat /\ m \in Nat /\ MissionInv
  BY RoomLeft, RoomLeftNext, Sum DEF QueuesInv
<1>1. \A c \in {PerceptionInbox, ResultInbox} : Passing(c) \in Nat /\ Passing(c) <= n
  <2>1. \A c \in {PerceptionInbox, ResultInbox} : Passing(c) \in Nat
    BY PathLengths, PathBoxes, Sum DEF Passing
  <2> QED  BY <2>1 DEF PathsFit
<1>2. ASSUME n + 1 <= m
      PROVE  \A c \in {PerceptionInbox, ResultInbox} : Passing(c) + 1 <= m
  <2> SUFFICES ASSUME NEW c \in {PerceptionInbox, ResultInbox} PROVE Passing(c) + 1 <= m
    OBVIOUS
  <2> DEFINE x == Passing(c)
  <2>1. x \in Nat /\ x <= n
    BY <1>1
  <2> HIDE DEF x, n, m
  <2>2. x + 1 <= m
    BY <1>0, <1>2, <2>1
  <2> QED  BY <2>2 DEF x
<1>3. ASSUME Delivered, 1 <= m
      PROVE  \A c \in {PerceptionInbox, ResultInbox} : Passing(c) + 1 <= m
  <2>1. \A c \in {PerceptionInbox, ResultInbox} : Passing(c) = 0
    <3>1. /\ queue[PayloadInbox] = << >> /\ queue[CameraInbox] = << >>
          /\ queue[PerceptionInbox] = << >> /\ queue[ResultInbox] = << >>
      BY <1>3, PathBoxes DEF Delivered
    <3>2. Len(<< >>) = 0 /\ 0 + 0 = 0
      OBVIOUS
    <3> QED  BY <3>1, <3>2 DEF Passing
  <2> HIDE DEF m
  <2> QED  BY <1>0, <1>3, <2>1
<1>4. ASSUME NEW msg \in MissionCommands, Obey(msg)
      PROVE  (MayBegin /\ Delivered /\ 1 <= m) \/ (~MayBegin /\ n + 1 <= m)
  <2>1. commands' = commands + 1 /\ HandleMissionCommand(msg, queue) /\ (MayBegin => Delivered)
    BY <1>4 DEF Obey, Settled
  <2>2. CommandMoves
    BY <1>0, <2>1, CommandsMove
  <2>3. MayBegin \/ StepsTold <= StepsTold'
    <3>1. CASE Unmoved
      <4>1. (MayBegin' <=> MayBegin) /\ current_step_index' = current_step_index
        BY <3>1, UnmovedEffect DEF FlagsKept, MayBegin, Stopped
      <4>2. StepsTold' = StepsTold
        BY <4>1 DEF StepsTold
      <4> QED  BY <1>0, <4>2
    <3> QED  BY <2>2, <3>1 DEF CommandMoves
  <2>4. StepsTold <= StepsTold' => n + 1 <= m
    <3>1. commands + 1 <= commands'
      BY <1>0, <2>1
    <3> QED  BY <1>0, <3>1, Grows
  <2>5. 1 <= m
    <3> DEFINE p == StepsTold'
    <3>1. p \in Nat /\ m = commands + 1 + p
      BY <1>0, <2>1
    <3> HIDE DEF p, m
    <3> QED  BY <1>0, <3>1
  <2> QED  BY <2>1, <2>3, <2>4, <2>5
<1>5. CASE Advance
  <2>1. commands' = commands /\ Tick(queue)
    BY <1>5 DEF Advance
  <2>2. StepsTold + 1 <= StepsTold'
    BY <1>0, <2>1, TicksMove DEF TickMoves, OperatorsStart
  <2>3. ~MayBegin
    BY <2>1 DEF Tick, AutoStartMission, AdvanceStep, OperatorsStart, MayBegin
  <2>4. commands <= commands'
    BY <1>0, <2>1
  <2>5. n + 1 <= m
    BY <1>0, <2>2, <2>4, Grows
  <2> QED  BY <1>2, <2>3, <2>5
<1> HIDE DEF n, m
<1>6. (MayBegin /\ Delivered /\ 1 <= m) \/ (~MayBegin /\ n + 1 <= m) \/ Advance
  BY <1>4 DEF Mission
<1> QED  BY <1>2, <1>3, <1>5, <1>6 DEF m

\* Sums of three lengths, as a step changes them.
LEMMA Passed ==
  ASSUME NEW x \in Nat, NEW y \in Nat, NEW z \in Nat, NEW a \in Nat, NEW b \in Nat, NEW c \in Nat,
         NEW n \in Nat, NEW m \in Nat, NEW d \in Nat, x + y + z <= n, n <= d
  PROVE  /\ a <= x /\ b <= y /\ c <= z /\ n <= m => a + b + c <= m
         /\ a = x - 1 /\ b <= y + 1 /\ c <= z /\ n <= m => a + b + c <= m /\ y + 1 <= d
         /\ a <= x /\ b = y - 1 /\ c <= z + 1 /\ n <= m => a + b + c <= m /\ z + 1 <= d
         /\ a <= x + 1 /\ b <= y /\ c <= z /\ m <= d /\ x + y + z + 1 <= m
              => a + b + c <= m /\ x + 1 <= d
OBVIOUS

LEMMA ListLengths ==
  ASSUME NEW q, NEW t, NEW after, IsList(q), IsList(t), Grown(after, q, t), NEW k \in Nat, Len(t) <= k
  PROVE  Len(after) \in Nat /\ Len(after) <= Len(q) + k
<1>1. Len(t) \in Nat /\ Len(q) \in Nat
  BY LenProperties DEF IsList
<1>2. Len(after) \in Nat /\ Len(after) <= Len(q) + Len(t)
  BY <1>1, GrownLength
<1> QED  BY <1>1, <1>2, AtMost

\* A request of the mission waits with those that waited.
LEMMA AskedFits ==
  ASSUME OperatorsStart, StatesFit, QueuesInv, QueuesInv', PathsInv, PathsInv', PathsFit,
         timing.operator_waits, Mission, queue' # queue
  PROVE  /\ PathsFit'
         /\ queue'[CameraInbox] = queue[CameraInbox]
         /\ \A c \in Inboxes : c.topic \notin MissionTopics => queue'[c] = queue[c]
         /\ \E events, payload :
              /\ Asks(events, payload)
              /\ ElementsOf(queue[PayloadInbox]) \cup ElementsOf(payload)
                   \subseteq ElementsOf(queue'[PayloadInbox])
              /\ ElementsOf(queue'[EventInbox])
                   \subseteq ElementsOf(queue[EventInbox]) \cup ElementsOf(events)
<1> DEFINE P == queue[PayloadInbox]
           C == queue[CameraInbox]
           m == commands' + StepsTold'
<1>1. PICK events, payload :
        /\ Asks(events, payload)
        /\ Grown(P', P, payload)
        /\ ElementsOf(queue'[EventInbox]) \subseteq ElementsOf(queue[EventInbox]) \cup ElementsOf(events)
  BY MissionAsks DEF AskedEffect
<1>2. /\ C' = C
      /\ \A c \in Inboxes : c.topic \notin MissionTopics => queue'[c] = queue[c]
  BY MissionAsks DEF AskedEffect
<1>3. \A c \in {PerceptionInbox, ResultInbox} : queue'[c] = queue[c] /\ c \in Inboxes
  BY <1>2, PathBoxes DEF MissionTopics
<1>4. IsList(payload) /\ Len(payload) \in Nat /\ Len(payload) <= 1
  <2>1. payload = << >> \/ \E e : payload = <<e>>
    BY <1>1 DEF Asks
  <2>2. IsList(payload) /\ (Len(payload) = 0 \/ Len(payload) = 1)
    BY <2>1, Single, Empty
  <2> DEFINE y == Len(payload)
  <2>3. y = 0 \/ y = 1
    BY <2>2
  <2> HIDE DEF y
  <2>4. y \in Nat /\ y <= 1
    BY <2>3
  <2> QED  BY <2>2, <2>4 DEF y
<1>5. IsList(P) /\ Len(P) \in Nat /\ Len(C) \in Nat /\ \A c \in Inboxes : Len(queue[c]) \in Nat
  BY PathLengths DEF PathsInv
<1>6. Len(P') \in Nat /\ Len(P') <= Len(P) + 1
  BY <1>1, <1>4, <1>5, ListLengths
<1>7. m \in Nat /\ m <= Depth /\ Depth \in Nat
  BY RoomLeft, RoomLeftNext, Sum
<1>8. \A c \in {PerceptionInbox, ResultInbox} : Passing(c)' <= m /\ Len(P) + 1 <= Depth
  <2> SUFFICES ASSUME NEW c \in {PerceptionInbox, ResultInbox}
               PROVE  Passing(c)' <= m /\ Len(P) + 1 <= Depth
    OBVIOUS
  <2> DEFINE x == Len(P)
             y == Len(C)
             z == Len(queue[c])
             a == Len(P')
  <2>1. x + y + z + 1 <= m
    BY MissionRoom DEF Passing
  <2>2. Passing(c)' = a + y + z
    BY <1>2, <1>3 DEF Passing
  <2>3. x \in Nat /\ y \in Nat /\ z \in Nat /\ a \in Nat /\ a <= x + 1
    BY <1>3, <1>5, <1>6
  <2> HIDE DEF x, y, z, a, m
  <2>4. a + y + z <= m /\ x + 1 <= Depth
    <3>1. x + y + z <= m /\ y <= y /\ z <= z /\ x + y + z \in Nat
      BY <1>7, <2>1, <2>3
    <3> QED  BY <1>7, <2>1, <2>3, <3>1, Passed
  <2> QED  BY <2>2, <2>4 DEF x
<1>9. PathsFit'
  BY <1>8 DEF PathsFit
<1>10. Len(P) + Len(payload) <= Depth
  <2> DEFINE x == Len(P)
             y == Len(payload)
  <2>1. x + 1 <= Depth /\ x \in Nat /\ y \in Nat /\ y <= 1
    BY <1>4, <1>5, <1>8
  <2> HIDE DEF x, y
  <2>2. x + y <= Depth
    BY <1>7, <2>1
  <2> QED  BY <2>2 DEF x, y
<1>11. ElementsOf(P) \cup ElementsOf(payload) \subseteq ElementsOf(P')
  BY <1>1, <1>4, <1>5, <1>10, NothingLost
<1> QED  BY <1>1, <1>2, <1>9, <1>11

\* So does a payload command from elsewhere.
LEMMA DirectFits ==
  ASSUME StatesFit, QueuesInv, QueuesInv', PathsInv, PathsInv', PathsFit,
         timing.operator_waits, NEW msg, DirectPayload(msg)
  PROVE  /\ PathsFit' /\ ElementsOf(queue[PayloadInbox]) \subseteq ElementsOf(queue'[PayloadInbox])
         /\ queue'[CameraInbox] = queue[CameraInbox]
         /\ \A c \in Inboxes : c.topic # "payload/command_request" => queue'[c] = queue[c]
<1> DEFINE P == queue[PayloadInbox]
           C == queue[CameraInbox]
           n == commands + StepsTold
           m == commands' + StepsTold'
<1>1. /\ Grown(P', P, <<msg>>) /\ C' = C /\ UNCHANGED manager /\ commands' = commands + 1
      /\ \A c \in Inboxes : c.topic # "payload/command_request" => queue'[c] = queue[c]
  BY DirectEffect DEF Passes
<1>2. \A c \in {PerceptionInbox, ResultInbox} : queue'[c] = queue[c] /\ c \in Inboxes
  BY <1>1, PathBoxes
<1>3. IsList(P) /\ Len(P) \in Nat /\ Len(C) \in Nat /\ \A c \in Inboxes : Len(queue[c]) \in Nat
  BY PathLengths DEF PathsInv
<1>4. IsList(<<msg>>) /\ Len(<<msg>>) = 1
  BY Single
<1>5. Len(P') \in Nat /\ Len(P') <= Len(P) + 1
  <2> DEFINE one == <<msg>>
  <2>1. Grown(P', P, one) /\ IsList(one) /\ Len(one) <= 1
    BY <1>1, <1>4
  <2> HIDE DEF one
  <2> QED  BY <1>3, <2>1, ListLengths
<1>6. n \in Nat /\ m \in Nat /\ m <= Depth /\ Depth \in Nat
  BY RoomLeft, RoomLeftNext, Sum
<1>7. m = n + 1
  <2> DEFINE p == StepsTold
  <2>1. StepsTold' = p
    BY <1>1 DEF StepsTold, MayBegin, Stopped, manager, flags
  <2>2. p \in Nat /\ commands \in Nat /\ n = commands + p /\ m = (commands + 1) + p
    BY <1>1, <2>1, RoomLeft
  <2> HIDE DEF p, n, m
  <2> QED  BY <2>2
<1>8. \A c \in {PerceptionInbox, ResultInbox} : Passing(c)' <= m /\ Len(P) + 1 <= Depth
  <2> SUFFICES ASSUME NEW c \in {PerceptionInbox, ResultInbox}
               PROVE  Passing(c)' <= m /\ Len(P) + 1 <= Depth
    OBVIOUS
  <2> DEFINE x == Len(P)
             y == Len(C)
             z == Len(queue[c])
             a == Len(P')
  <2>1. x + y + z <= n
    BY DEF PathsFit, Passing
  <2>2. Passing(c)' = a + y + z
    BY <1>1, <1>2 DEF Passing
  <2>3. x \in Nat /\ y \in Nat /\ z \in Nat /\ a \in Nat /\ a <= x + 1
    BY <1>2, <1>3, <1>5
  <2> HIDE DEF x, y, z, a, n, m
  <2>4. a + y + z <= m /\ x + 1 <= Depth
    BY <1>6, <1>7, <2>1, <2>3
  <2> QED  BY <2>2, <2>4 DEF x
<1>9. PathsFit'
  BY <1>8 DEF PathsFit
<1>10. Len(P) + Len(<<msg>>) <= Depth
  BY <1>4, <1>8
<1>11. ElementsOf(P) \subseteq ElementsOf(P')
  BY <1>1, <1>3, <1>4, <1>10, NothingLost
<1> QED  BY <1>1, <1>9, <1>11

\* The queues stay as full as they were, or lose messages.
LEMMA FitsStill ==
  ASSUME QueuesInv, QueuesInv', PathsInv, PathsInv', PathsFit,
         UNCHANGED <<manager, commands, timing, queue[PayloadInbox], queue[CameraInbox]>>,
         \A c \in {PerceptionInbox, ResultInbox} :
           queue'[c] = queue[c] \/ Len(queue'[c]) = Len(queue[c]) - 1
  PROVE  PathsFit'
<1>1. SUFFICES ASSUME timing.operator_waits, NEW c \in {PerceptionInbox, ResultInbox}
               PROVE  Passing(c)' <= commands' + StepsTold'
  BY DEF PathsFit
<1> DEFINE w == Len(queue[PayloadInbox]) + Len(queue[CameraInbox])
           z == Len(queue[c])
           d == Len(queue'[c])
           n == commands + StepsTold
<1>2. w \in Nat /\ z \in Nat /\ d \in Nat /\ (d = z \/ d = z - 1)
  <2>1. IsList(queue'[c])
    BY PathBoxes DEF QueuesInv
  <2>2. d \in Nat
    BY <2>1, LenProperties DEF IsList
  <2> QED  BY <2>2, PathLengths, PathBoxes, Sum
<1>3. StepsTold' = StepsTold /\ commands' = commands
  BY DEF StepsTold, MayBegin, Stopped, manager, flags
<1>4. w + z <= n
  BY <1>1 DEF PathsFit, Passing
<1>5. Passing(c)' = w + d /\ commands' + StepsTold' = n
  BY <1>3 DEF Passing
<1>6. n \in Nat
  <2>1. commands \in Nat /\ StepsTold \in Nat
    <3>1. StepsTold \in 0..Len(Steps) /\ commands \in 0..MaxCommands
      BY StepsToldBounded DEF QueuesInv
    <3> QED  BY <3>1
  <2> QED  BY <2>1, Sum
<1> HIDE DEF w, z, d, n
<1>7. w + d <= n
  BY <1>2, <1>4, <1>6
<1> QED  BY <1>5, <1>7

\* A request that is allowed goes on to the camera, and none is lost there.
LEMMA ForwardFits ==
  ASSUME StatesFit, QueuesInv, QueuesInv', PathsInv, PathsInv', PathsFit, timing.operator_waits, Forward
  PROVE  /\ PathsFit'
         /\ \A c \in Inboxes : c.topic \notin {"payload/command", "safety/events"} => queue'[c] = queue[c]
         /\ \E msg :
              /\ ElementsOf(queue[PayloadInbox]) = ElementsOf(queue'[PayloadInbox]) \cup {msg}
              /\ ElementsOf(queue[CameraInbox]) \subseteq ElementsOf(queue'[CameraInbox])
              /\ Allowed(msg) => \/ msg \in ElementsOf(queue'[CameraInbox])
                                 \/ Shortened(msg) \in ElementsOf(queue'[CameraInbox])
<1> DEFINE P == queue[PayloadInbox]
           C == queue[CameraInbox]
           n == commands + StepsTold
<1>1. PICK msg, sent :
        /\ ElementsOf(P) = ElementsOf(P') \cup {msg}
        /\ IsList(sent) /\ Grown(C', C, sent)
        /\ \/ ~Allowed(msg) /\ sent = << >>
           \/ Allowed(msg) /\ (sent = <<msg>> \/ sent = <<Shortened(msg)>>)
  BY ForwardEffect
<1>2. /\ Len(P') = Len(P) - 1 /\ UNCHANGED <<manager, commands>>
      /\ \A c \in Inboxes : c.topic \notin {"payload/command", "safety/events"} => queue'[c] = queue[c]
  BY ForwardEffect DEF Passes
<1>3. \A c \in {PerceptionInbox, ResultInbox} : queue'[c] = queue[c] /\ c \in Inboxes
  BY <1>2, PathBoxes
<1>4. Len(sent) \in Nat /\ Len(sent) <= 1
  <2> DEFINE y == Len(sent)
  <2>1. y = 0 \/ y = 1
    BY <1>1, Single, Empty
  <2> HIDE DEF y
  <2>2. y \in Nat /\ y <= 1
    BY <2>1
  <2> QED  BY <2>2 DEF y
<1>5. IsList(P') /\ IsList(C) /\ Len(P) \in Nat /\ Len(C) \in Nat /\ \A c \in Inboxes : Len(queue[c]) \in Nat
  BY PathLengths DEF PathsInv
<1>6. Len(C') \in Nat /\ Len(C') <= Len(C) + 1
  BY <1>1, <1>4, <1>5, ListLengths
<1>7. n \in Nat /\ n <= Depth /\ Depth \in Nat
  BY RoomLeft, Sum
<1>8. StepsTold' = StepsTold /\ commands' = commands
  BY <1>2 DEF StepsTold, MayBegin, Stopped, manager, flags
<1>9. \A c \in {PerceptionInbox, ResultInbox} : Passing(c)' <= n /\ Len(C) + 1 <= Depth
  <2> SUFFICES ASSUME NEW c \in {PerceptionInbox, ResultInbox}
               PROVE  Passing(c)' <= n /\ Len(C) + 1 <= Depth
    OBVIOUS
  <2> DEFINE x == Len(P)
             y == Len(C)
             z == Len(queue[c])
             a == Len(P')
             b == Len(C')
  <2>1. x + y + z <= n
    BY DEF PathsFit, Passing
  <2>2. Passing(c)' = a + b + z
    BY <1>3 DEF Passing
  <2>3. x \in Nat /\ y \in Nat /\ z \in Nat /\ a = x - 1 /\ b \in Nat /\ b <= y + 1
    BY <1>2, <1>3, <1>5, <1>6
  <2>4. a \in Nat
    BY <1>5, LenProperties DEF IsList
  <2> HIDE DEF x, y, z, a, b, n
  <2>5. a + b + z <= n /\ y + 1 <= Depth
    BY <1>7, <2>1, <2>3, <2>4
  <2> QED  BY <2>2, <2>5 DEF y
<1>10. PathsFit'
  BY <1>8, <1>9 DEF PathsFit
<1>11. Len(C) + Len(sent) <= Depth
  <2> DEFINE x == Len(C)
             y == Len(sent)
  <2>1. x + 1 <= Depth /\ x \in Nat /\ y \in Nat /\ y <= 1
    BY <1>4, <1>5, <1>9
  <2> HIDE DEF x, y
  <2>2. x + y <= Depth
    BY <1>7, <2>1
  <2> QED  BY <2>2 DEF x, y
<1>12. ElementsOf(C) \cup ElementsOf(sent) \subseteq ElementsOf(C')
  BY <1>1, <1>5, <1>11, NothingLost
<1>13. Allowed(msg) => msg \in ElementsOf(C') \/ Shortened(msg) \in ElementsOf(C')
  BY <1>1, <1>12, Single
<1> QED  BY <1>1, <1>2, <1>10, <1>12, <1>13

\* What the queues to the report manager show after the camera took msg.
ShownBy(msg) ==
  /\ ElementsOf(queue[CameraInbox]) = ElementsOf(queue'[CameraInbox]) \cup {msg}
  /\ ElementsOf(queue[PerceptionInbox]) \subseteq ElementsOf(queue'[PerceptionInbox])
  /\ ElementsOf(queue[ResultInbox]) \subseteq ElementsOf(queue'[ResultInbox])
  /\ IsScan(msg) => /\ PersonDetected(now, msg.run) \in ElementsOf(queue'[PerceptionInbox])
                    /\ Result(now, msg.run) \in ElementsOf(queue'[ResultInbox])
                    /\ queue'[CameraStateInbox] # << >>
  /\ queue[CameraStateInbox] # << >> => queue'[CameraStateInbox] # << >>
  /\ \A s \in ElementsOf(queue'[CameraStateInbox]) :
       s \in ElementsOf(queue[CameraStateInbox]) \/ s.payload_id = CameraType

LEMMA StateShown ==
  ASSUME QueuesInv, NEW on, NEW state,
         Grown(queue'[CameraStateInbox], queue[CameraStateInbox], <<PayloadState(on, state)>>),
         ElementsOf(queue'[CameraStateInbox])
           \subseteq ElementsOf(queue[CameraStateInbox]) \cup {PayloadState(on, state)}
  PROVE  /\ queue'[CameraStateInbox] # << >>
         /\ \A s \in ElementsOf(queue'[CameraStateInbox]) :
              s \in ElementsOf(queue[CameraStateInbox]) \/ s.payload_id = CameraType
<1> DEFINE said == PayloadState(on, state)
           S == queue[CameraStateInbox]
           T == queue'[CameraStateInbox]
           one == <<said>>
<1>1. said.payload_id = CameraType
  BY DEF PayloadState
<1>2. IsList(S) /\ Len(one) = 1 /\ Grown(T, S, one) /\ ElementsOf(T) \subseteq ElementsOf(S) \cup {said}
  BY PathBoxes, Single DEF QueuesInv
<1> HIDE DEF said, S, T, one
<1>3. Len(S) \in Nat
  BY <1>2, LenProperties DEF IsList
<1>4. Len(T) > 0
  <2>1. Len(S) + Len(one) > 0
    BY <1>2, <1>3
  <2> QED  BY <2>1, <1>2 DEF Grown
<1>5. T # << >>
  BY <1>4, Empty
<1> QED  BY <1>1, <1>2, <1>5 DEF S, T

\* The messages about a scan wait with those that waited.
LEMMA PhotosFit ==
  ASSUME QueuesInv, NEW c \in {PerceptionInbox, ResultInbox}, NEW t, IsList(t), Len(t) \in 0..1,
         Grown(queue'[c], queue[c], t),
         Len(queue[c]) + 1 <= Depth
  PROVE  /\ ElementsOf(queue[c]) \cup ElementsOf(t) \subseteq ElementsOf(queue'[c])
         /\ Len(queue'[c]) \in Nat /\ Len(queue'[c]) <= Len(queue[c]) + 1
<1> DEFINE x == Len(queue[c])
           y == Len(t)
<1>1. IsList(queue[c]) /\ x \in Nat /\ y \in Nat /\ y <= 1 /\ Depth \in Nat /\ x + 1 <= Depth
  <2>1. IsList(queue[c])
    BY PathBoxes DEF QueuesInv
  <2>2. x \in Nat
    BY <2>1, LenProperties DEF IsList
  <2>3. y \in 0..1 /\ x + 1 <= Depth
    OBVIOUS
  <2> HIDE DEF x, y
  <2>4. y \in Nat /\ y <= 1
    BY <2>3
  <2> QED  BY <2>1, <2>2, <2>3, <2>4, DepthAssumption
<1>2. x + y <= Depth
  <2> HIDE DEF x, y
  <2> QED  BY <1>1
<1>3. ElementsOf(queue[c]) \cup ElementsOf(t) \subseteq ElementsOf(queue'[c])
  BY <1>1, <1>2, NothingLost
<1>4. Len(queue'[c]) \in Nat /\ Len(queue'[c]) <= Len(queue[c]) + 1
  BY <1>1, ListLengths
<1> QED  BY <1>3, <1>4

LEMMA ScanFits ==
  ASSUME StatesFit, QueuesInv, QueuesInv', PathsInv, PathsInv', PathsFit, timing.operator_waits, Scan
  PROVE  PathsFit' /\ \E msg : ShownBy(msg)
<1> DEFINE P == queue[PayloadInbox]
           C == queue[CameraInbox]
           n == commands + StepsTold
<1>1. PICK msg : /\ ElementsOf(C) = ElementsOf(C') \cup {msg}
                 /\ Scanned(msg) \/ Configured(msg)
  BY ScanEffect
<1>2. /\ P' = P /\ Len(C') = Len(C) - 1 /\ UNCHANGED <<manager, commands>>
  BY ScanEffect DEF Passes
<1>3. {PerceptionInbox, ResultInbox, CameraStateInbox} \subseteq Inboxes
  BY PathBoxes
<1>4. IsList(C') /\ Len(P) \in Nat /\ Len(C) \in Nat /\ \A c \in Inboxes : Len(queue[c]) \in Nat
  BY PathLengths DEF PathsInv
<1>5. n \in Nat /\ n <= Depth /\ Depth \in Nat
  BY RoomLeft, Sum
<1>6. StepsTold' = StepsTold /\ commands' = commands
  BY <1>2 DEF StepsTold, MayBegin, Stopped, manager, flags
<1>7. \A c \in {PerceptionInbox, ResultInbox} :
        /\ Len(queue[c]) + 1 <= Depth
        /\ Len(queue'[c]) \in Nat /\ Len(queue'[c]) <= Len(queue[c]) + 1 => Passing(c)' <= n
  <2> SUFFICES ASSUME NEW c \in {PerceptionInbox, ResultInbox}
               PROVE  /\ Len(queue[c]) + 1 <= Depth
                      /\ Len(queue'[c]) \in Nat /\ Len(queue'[c]) <= Len(queue[c]) + 1
                           => Passing(c)' <= n
    OBVIOUS
  <2> DEFINE x == Len(P)
             y == Len(C)
             z == Len(queue[c])
             b == Len(C')
             d == Len(queue'[c])
  <2>1. x + y + z <= n
    BY DEF PathsFit, Passing
  <2>2. Passing(c)' = x + b + d
    BY <1>2 DEF Passing
  <2>3. x \in Nat /\ y \in Nat /\ z \in Nat /\ b = y - 1
    BY <1>2, <1>3, <1>4
  <2>4. b \in Nat
    BY <1>4, LenProperties DEF IsList
  <2> HIDE DEF x, y, z, b, d, n
  <2>5. z + 1 <= Depth /\ (d \in Nat /\ d <= z + 1 => x + b + d <= n)
    BY <1>5, <2>1, <2>3, <2>4
  <2> QED  BY <2>2, <2>5 DEF z, d
<1> HIDE DEF n
<1>8. ASSUME \A c \in {PerceptionInbox, ResultInbox} :
               Len(queue'[c]) \in Nat /\ Len(queue'[c]) <= Len(queue[c]) + 1
      PROVE  PathsFit'
  BY <1>6, <1>7, <1>8 DEF PathsFit, n
<1>9. CASE Scanned(msg)
  <2> DEFINE seen == PersonDetected(now, msg.run)
             result == Result(now, msg.run)
  <2>1. Photographs(<<result>>, <<seen>>, TRUE, "scanning")
    BY <1>9 DEF Scanned
  <2> HIDE DEF seen, result
  <2>2. /\ IsList(<<seen>>) /\ IsList(<<result>>) /\ Len(<<seen>>) \in 0..1 /\ Len(<<result>>) \in 0..1
        /\ ElementsOf(<<seen>>) = {seen} /\ ElementsOf(<<result>>) = {result}
    BY Single
  <2>3. /\ ElementsOf(queue[PerceptionInbox]) \cup {seen} \subseteq ElementsOf(queue'[PerceptionInbox])
        /\ Len(queue'[PerceptionInbox]) \in Nat
        /\ Len(queue'[PerceptionInbox]) <= Len(queue[PerceptionInbox]) + 1
    BY <1>7, <2>1, <2>2, PhotosFit DEF Photographs
  <2>4. /\ ElementsOf(queue[ResultInbox]) \cup {result} \subseteq ElementsOf(queue'[ResultInbox])
        /\ Len(queue'[ResultInbox]) \in Nat
        /\ Len(queue'[ResultInbox]) <= Len(queue[ResultInbox]) + 1
    BY <1>7, <2>1, <2>2, PhotosFit DEF Photographs
  <2>5. /\ queue'[CameraStateInbox] # << >>
        /\ \A s \in ElementsOf(queue'[CameraStateInbox]) :
             s \in ElementsOf(queue[CameraStateInbox]) \/ s.payload_id = CameraType
    BY <2>1, StateShown DEF Photographs
  <2>6. ShownBy(msg)
    BY <1>1, <2>3, <2>4, <2>5 DEF ShownBy, seen, result
  <2> QED  BY <1>8, <2>3, <2>4, <2>6
<1>10. CASE Configured(msg)
  <2>0. ~IsScan(msg)
    BY <1>10 DEF Configured
  <2>1. CASE \A c \in Inboxes : queue'[c] = queue[c]
    <3>1. \A c \in {PerceptionInbox, ResultInbox} :
            Len(queue'[c]) \in Nat /\ Len(queue'[c]) <= Len(queue[c]) + 1
      BY <1>3, <1>4, <2>1
    <3>2. ShownBy(msg)
      BY <1>1, <1>3, <2>0, <2>1 DEF ShownBy
    <3> QED  BY <1>8, <3>1, <3>2
  <2>2. ASSUME NEW on, NEW state, Photographs(<< >>, << >>, on, state)
        PROVE  PathsFit' /\ ShownBy(msg)
    <3>1. IsList(<< >>) /\ Len(<< >>) \in 0..1 /\ ElementsOf(<< >>) = {}
      BY Empty
    <3>2. \A c \in {PerceptionInbox, ResultInbox} :
            /\ ElementsOf(queue[c]) \subseteq ElementsOf(queue'[c])
            /\ Len(queue'[c]) \in Nat /\ Len(queue'[c]) <= Len(queue[c]) + 1
      BY <1>7, <2>2, <3>1, PhotosFit DEF Photographs
    <3>3. /\ queue'[CameraStateInbox] # << >>
          /\ \A s \in ElementsOf(queue'[CameraStateInbox]) :
               s \in ElementsOf(queue[CameraStateInbox]) \/ s.payload_id = CameraType
      BY <2>2, StateShown DEF Photographs
    <3>4. ShownBy(msg)
      BY <1>1, <2>0, <3>2, <3>3 DEF ShownBy
    <3> QED  BY <1>8, <3>2, <3>4
  <2> QED  BY <1>10, <2>1, <2>2 DEF Configured
<1> QED  BY <1>1, <1>9, <1>10

\* Of the missions, only those that may begin say that they do.
LEMMA StatesSaid ==
  ASSUME QueuesInv, NEW s, ~Starts(s), NEW events, NEW robot, NEW payload,
         queue' = Deliver(queue, Outbox(<<s>>, events, robot, payload)),
         NEW e \in ElementsOf(queue'[StateInbox]), Starts(e)
  PROVE  e \in ElementsOf(queue[StateInbox])
<1> DEFINE out == Outbox(<<s>>, events, robot, payload)
<1>1. "mission/state" \in DOMAIN out /\ out["mission/state"] = <<s>>
  BY DEF Outbox, MissionTopics
<1>2. queue' = Deliver(queue, out)
  OBVIOUS
<1> HIDE DEF out
<1>3. ElementsOf(queue'[StateInbox]) \subseteq ElementsOf(queue[StateInbox]) \cup {s}
  <2>1. IsList(queue[StateInbox]) /\ IsList(<<s>>) /\ ElementsOf(<<s>>) = {s}
    BY Boxes, Single DEF QueuesInv
  <2>2. StateInbox \in Channels /\ StateInbox.topic = "mission/state"
    BY Boxes
  <2> DEFINE one == <<s>>
  <2>3. out["mission/state"] = one /\ IsList(one) /\ ElementsOf(one) = {s}
    BY <1>1, <2>1
  <2> HIDE DEF one
  <2>4. IsList(out[StateInbox.topic]) /\ StateInbox.topic \in DOMAIN out
    BY <1>1, <2>2, <2>3
  <2>5. ElementsOf(queue'[StateInbox])
          \subseteq ElementsOf(queue[StateInbox]) \cup ElementsOf(out[StateInbox.topic])
    BY <1>2, <2>1, <2>2, <2>4, Arrives
  <2> QED  BY <2>2, <2>3, <2>5
<1> QED  BY <1>3

LEMMA NothingSaid ==
  ASSUME QueuesInv, NEW events, NEW robot, NEW payload,
         queue' = Deliver(queue, Outbox(<< >>, events, robot, payload)),
         NEW e \in ElementsOf(queue'[StateInbox])
  PROVE  e \in ElementsOf(queue[StateInbox])
<1> DEFINE out == Outbox(<< >>, events, robot, payload)
<1>1. "mission/state" \in DOMAIN out /\ out["mission/state"] = << >>
  BY DEF Outbox, MissionTopics
<1>2. queue' = Deliver(queue, out)
  OBVIOUS
<1> HIDE DEF out
<1>3. ElementsOf(queue'[StateInbox]) \subseteq ElementsOf(queue[StateInbox])
  <2>1. IsList(queue[StateInbox])
    BY Boxes DEF QueuesInv
  <2> QED  BY <1>1, <1>2, <2>1, Arrives, Boxes, Empty
<1> QED  BY <1>3

\* A start that waits to be collected.
StartWaits == \E s \in ElementsOf(queue[StateInbox]) : Starts(s)

LEMMA StartsSaid ==
  ASSUME QueuesInv, OperatorsStart, Mission, StartWaits', ~MayBegin
  PROVE  StartWaits
<1>1. PICK e \in ElementsOf(queue'[StateInbox]) : Starts(e)
  BY DEF StartWaits
<1>2. MissionInv
  BY DEF QueuesInv
<1>3. SUFFICES e \in ElementsOf(queue[StateInbox])
  BY <1>1 DEF StartWaits
<1>4. \A state, message, i, r :
        message # "Mission started" => ~Starts(StateMsg(state, message, i, r))
  BY DEF StateMsg, Starts
<1>5. CASE queue' = queue
  BY <1>1, <1>5
<1>6. ASSUME NEW msg \in MissionCommands, Obey(msg), queue' # queue
      PROVE  e \in ElementsOf(queue[StateInbox])
  <2> DEFINE op == msg.operator_id
  <2>1. HandleMissionCommand(msg, queue)
    BY <1>6 DEF Obey
  <2>2. ~NoEffect(queue) /\ ~BeginMission(op, queue)
    BY <1>6 DEF NoEffect, BeginMission
  <2>3. CASE IgnoreStart(op, queue)
    BY <1>1, <2>3, NothingSaid DEF IgnoreStart
  <2>4. CASE RejectCommand(op, queue)
    BY <1>1, <2>4, NothingSaid DEF RejectCommand
  <2>5. CASE PauseMission(op, queue)
    BY <1>1, <1>4, <2>5, StatesSaid DEF PauseMission
  <2>6. CASE CancelMission(op, queue)
    BY <1>1, <1>4, <2>6, StatesSaid DEF CancelMission, CancelOutbox
  <2>7. CASE ResetMission(op, queue)
    <3> DEFINE robot == IF mission_started /\ ~Stopped THEN <<StopCommand(op, run)>> ELSE << >>
               said == StateMsg("ready", "Mission reset", -1, run)
               event == EventMsg("mission_reset", op, run)
    <3>1. queue' = Deliver(queue, Outbox(<<said>>, <<event>>, robot, << >>)) /\ ~Starts(said)
      BY <1>4, <2>7 DEF ResetMission, ResetOutbox
    <3> HIDE DEF robot, said, event
    <3> QED  BY <1>1, <3>1, StatesSaid
  <2>8. CASE ResumeMission(op, queue)
    <3>1. queue' = Deliver(queue, StepOutbox(StateMsg("running", "Mission resumed", current_step_index, run),
                                             "mission_resumed", current_step_index, op, run))
      BY <1>2, <2>8 DEF ResumeMission, MissionInv, FlowOK, Stopped
    <3> QED  BY <1>1, <1>4, <3>1, StatesSaid DEF StepOutbox
  <2> QED  BY <2>1, <2>2, <2>3, <2>4, <2>5, <2>6, <2>7, <2>8 DEF HandleMissionCommand
<1>7. CASE Advance
  <2>1. AdvanceStep(queue)
    BY <1>7 DEF Advance, Tick, AutoStartMission, OperatorsStart
  <2>2. CASE NextStep(queue)
    <3> DEFINE i == current_step_index + 1
               op == current_operator_id
    <3>1. queue' = Deliver(queue, StepOutbox(StateMsg("running", "Running step", i, run),
                                             "step_started", i, op, run))
      BY <2>2 DEF NextStep
    <3> HIDE DEF i
    <3> QED  BY <1>1, <1>4, <3>1, StatesSaid DEF StepOutbox
  <2>3. CASE CompleteMission(queue)
    BY <1>1, <1>4, <2>3, StatesSaid DEF CompleteMission
  <2> QED  BY <2>1, <2>2, <2>3 DEF AdvanceStep
<1> QED  BY <1>5, <1>6, <1>7 DEF Mission

-----------------------------------------------------------------------------
(* The evidence of a request.                                               *)

\* The records of a topic among some records.
OfTopic(records, topic) == {r[2] : r \in {e \in records : e[1] = topic}}

LEMMA OfNone == \A t : OfTopic({}, t) = {}
BY DEF OfTopic

LEMMA OfMore ==
  ASSUME NEW records, NEW t, NEW e, NEW u, NEW f
  PROVE  f \in OfTopic(records \cup {<<t, e>>}, u) <=> f \in OfTopic(records, u) \/ (u = t /\ f = e)
<1> DEFINE pair == <<t, e>>
<1>1. pair[1] = t /\ pair[2] = e
  OBVIOUS
<1> HIDE DEF pair
<1>2. \A some, v : f \in OfTopic(some, v) <=> \E x \in some : x[1] = v /\ x[2] = f
  BY DEF OfTopic
<1>3. f \in OfTopic(records \cup {pair}, u) <=> f \in OfTopic(records, u) \/ (u = t /\ f = e)
  BY <1>1, <1>2
<1> QED  BY <1>3 DEF pair

\* A scan of run r is on its way to the camera.
Awaited(q, r) ==
  \E c \in ElementsOf(q[PayloadInbox]) \cup ElementsOf(q[CameraInbox]) : IsScan(c) /\ c.run = r

\* An event of run r, and a result that names the same artifact.
Shows(events, results, r) ==
  \E e \in events : e.run = r /\ \E s \in results : s.artifact_id = e.artifact_id

Posed(states) == \E s \in states : s[1] = CameraType

Seen(q, records, topic) == ElementsOf(q[Inbox(topic)]) \cup OfTopic(records, topic)

\* A scan of run r is on its way, or its messages are: they wait, or are collected.
Evident(q, r, records, states) ==
  \/ Awaited(q, r)
  \/ /\ Shows(Seen(q, records, "perception/events"), Seen(q, records, "payload/result"), r)
     /\ q[CameraStateInbox] # << >> \/ Posed(states)

LEMMA StillEvident ==
  ASSUME NEW q, NEW r, NEW records, NEW states, Evident(q, r, records, states),
         NEW qq, NEW after, NEW newer,
         Awaited(q, r) => Evident(qq, r, after, newer),
         Seen(q, records, "perception/events") \subseteq Seen(qq, after, "perception/events"),
         Seen(q, records, "payload/result") \subseteq Seen(qq, after, "payload/result"),
         q[CameraStateInbox] # << >> \/ Posed(states) => qq[CameraStateInbox] # << >> \/ Posed(newer)
  PROVE  Evident(qq, r, after, newer)
<1>1. CASE Awaited(q, r)
  BY <1>1
<1>2. CASE /\ Shows(Seen(q, records, "perception/events"), Seen(q, records, "payload/result"), r)
           /\ q[CameraStateInbox] # << >> \/ Posed(states)
  <2>1. Shows(Seen(qq, after, "perception/events"), Seen(qq, after, "payload/result"), r)
    BY <1>2 DEF Shows
  <2> QED  BY <1>2, <2>1 DEF Evident
<1> QED  BY <1>1, <1>2 DEF Evident

\* What the queues alone show is shown with whatever is collected.
LEMMA EvidentAnyway ==
  ASSUME NEW q, NEW r, Evident(q, r, {}, {}), NEW records, NEW states
  PROVE  Evident(q, r, records, states)
<1>1. \A t : Seen(q, {}, t) \subseteq Seen(q, records, t)
  BY OfNone DEF Seen
<1>2. Awaited(q, r) => Evident(q, r, records, states)
  BY DEF Evident
<1>3. ~Posed({})
  BY DEF Posed
<1> QED  BY <1>1, <1>2, <1>3, StillEvident

\* Every request that waits or is collected has its scan or its evidence; no part
\* of what waits is collected before the start it came after.
Followed ==
  /\ \A s \in ElementsOf(queue[CameraStateInbox]) : s.payload_id = CameraType
  /\ \A e \in ElementsOf(queue[EventInbox]) : Requests(e) =>
       /\ Evident(queue, e.run, collected, latest_states)
       /\ StartWaits => Evident(queue, e.run, {}, {})
  /\ report_written = FALSE =>
       \A e \in OfTopic(collected, "mission/events") :
         Requests(e) => Evident(queue, e.run, collected, latest_states)

\* Every row is of a report in the database, which has the evidence of its requests.
Evidenced ==
  \A row \in record_rows :
    /\ \E m \in missions : m.report_id = row.report_id
    /\ row.topic = "mission/events" /\ Requests(row.record) =>
         \A m \in missions : m.report_id = row.report_id =>
           /\ Shows(OfTopic(m.records, "perception/events"), OfTopic(m.records, "payload/result"),
                    row.record.run)
           /\ Posed(m.latest_states)

ScansFollowed == Calm => PathsFit /\ Followed /\ Evidenced

\* Requests that waited keep their evidence, and those that are new have theirs.
LEMMA FollowedAfter ==
  ASSUME Followed, UNCHANGED <<collected, latest_states, report_written>>,
         \A r, records, states : Evident(queue, r, records, states) => Evident(queue', r, records, states),
         \A s \in ElementsOf(queue'[CameraStateInbox]) :
           s \in ElementsOf(queue[CameraStateInbox]) \/ s.payload_id = CameraType,
         \A e \in ElementsOf(queue'[EventInbox]) :
           e \in ElementsOf(queue[EventInbox]) \/ (Requests(e) => Evident(queue', e.run, {}, {})),
         StartWaits' => StartWaits \/ ElementsOf(queue[EventInbox]) = {}
  PROVE  Followed'
<1>1. UNCHANGED <<collected, latest_states, report_written>>
  OBVIOUS
<1>2. \A s \in ElementsOf(queue'[CameraStateInbox]) : s.payload_id = CameraType
  BY DEF Followed
<1>3. ASSUME NEW e \in ElementsOf(queue'[EventInbox]), Requests(e)
      PROVE  /\ Evident(queue', e.run, collected, latest_states)
             /\ StartWaits' => Evident(queue', e.run, {}, {})
  <2>1. CASE e \in ElementsOf(queue[EventInbox])
    BY <1>3, <2>1 DEF Followed
  <2>2. CASE Evident(queue', e.run, {}, {})
    BY <2>2, EvidentAnyway
  <2> QED  BY <1>3, <2>1, <2>2
<1>4. ASSUME report_written = FALSE, NEW e \in OfTopic(collected, "mission/events"), Requests(e)
      PROVE  Evident(queue', e.run, collected, latest_states)
  BY <1>4 DEF Followed
<1> QED  BY <1>1, <1>2, <1>3, <1>4 DEF Followed

\* Steps that take nothing from the queues to the report manager.
LEMMA EvidentAfter ==
  ASSUME ElementsOf(queue[PerceptionInbox]) \subseteq ElementsOf(queue'[PerceptionInbox]),
         ElementsOf(queue[ResultInbox]) \subseteq ElementsOf(queue'[ResultInbox]),
         queue[CameraStateInbox] # << >> => queue'[CameraStateInbox] # << >>,
         \A r : Awaited(queue, r) => Evident(queue', r, {}, {})
  PROVE  \A r, records, states : Evident(queue, r, records, states) => Evident(queue', r, records, states)
<1> SUFFICES ASSUME NEW r, NEW records, NEW states, Evident(queue, r, records, states)
             PROVE  Evident(queue', r, records, states)
  OBVIOUS
<1>1. /\ Seen(queue, records, "perception/events") \subseteq Seen(queue', records, "perception/events")
      /\ Seen(queue, records, "payload/result") \subseteq Seen(queue', records, "payload/result")
  BY DEF Seen, PerceptionInbox, ResultInbox
<1>2. Awaited(queue, r) => Evident(queue', r, records, states)
  BY EvidentAnyway
<1> QED  BY <1>1, <1>2, StillEvident

\* The payload steps of a mission are scans by the camera, as in the shipped
\* missions, and scans are among the commands that the payload manager allows.
OnlyScans ==
  /\ \A i : HasStep(i) /\ StepAt(i).target = "payload" =>
       StepAt(i).payload_type = CameraType /\ StepAt(i).command_type = "scan"
  /\ CameraType \in AllowedPayloadTypes /\ "scan" \in AllowedPayloadCommands

Fitting ==
  /\ QueuesInv /\ QueuesInv' /\ PathsInv /\ PathsInv' /\ PathsFit
  /\ timing.operator_waits

LEMMA FollowedMission ==
  ASSUME OperatorsStart, StatesFit, OnlyScans, Fitting, Followed, Mission
  PROVE  PathsFit' /\ Followed'
<1>0. QueuesInv /\ QueuesInv' /\ PathsInv /\ PathsInv' /\ PathsFit /\ timing.operator_waits
  BY DEF Fitting
<1>1. UNCHANGED <<reporter, timing>>
  BY DEF Mission, Obey, Advance
<1>2. StartWaits' => StartWaits \/ ElementsOf(queue[EventInbox]) = {}
  <2>1. CASE MayBegin
    <3>1. queue[EventInbox] = << >>
      BY <1>0, <2>1, MissionRoom, Boxes DEF Delivered
    <3> QED  BY <3>1, Empty
  <2>2. CASE ~MayBegin
    BY <1>0, <2>2, StartsSaid
  <2> QED  BY <2>1, <2>2
<1>3. CASE queue' = queue
  <2>1. PathsFit'
    <3> DEFINE m == commands' + StepsTold'
    <3>1. \A c \in {PerceptionInbox, ResultInbox} :
            Passing(c)' = Passing(c) /\ Passing(c) + 1 <= m /\ Passing(c) \in Nat
      BY <1>0, <1>3, MissionRoom, PathLengths, PathBoxes, Sum DEF Passing
    <3>2. m \in Nat
      BY <1>0, RoomLeftNext, Sum
    <3> HIDE DEF m
    <3>3. \A c \in {PerceptionInbox, ResultInbox} : Passing(c)' <= m
      BY <3>1, <3>2
    <3> QED  BY <3>3 DEF PathsFit, m
  <2>2. Followed'
    BY <1>1, <1>2, <1>3, FollowedAfter DEF reporter
  <2> QED  BY <2>1, <2>2
<1>4. CASE queue' # queue
  <2>1. PathsFit'
    BY <1>0, <1>4, AskedFits
  <2>2. PICK events, payload :
          /\ Asks(events, payload)
          /\ ElementsOf(queue[PayloadInbox]) \cup ElementsOf(payload) \subseteq ElementsOf(queue'[PayloadInbox])
          /\ ElementsOf(queue'[EventInbox]) \subseteq ElementsOf(queue[EventInbox]) \cup ElementsOf(events)
    BY <1>0, <1>4, AskedFits
  <2>3. /\ queue'[CameraInbox] = queue[CameraInbox]
        /\ \A c \in {PerceptionInbox, ResultInbox, CameraStateInbox} : queue'[c] = queue[c]
    BY <1>0, <1>4, AskedFits, PathBoxes DEF MissionTopics
  <2>4. \A r : Awaited(queue, r) => Evident(queue', r, {}, {})
    BY <2>2, <2>3 DEF Awaited, Evident
  <2>5. \A r, records, states : Evident(queue, r, records, states) => Evident(queue', r, records, states)
    BY <2>3, <2>4, EvidentAfter
  <2>6. \A e \in ElementsOf(events) : Requests(e) => Evident(queue', e.run, {}, {})
    <3> SUFFICES ASSUME NEW e \in ElementsOf(events), Requests(e) PROVE Evident(queue', e.run, {}, {})
      OBVIOUS
    <3>1. e.run = run' /\ \E op : payload = <<PayloadCommand(current_step_index', op, run')>>
      BY <2>2 DEF Asks
    <3>2. PICK c : payload = <<c>>
      BY <3>1
    <3>3. c \in ElementsOf(payload)
      BY <3>2, Single
    <3>4. c.run = run' /\ IsScan(c)
      BY <2>2, <3>3, AskedPayload DEF OnlyScans, IsScan
    <3> QED  BY <2>2, <3>1, <3>3, <3>4 DEF Awaited, Evident
  <2>7. Followed'
    BY <1>1, <1>2, <2>2, <2>3, <2>5, <2>6, FollowedAfter DEF reporter
  <2> QED  BY <2>1, <2>7
<1> QED  BY <1>3, <1>4

LEMMA FollowedDirect ==
  ASSUME StatesFit, Fitting, Followed, NEW msg, DirectPayload(msg)
  PROVE  PathsFit' /\ Followed'
<1>1. /\ PathsFit' /\ ElementsOf(queue[PayloadInbox]) \subseteq ElementsOf(queue'[PayloadInbox])
      /\ queue'[CameraInbox] = queue[CameraInbox]
      /\ \A c \in Inboxes : c.topic # "payload/command_request" => queue'[c] = queue[c]
  BY DirectFits DEF Fitting
<1>2. UNCHANGED <<reporter, timing>>
  BY DEF DirectPayload
<1>3. \A c \in {PerceptionInbox, ResultInbox, CameraStateInbox, EventInbox, StateInbox} : queue'[c] = queue[c]
  BY <1>1, PathBoxes, Boxes
<1>4. \A r : Awaited(queue, r) => Evident(queue', r, {}, {})
  BY <1>1 DEF Awaited, Evident
<1>5. \A r, records, states : Evident(queue, r, records, states) => Evident(queue', r, records, states)
  BY <1>3, <1>4, EvidentAfter
<1>6. StartWaits' => StartWaits
  BY <1>3 DEF StartWaits
<1>7. Followed'
  BY <1>2, <1>3, <1>5, <1>6, FollowedAfter DEF reporter
<1> QED  BY <1>1, <1>7

LEMMA FollowedForward ==
  ASSUME StatesFit, OnlyScans, Fitting, Followed, Forward
  PROVE  PathsFit' /\ Followed'
<1>1. /\ PathsFit'
      /\ \A c \in Inboxes : c.topic \notin {"payload/command", "safety/events"} => queue'[c] = queue[c]
  BY ForwardFits DEF Fitting
<1>2. PICK msg :
        /\ ElementsOf(queue[PayloadInbox]) = ElementsOf(queue'[PayloadInbox]) \cup {msg}
        /\ ElementsOf(queue[CameraInbox]) \subseteq ElementsOf(queue'[CameraInbox])
        /\ Allowed(msg) => \/ msg \in ElementsOf(queue'[CameraInbox])
                           \/ Shortened(msg) \in ElementsOf(queue'[CameraInbox])
  BY ForwardFits DEF Fitting
<1>3. UNCHANGED <<reporter, timing>>
  BY DEF Forward
<1>4. \A c \in {PerceptionInbox, ResultInbox, CameraStateInbox, EventInbox, StateInbox} : queue'[c] = queue[c]
  BY <1>1, PathBoxes, Boxes
<1>5. IsScan(msg) => \E c \in ElementsOf(queue'[CameraInbox]) : IsScan(c) /\ c.run = msg.run
  <2>1. IsPayload(msg)
    BY <1>2 DEF Fitting, PathsInv, Commanded
  <2>2. IsScan(msg) => Allowed(msg)
    BY DEF OnlyScans, IsScan, Allowed
  <2> QED  BY <1>2, <2>1, <2>2, ShortenedPayload
<1>6. \A r : Awaited(queue, r) => Evident(queue', r, {}, {})
  <2> SUFFICES ASSUME NEW r, Awaited(queue, r) PROVE Awaited(queue', r)
    BY DEF Evident
  <2>1. PICK c \in ElementsOf(queue[PayloadInbox]) \cup ElementsOf(queue[CameraInbox]) :
          IsScan(c) /\ c.run = r
    BY DEF Awaited
  <2> QED  BY <1>2, <1>5, <2>1 DEF Awaited
<1>7. \A r, records, states : Evident(queue, r, records, states) => Evident(queue', r, records, states)
  BY <1>4, <1>6, EvidentAfter
<1>8. StartWaits' => StartWaits
  BY <1>4 DEF StartWaits
<1>9. Followed'
  BY <1>3, <1>4, <1>7, <1>8, FollowedAfter DEF reporter
<1> QED  BY <1>1, <1>9

\* The camera turns a scan on its way into its messages.
LEMMA FollowedScan ==
  ASSUME StatesFit, Fitting, Followed, Scan
  PROVE  PathsFit' /\ Followed'
<1>1. PathsFit'
  BY ScanFits DEF Fitting
<1>2. PICK msg : ShownBy(msg)
  BY ScanFits DEF Fitting
<1>3. /\ UNCHANGED <<reporter, timing>> /\ queue'[PayloadInbox] = queue[PayloadInbox]
      /\ queue'[StateInbox] = queue[StateInbox] /\ queue'[EventInbox] = queue[EventInbox]
  BY ScanEffect DEF Passes, Fitting
<1>4. IsScan(msg) => Evident(queue', msg.run, {}, {})
  <2> SUFFICES ASSUME IsScan(msg) PROVE Evident(queue', msg.run, {}, {})
    OBVIOUS
  <2> DEFINE e == PersonDetected(now, msg.run)
             s == Result(now, msg.run)
  <2>1. e.run = msg.run /\ s.artifact_id = e.artifact_id
    BY DEF PersonDetected, Result
  <2>2. /\ e \in ElementsOf(queue'[PerceptionInbox]) /\ s \in ElementsOf(queue'[ResultInbox])
        /\ queue'[CameraStateInbox] # << >>
    BY <1>2 DEF ShownBy
  <2> HIDE DEF e, s
  <2>3. e \in Seen(queue', {}, "perception/events") /\ s \in Seen(queue', {}, "payload/result")
    BY <2>2 DEF Seen, PerceptionInbox, ResultInbox
  <2>4. Shows(Seen(queue', {}, "perception/events"), Seen(queue', {}, "payload/result"), msg.run)
    BY <2>1, <2>3 DEF Shows
  <2> QED  BY <2>2, <2>4 DEF Evident
<1>5. \A r : Awaited(queue, r) => Evident(queue', r, {}, {})
  <2> SUFFICES ASSUME NEW r, Awaited(queue, r) PROVE Evident(queue', r, {}, {})
    OBVIOUS
  <2>1. PICK c \in ElementsOf(queue[PayloadInbox]) \cup ElementsOf(queue[CameraInbox]) :
          IsScan(c) /\ c.run = r
    BY DEF Awaited
  <2>2. CASE c = msg
    BY <1>4, <2>1, <2>2
  <2>3. CASE c # msg
    <3>1. c \in ElementsOf(queue'[PayloadInbox]) \cup ElementsOf(queue'[CameraInbox])
      BY <1>2, <1>3, <2>3 DEF ShownBy
    <3> QED  BY <2>1, <3>1 DEF Awaited, Evident
  <2> QED  BY <2>2, <2>3
<1>6. \A r, records, states : Evident(queue, r, records, states) => Evident(queue', r, records, states)
  BY <1>2, <1>5, EvidentAfter DEF ShownBy
<1>7. StartWaits' => StartWaits
  BY <1>3 DEF StartWaits
<1>8. Followed'
  BY <1>2, <1>3, <1>6, <1>7, FollowedAfter DEF ShownBy, reporter
<1> QED  BY <1>1, <1>8

LEMMA FollowedShowState ==
  ASSUME Fitting, Followed, ShowState
  PROVE  PathsFit' /\ Followed'
<1>1. /\ UNCHANGED <<manager, reporter, timing, commands>>
      /\ queue'[PayloadInbox] = queue[PayloadInbox] /\ queue'[CameraInbox] = queue[CameraInbox]
      /\ \A c \in Inboxes : c # CameraStateInbox => queue'[c] = queue[c]
  BY ShowStateEffect DEF Fitting, Passes
<1>2. PICK on, state :
        /\ Grown(queue'[CameraStateInbox], queue[CameraStateInbox], <<PayloadState(on, state)>>)
        /\ ElementsOf(queue'[CameraStateInbox])
             \subseteq ElementsOf(queue[CameraStateInbox]) \cup {PayloadState(on, state)}
  BY ShowStateEffect DEF Fitting
<1>3. /\ queue'[CameraStateInbox] # << >>
      /\ \A s \in ElementsOf(queue'[CameraStateInbox]) :
           s \in ElementsOf(queue[CameraStateInbox]) \/ s.payload_id = CameraType
  BY <1>2, StateShown DEF Fitting
<1>4. \A c \in {PerceptionInbox, ResultInbox, EventInbox, StateInbox} : queue'[c] = queue[c]
  BY <1>1, PathBoxes, Boxes
<1>5. PathsFit'
  BY <1>1, <1>4, FitsStill DEF Fitting
<1>6. \A r : Awaited(queue, r) => Evident(queue', r, {}, {})
  BY <1>1 DEF Awaited, Evident
<1>7. \A r, records, states : Evident(queue, r, records, states) => Evident(queue', r, records, states)
  BY <1>3, <1>4, <1>6, EvidentAfter
<1>8. StartWaits' => StartWaits
  BY <1>4 DEF StartWaits
<1>9. Followed'
  BY <1>1, <1>3, <1>4, <1>7, <1>8, FollowedAfter DEF reporter
<1> QED  BY <1>5, <1>9

\* The report manager collects a state of the mission before anything else.
LEMMA FollowedState ==
  ASSUME Fitting, ReportInv, Followed, Gather(StateInbox)
  PROVE  Followed'
<1> DEFINE msg == Head(queue[StateInbox])
<1>1. /\ queue'[PayloadInbox] = queue[PayloadInbox] /\ queue'[CameraInbox] = queue[CameraInbox]
      /\ \A d \in Inboxes : d # StateInbox => queue'[d] = queue[d]
      /\ ElementsOf(queue[StateInbox]) = ElementsOf(queue'[StateInbox]) \cup {msg}
  BY GatherEffect, Boxes DEF Fitting
<1>2. \A c \in {PerceptionInbox, ResultInbox, CameraStateInbox, EventInbox} : queue'[c] = queue[c]
  <2>1. {PerceptionInbox, ResultInbox, CameraStateInbox} \subseteq Inboxes
        /\ StateInbox \notin {PerceptionInbox, ResultInbox, CameraStateInbox}
    BY PathBoxes, Boxes
  <2> QED  BY <1>1, <2>1, Boxes
<1>3. \A r : Awaited(queue, r) => Evident(queue', r, {}, {})
  BY <1>1 DEF Awaited, Evident
<1>4. \A r, records, states : Evident(queue, r, records, states) => Evident(queue', r, records, states)
  BY <1>2, <1>3, EvidentAfter
<1>5. StartWaits' => StartWaits
  BY <1>1 DEF StartWaits
<1>6. CASE OpensRun(msg) /\ collected' = {} /\ latest_states' = {}
  <2>1. StartWaits
    BY <1>1, <1>6 DEF OpensRun, Starts, StartWaits
  <2>2. \A e \in ElementsOf(queue'[EventInbox]) : Requests(e) => Evident(queue', e.run, {}, {})
    BY <1>2, <1>4, <2>1 DEF Followed
  <2> QED  BY <1>2, <1>6, <2>2, OfNone DEF Followed
<1>7. CASE UNCHANGED <<collected, latest_states, report_written>>
  BY <1>2, <1>4, <1>5, <1>7, FollowedAfter
<1>8. \/ OpensRun(msg) /\ collected' = {} /\ latest_states' = {}
      \/ UNCHANGED <<collected, latest_states, report_written>>
  <2> HIDE DEF msg
  <2>1. StateInbox \in Inboxes /\ StateInbox.topic \notin StateTopics /\ StateInbox.topic = "mission/state"
    BY Boxes DEF StateTopics
  <2> QED  BY <2>1, GatherRecords DEF msg
<1> QED  BY <1>6, <1>7, <1>8

\* A message that is collected is seen as before, and no start waits.
LEMMA FollowedRecord ==
  ASSUME Fitting, ReportInv, Followed, timing.states_first, NEW c \in Inboxes, c # StateInbox, Gather(c)
  PROVE  Followed'
<1> DEFINE msg == Head(queue[c])
<1>1. /\ queue'[PayloadInbox] = queue[PayloadInbox] /\ queue'[CameraInbox] = queue[CameraInbox]
      /\ \A d \in Inboxes : d # c => queue'[d] = queue[d]
      /\ ElementsOf(queue[c]) = ElementsOf(queue'[c]) \cup {msg}
  BY GatherEffect DEF Fitting
<1>2. ~StartWaits'
  <2>1. queue[StateInbox] = << >>
    BY Boxes DEF Gather, Collect, StateInbox
  <2>2. queue'[StateInbox] = << >>
    BY <1>1, <2>1, Boxes
  <2> QED  BY <2>2, Empty DEF StartWaits
<1>3. \/ /\ c.topic \in StateTopics /\ OnLatestState(c.topic, msg)
         /\ UNCHANGED <<collected, report_written>>
      \/ /\ c.topic \notin StateTopics \cup {"mission/state"}
         /\ collected' = collected \cup {<<c.topic, msg>>}
         /\ UNCHANGED <<latest_states, report_written>>
  BY GatherRecords
<1>4. \A s \in ElementsOf(queue'[CameraStateInbox]) : s.payload_id = CameraType
  BY <1>1, PathBoxes DEF Followed
<1>5. \A r, records, states : Awaited(queue, r) => Evident(queue', r, records, states)
  BY <1>1 DEF Awaited, Evident
<1>6. \A t : OfTopic(collected, t) \subseteq OfTopic(collected', t)
  <2> SUFFICES ASSUME NEW t PROVE OfTopic(collected, t) \subseteq OfTopic(collected', t)
    OBVIOUS
  <2>1. CASE collected' = collected
    BY <2>1
  <2>2. CASE collected' = collected \cup {<<c.topic, msg>>}
    BY <2>2, OfMore
  <2> QED  BY <1>3, <2>1, <2>2
<1>7. \A t \in {"perception/events", "payload/result"} :
        Seen(queue, collected, t) \subseteq Seen(queue', collected', t)
  <2> SUFFICES ASSUME NEW t \in {"perception/events", "payload/result"}
               PROVE  Seen(queue, collected, t) \subseteq Seen(queue', collected', t)
    OBVIOUS
  <2>1. Inbox(t) \in Inboxes /\ Inbox(t).topic = t /\ t \notin StateTopics
    BY PathBoxes DEF PerceptionInbox, ResultInbox, StateTopics
  <2>2. CASE Inbox(t) = c
    <3>1. collected' = collected \cup {<<t, msg>>}
      BY <1>3, <2>1, <2>2
    <3>2. msg \in OfTopic(collected', t)
      BY <3>1, OfMore
    <3> QED  BY <1>1, <1>6, <2>2, <3>2 DEF Seen
  <2>3. CASE Inbox(t) # c
    <3>1. queue'[Inbox(t)] = queue[Inbox(t)]
      BY <1>1, <2>1, <2>3
    <3> QED  BY <1>6, <3>1 DEF Seen
  <2> QED  BY <2>2, <2>3
<1>8. queue[CameraStateInbox] # << >> \/ Posed(latest_states)
        => queue'[CameraStateInbox] # << >> \/ Posed(latest_states')
  <2> DEFINE source == Source(c.topic, msg)
             new == <<source, msg>>
  <2>0. new[1] = source
    OBVIOUS
  <2> HIDE DEF new
  <2>1. CASE c.topic \in StateTopics /\ OnLatestState(c.topic, msg)
    <3>1. latest_states' = {s \in latest_states : s[1] # source} \cup {new}
      BY <2>1 DEF OnLatestState, new
    <3>2. Posed(latest_states) => Posed(latest_states')
      <4> HIDE DEF source
      <4> QED  BY <2>0, <3>1 DEF Posed
    <3>3. CASE c = CameraStateInbox
      <4>1. source = CameraType
        BY <1>1, <3>3, PathBoxes DEF Followed, Source
      <4> QED  BY <2>0, <3>1, <4>1 DEF Posed
    <3>4. CASE c # CameraStateInbox
      <4>1. queue'[CameraStateInbox] = queue[CameraStateInbox]
        BY <1>1, <3>4, PathBoxes
      <4> QED  BY <3>2, <4>1
    <3> QED  BY <3>3, <3>4
  <2>2. CASE c.topic \notin StateTopics /\ latest_states' = latest_states
    <3>1. c # CameraStateInbox
      BY <2>2, PathBoxes DEF StateTopics
    <3>2. queue'[CameraStateInbox] = queue[CameraStateInbox]
      BY <1>1, <3>1, PathBoxes
    <3> QED  BY <2>2, <3>2
  <2> QED  BY <1>3, <2>1, <2>2
<1>9. \A r : Evident(queue, r, collected, latest_states) => Evident(queue', r, collected', latest_states')
  BY <1>5, <1>7, <1>8, StillEvident
<1>10. report_written' = report_written
  BY <1>3
<1>11. ASSUME NEW e \in ElementsOf(queue'[EventInbox]) PROVE e \in ElementsOf(queue[EventInbox])
  BY <1>1, <1>11, Boxes
<1>12. ASSUME NEW e \in OfTopic(collected', "mission/events")
       PROVE  e \in OfTopic(collected, "mission/events") \/ e \in ElementsOf(queue[EventInbox])
  <2>1. CASE collected' = collected
    BY <1>12, <2>1
  <2>2. CASE collected' = collected \cup {<<c.topic, msg>>}
    <3>1. e \in OfTopic(collected, "mission/events") \/ ("mission/events" = c.topic /\ e = msg)
      BY <1>12, <2>2, OfMore
    <3>2. c.topic = "mission/events" => c = EventInbox
      BY Boxes
    <3> QED  BY <1>1, <3>1, <3>2
  <2> QED  BY <1>3, <2>1, <2>2
<1>13. \A e \in ElementsOf(queue'[EventInbox]) :
         Requests(e) => Evident(queue', e.run, collected', latest_states')
  BY <1>9, <1>11 DEF Followed
<1>14. report_written' = FALSE =>
         \A e \in OfTopic(collected', "mission/events") :
           Requests(e) => Evident(queue', e.run, collected', latest_states')
  BY <1>9, <1>10, <1>12 DEF Followed
<1> QED  BY <1>2, <1>4, <1>13, <1>14 DEF Followed

LEMMA FollowedGather ==
  ASSUME Fitting, ReportInv, Followed, timing.states_first, NEW c \in Inboxes, Gather(c)
  PROVE  PathsFit' /\ Followed'
<1>1. /\ queue'[PayloadInbox] = queue[PayloadInbox] /\ queue'[CameraInbox] = queue[CameraInbox]
      /\ \A d \in Inboxes : d # c => queue'[d] = queue[d]
      /\ Len(queue'[c]) = Len(queue[c]) - 1
      /\ UNCHANGED <<manager, timing, commands>>
  BY GatherEffect DEF Fitting
<1>2. PathsFit'
  <2>1. \A d \in {PerceptionInbox, ResultInbox} :
          queue'[d] = queue[d] \/ Len(queue'[d]) = Len(queue[d]) - 1
    BY <1>1, PathBoxes
  <2> QED  BY <1>1, <2>1, FitsStill DEF Fitting
<1>3. Followed'
  BY FollowedState, FollowedRecord
<1> QED  BY <1>2, <1>3

\* Once everything is delivered, a report has the evidence of its requests.
LEMMA WriteEvidenced ==
  ASSUME ReportInv, Calm, PathsFit, QueuesInv, QueuesInv', PathsInv, PathsInv', Followed, Evidenced, Write
  PROVE  PathsFit' /\ Followed' /\ Evidenced'
<1>1. /\ UNCHANGED <<manager, queue, timing, commands>>
      /\ UNCHANGED <<collected, latest_states>>
      /\ report_written = FALSE /\ Delivered
      /\ UNCHANGED <<missions, record_rows, report_written>> \/ \E m : Adds(m)
  BY WriteAdds DEF Calm
<1>2. PathsFit'
  BY <1>1, FitsStill
<1>3. Followed'
  <2>1. report_written' = report_written \/ report_written' = TRUE
    BY <1>1 DEF Adds
  <2>2. StartWaits' => StartWaits
    BY <1>1 DEF StartWaits
  <2> QED  BY <1>1, <2>1, <2>2 DEF Followed
<1>4. ASSUME UNCHANGED <<missions, record_rows>> PROVE Evidenced'
  BY <1>4 DEF Evidenced
<1>5. ASSUME NEW m, Adds(m) PROVE Evidenced'
  <2> DEFINE Holds(records, states, r) ==
               /\ Shows(OfTopic(records, "perception/events"), OfTopic(records, "payload/result"), r)
               /\ Posed(states)
             Backed(n, row) == row.topic = "mission/events" /\ Requests(row.record)
                                 => Holds(n.records, n.latest_states, row.record.run)
  <2>1. /\ m.records = collected /\ m.latest_states = latest_states
        /\ missions' = missions \cup {m} /\ \A n \in missions : n.report_id # m.report_id
        /\ record_rows' = record_rows \cup Rows(m)
    BY <1>5 DEF Adds
  <2>2. \A e \in OfTopic(collected, "mission/events") :
          Requests(e) => Holds(collected, latest_states, e.run)
    <3> SUFFICES ASSUME NEW e \in OfTopic(collected, "mission/events"), Requests(e)
                 PROVE  Holds(collected, latest_states, e.run)
      OBVIOUS
    <3>1. Evident(queue, e.run, collected, latest_states)
      BY <1>1 DEF Followed
    <3>2. \A c \in {PayloadInbox, CameraInbox, PerceptionInbox, ResultInbox, CameraStateInbox} :
            queue[c] = << >> /\ ElementsOf(queue[c]) = {}
      BY <1>1, PathBoxes, Empty DEF Delivered
    <3>3. ~Awaited(queue, e.run)
      BY <3>2 DEF Awaited
    <3>4. /\ Seen(queue, collected, "perception/events") = OfTopic(collected, "perception/events")
          /\ Seen(queue, collected, "payload/result") = OfTopic(collected, "payload/result")
      BY <3>2 DEF Seen, PerceptionInbox, ResultInbox
    <3> QED  BY <3>1, <3>2, <3>3, <3>4 DEF Evident
  <2>3. \A row \in Rows(m) : row.report_id = m.report_id /\ Backed(m, row)
    <3> SUFFICES ASSUME NEW row \in Rows(m) PROVE row.report_id = m.report_id /\ Backed(m, row)
      OBVIOUS
    <3>1. PICK r \in m.records : row = [report_id |-> m.report_id, topic |-> r[1], record |-> r[2]]
      BY DEF Rows
    <3>2. row.report_id = m.report_id /\ row.topic = r[1] /\ row.record = r[2]
      BY <3>1
    <3>3. r[1] = "mission/events" => r[2] \in OfTopic(collected, "mission/events")
      BY <2>1 DEF OfTopic
    <3> HIDE DEF Holds
    <3> QED  BY <2>1, <2>2, <3>2, <3>3
  <2>4. \A row \in record_rows :
          /\ \E n \in missions : n.report_id = row.report_id
          /\ \A n \in missions : n.report_id = row.report_id => Backed(n, row)
    BY DEF Evidenced
  <2>5. \A row \in record_rows' :
          /\ \E n \in missions' : n.report_id = row.report_id
          /\ \A n \in missions' : n.report_id = row.report_id => Backed(n, row)
    <3> HIDE DEF Backed
    <3>1. \A row \in record_rows :
            /\ \E n \in missions' : n.report_id = row.report_id
            /\ \A n \in missions' : n.report_id = row.report_id => Backed(n, row)
      BY <2>1, <2>4
    <3>2. \A row \in Rows(m) :
            /\ \E n \in missions' : n.report_id = row.report_id
            /\ \A n \in missions' : n.report_id = row.report_id => Backed(n, row)
      BY <2>1, <2>3
    <3> QED  BY <2>1, <3>1, <3>2
  <2> QED  BY <2>5 DEF Evidenced
<1> QED  BY <1>1, <1>2, <1>3, <1>4, <1>5

LEMMA InitFollowed == EvidenceInit => ScansFollowed
<1> SUFFICES ASSUME EvidenceInit PROVE PathsFit /\ Followed /\ Evidenced
  BY DEF ScansFollowed
<1>1. /\ MissionInit /\ collected = {} /\ record_rows = {} /\ missions = {} /\ commands = 0
      /\ queue = NoMessages \/ queue = Observed
  BY DEF EvidenceInit, Init, ReportInit
<1>2. \A c \in {PayloadInbox, CameraInbox, PerceptionInbox, ResultInbox, CameraStateInbox, EventInbox} :
        queue[c] = << >>
  BY <1>1, PathBoxes, Boxes DEF NoMessages, Observed
<1>3. PathsFit
  <2>1. \A c \in {PerceptionInbox, ResultInbox} : Passing(c) = 0
    <3>1. Len(<< >>) = 0 /\ 0 + 0 = 0
      OBVIOUS
    <3> QED  BY <1>2, <3>1 DEF Passing
  <2>2. StepsTold \in Nat
    <3>1. Len(Steps) \in Nat /\ MayBegin
      BY <1>1, MissionAssumption DEF MissionInit, MayBegin
    <3> QED  BY <3>1 DEF StepsTold
  <2> DEFINE p == StepsTold
  <2>3. 0 <= 0 + p
    <3>1. p \in Nat
      BY <2>2
    <3> HIDE DEF p
    <3> QED  BY <3>1
  <2> QED  BY <1>1, <2>1, <2>3 DEF PathsFit
<1>4. Followed
  BY <1>1, <1>2, Empty, OfNone DEF Followed
<1>5. Evidenced
  BY <1>1 DEF Evidenced
<1> QED  BY <1>3, <1>4, <1>5

LEMMA StepFollowed ==
  ASSUME OperatorsStart, StatesFit, OnlyScans, Base, Base', ScansFollowed, [EvidenceNext]_evidence_vars
  PROVE  ScansFollowed'
<1>0. timing' = timing
  BY TimingStays DEF Base
<1>1. SUFFICES ASSUME Calm PROVE PathsFit' /\ Followed' /\ Evidenced'
  BY <1>0 DEF ScansFollowed, Calm
<1>2. /\ Fitting /\ Followed /\ Evidenced /\ ReportInv
      /\ QueuesInv /\ QueuesInv' /\ PathsInv /\ PathsInv' /\ PathsFit
  BY <1>1 DEF Base, Fitting, ScansFollowed, Calm
<1>3. ASSUME UNCHANGED <<missions, record_rows>> PROVE Evidenced'
  BY <1>2, <1>3 DEF Evidenced
<1>4. CASE Mission
  <2>1. UNCHANGED reporter
    BY <1>4 DEF Mission, Obey, Advance
  <2> QED  BY <1>2, <1>3, <1>4, <2>1, FollowedMission DEF reporter
<1>5. ASSUME NEW msg \in DirectPayloads, DirectPayload(msg) PROVE PathsFit' /\ Followed' /\ Evidenced'
  <2>1. UNCHANGED reporter
    BY <1>5 DEF DirectPayload
  <2> QED  BY <1>2, <1>3, <1>5, <2>1, FollowedDirect DEF reporter
<1>6. ASSUME NEW c \in Inboxes, Gather(c) PROVE PathsFit' /\ Followed' /\ Evidenced'
  BY <1>1, <1>2, <1>3, <1>6, FollowedGather, GatherRecords DEF Calm
<1>7. CASE Write
  BY <1>1, <1>2, <1>7, WriteEvidenced
<1>8. CASE Forward
  <2>1. UNCHANGED reporter
    BY <1>8 DEF Forward
  <2> QED  BY <1>2, <1>3, <1>8, <2>1, FollowedForward DEF reporter
<1>9. CASE Scan
  <2>1. UNCHANGED reporter
    BY <1>9 DEF Scan
  <2> QED  BY <1>2, <1>3, <1>9, <2>1, FollowedScan DEF reporter
<1>10. CASE ShowState
  <2>1. UNCHANGED reporter
    BY <1>10 DEF ShowState
  <2> QED  BY <1>2, <1>3, <1>10, <2>1, FollowedShowState DEF reporter
<1>11. CASE Clock \/ UNCHANGED evidence_vars
  <2>1. UNCHANGED <<queue, collected, latest_states, report_written, missions, record_rows, commands, flags,
                    current_step_index>>
    <3>1. CASE Clock
      BY <1>2, <3>1, ClockKeeps DEF Base, Clock, ClockTick, reporter
    <3>2. CASE UNCHANGED evidence_vars
      BY <3>2 DEF evidence_vars, vars, reporter, manager
    <3> QED  BY <1>11, <3>1, <3>2
  <2>2. StepsTold' = StepsTold
    BY <2>1 DEF StepsTold, MayBegin, Stopped, flags
  <2>3. PathsFit'
    BY <1>0, <1>2, <2>1, <2>2 DEF PathsFit, Passing
  <2>4. Followed'
    BY <1>2, <2>1 DEF Followed, StartWaits
  <2> QED  BY <1>3, <2>1, <2>3, <2>4
<1> QED  BY <1>4, <1>5, <1>6, <1>7, <1>8, <1>9, <1>10, <1>11 DEF EvidenceNext

\* When nothing overtakes anything and operators wait, a report that tells of a
\* request to scan has what the camera published of that scan: neither the depth
\* of a queue, nor a shortened scan, nor a resume or a cancel loses it on the way
\* from the mission manager through the payload manager and the camera.
THEOREM ScansAreEvidenced ==
  ASSUME OperatorsStart, StatesFit, OnlyScans, DirectsArePayloads
  PROVE  EvidenceSafety => [](Calm => ScansEvidenced)
<1> DEFINE All == Base /\ ScansFollowed
<1>1. EvidenceInit => All
  BY InitBase, InitFollowed
<1>2. All /\ [EvidenceNext]_evidence_vars => All'
  BY BaseStep, StepFollowed
<1>3. All => (Calm => ScansEvidenced)
  <2> SUFFICES ASSUME All, Calm, NEW m \in missions, NEW r \in 0..MaxCommands,
                      HasEvent(m, "payload_command_requested", r)
               PROVE  /\ \E e \in Perceived(m) :
                           e.run = r /\ \E s \in Results(m) : s.artifact_id = e.artifact_id
                      /\ \E s \in m.latest_states : s[1] = CameraType
    BY DEF ScansEvidenced
  <2>1. PICK row \in record_rows :
          /\ row.report_id = m.report_id /\ row.topic = "mission/events"
          /\ row.record.event_type = "payload_command_requested" /\ row.record.run = r
    BY DEF HasEvent
  <2>2. /\ Shows(OfTopic(m.records, "perception/events"), OfTopic(m.records, "payload/result"), r)
        /\ Posed(m.latest_states)
    BY <2>1 DEF ScansFollowed, Evidenced, Requests
  <2>3. /\ Perceived(m) = OfTopic(m.records, "perception/events")
        /\ Results(m) = OfTopic(m.records, "payload/result")
    BY DEF Perceived, Results, Collected, OfTopic
  <2> QED  BY <2>2, <2>3 DEF Shows, Posed
<1> QED  BY <1>1, <1>2, <1>3, PTL DEF EvidenceSafety
=============================================================================
