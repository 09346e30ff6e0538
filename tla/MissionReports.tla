--------------------------- MODULE MissionReports ---------------------------
(***************************************************************************)
(* Missions and their reports: the mission manager publishes states,       *)
(* events and robot commands, the report manager collects them from one    *)
(* subscription per topic and writes a report after each mission.  What    *)
(* may be assumed of the timing around it is fixed in the initial state,   *)
(* so that a property can say which assumption it needs.                   *)
(***************************************************************************)
EXTENDS MissionManager, ReportManager

CONSTANTS
  Timings,        \* which assumptions hold together
  MaxCommands     \* operators send at most this many commands

\* prompt: messages arrive before a half-second timer runs out.
\* states_first: of messages that wait, mission/state is handled first, the
\*   order in which the executor serves its subscriptions.
\* operator_waits: nobody commands a mission that does not run before all that
\*   was published is collected and the last report is written.
Timing == [prompt : BOOLEAN, states_first : BOOLEAN, operator_waits : BOOLEAN]

ASSUME TimingAssumption ==
  /\ Timings \subseteq Timing
  /\ MaxCommands \in Nat
  /\ MaxCommands < RunIds   \* so that no run number is used twice

VARIABLES
  timing,
  commands   \* history: how many commands operators have sent

vars == <<manager, now, reporter, artifact_files, queue, timing, commands>>

Init ==
  /\ now = 0
  /\ MissionInit /\ ReportInit
  /\ queue \in {NoMessages, Observed}   \* "created" may precede discovery
  /\ artifact_files = {}
  /\ timing \in Timings
  /\ commands = 0

Delivered == \A c \in Channels : queue[c] = << >>

Settled == Delivered /\ ~report_timer

Obey(msg) ==
  /\ commands < MaxCommands
  /\ timing.operator_waits /\ MayBegin => Settled
  /\ commands' = commands + 1
  /\ HandleMissionCommand(msg, queue)
  /\ UNCHANGED <<reporter, artifact_files, timing>>

Advance == Tick(queue) /\ UNCHANGED <<reporter, artifact_files, timing, commands>>

Collect(c) ==
  /\ timing.states_first /\ c.topic # "mission/state" => queue[Inbox("mission/state")] = << >>
  /\ ReportStep(c)
  /\ UNCHANGED <<manager, now, timing, commands>>

\* Seeded fault: the report is written as soon as the mission has ended.
HalfSecondAtOnce ==
  /\ WriteReportOnce
  /\ UNCHANGED <<manager, now, timing, commands>>

HalfSecond ==
  /\ timing.prompt => Delivered
  /\ WriteReportOnce
  /\ UNCHANGED <<manager, now, timing, commands>>

Next ==
  \/ \E msg \in MissionCommands : Obey(msg)
  \/ Advance
  \/ \E c \in Inboxes : Collect(c)
  \/ HalfSecond

Safety == Init /\ [][Next]_vars

\* Both executors keep running their callbacks; operators owe nothing.
Spec ==
  /\ Safety
  /\ WF_vars(Advance)
  /\ \A c \in Inboxes : WF_vars(Collect(c))
  /\ WF_vars(HalfSecond)

-----------------------------------------------------------------------------
(* Properties.                                                             *)

\* An armed timer has lists to write: nobody else writes them, and no start
\* reopens them, before it runs out.
ArmedTimerHasReport ==
  report_timer => /\ ~report_written
                  /\ \E i \in 1..Len(mission_states) : mission_states[i].state \in Terminal

\* A report is never rewritten once it is in the database.
ReportsAreFinal == [][\A m \in missions : m \in missions']_vars

Outcome(m) == m.mission_states[Len(m.mission_states)].state
Ends(m) == {i \in 1..Len(m.mission_states) : m.mission_states[i].state \in Terminal}

\* When operators wait for it, a report is the report of one mission, in
\* whatever order its messages came: its outcome is how that mission ended, and
\* it holds no other ending.
ReportEndsOneMission ==
  timing.operator_waits => \A m \in missions : Ends(m) = {Len(m.mission_states)}

RunsOf(m) == {m.mission_states[i].run : i \in 1..Len(m.mission_states)}

\* ... and the rows that the tables hold under its id come from the mission its
\* states tell about; every row is of a report in the database.
NoForeignRecords ==
  timing.operator_waits =>
    \A row \in record_rows : \E m \in missions :
      m.report_id = row.report_id /\ row.record.run \in RunsOf(m)

HasEvent(m, type, r) ==
  \E row \in record_rows :
    /\ row.report_id = m.report_id /\ row.topic = "mission/events"
    /\ row.record.event_type = type /\ row.record.run = r

Calm == timing.prompt /\ timing.states_first /\ timing.operator_waits

\* When nothing overtakes anything, a report that tells how a run started and
\* ended has the events of its start and of its end in the tables, where the
\* queries for reports look for them.
RecordsComplete ==
  Calm => \A m \in missions : \A i, j \in 1..Len(m.mission_states) :
    LET s == m.mission_states[i]
        e == m.mission_states[j]
    IN  s.message = "Mission started" /\ e.state = "completed" /\ s.run = e.run
        => HasEvent(m, "mission_started", s.run) /\ HasEvent(m, "mission_completed", s.run)

Reported(r) ==
  \E m \in missions : \E i \in Ends(m) : m.mission_states[i].run = r

\* Every mission that was started and ended gets its report.
EveryMissionReported ==
  \A r \in 1..MaxCommands :
    (mission_started /\ Stopped /\ run = r) ~> (Reported(r) \/ ~reporter_alive)

\* Whatever the order of messages and timers, operators who wait for the
\* report of one mission before they start the next get one for each.
PatientMissionsReported == timing.operator_waits => EveryMissionReported
=============================================================================
