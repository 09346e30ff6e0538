---------------------------- MODULE ReportManager ----------------------------
(***************************************************************************)
(* The report_manager node: it collects what the other nodes publish into  *)
(* one list per topic, and half a second after a mission ends it writes    *)
(* the lists as a report, first to the JSON file, then to the database.    *)
(* A "Mission started" state opens the lists of the next report.  Of the   *)
(* states of the robot and of each payload it keeps the newest; records of *)
(* the other topics are collected alike, so they share one set of <<topic, *)
(* message>> pairs.  Report ids are numbers, 0 for none.                   *)
(***************************************************************************)
EXTENDS Integers, Topics, ArtifactFiles

CONSTANT MayFail   \* whether the database may refuse a report

Inbox(topic) == Channel(topic, "report_manager")

Inboxes == {c \in Channels : c.node = "report_manager"}

\* The node has one subscription per topic, those of the mission among them.
ASSUME ReportAssumption ==
  /\ MayFail \in BOOLEAN
  /\ {Inbox("mission/state"), Inbox("mission/events")} \subseteq Channels
  /\ \A c \in Inboxes : c = Inbox(c.topic)

VARIABLES
  report_run_id,
  mission_states,    \* the mission/state messages since the lists were opened
  collected,         \* <<topic, message>> for the records of other topics
  latest_states,     \* <<source, message>>: the newest state of the robot, and
                     \* of each payload
  report_written,
  report_timer,      \* whether the half-second timer is armed
  reporter_alive,    \* FALSE once the node's process has died
  ids,               \* the number of report ids drawn so far
  json,              \* the report in the JSON file, as a set of at most one
  missions,          \* the reports in the database
  record_rows,       \* the rows of its tables of single records
  evidence_artifacts \* the registry: which report each artifact belongs to

reporter == <<report_run_id, mission_states, collected, latest_states,
              report_written, report_timer, reporter_alive, ids, json, missions, record_rows, evidence_artifacts>>

Terminal == {"completed", "canceled", "failed"}

ReportInit ==
  /\ report_run_id = 0
  /\ mission_states = << >>
  /\ collected = {}
  /\ latest_states = {}
  /\ report_written = FALSE
  /\ report_timer = FALSE
  /\ reporter_alive = TRUE
  /\ ids = 0
  /\ json = {}
  /\ missions = {}
  /\ record_rows = {}
  /\ evidence_artifacts = {}

\* Seeded faults: the lists are reopened whether or not they were written, and
\* never again once they were.
OpensRunAlways(msg) ==
  msg.state = "running" /\ msg.message = "Mission started"
OpensRunOnce(msg) ==
  /\ msg.state = "running" /\ msg.message = "Mission started"
  /\ mission_states = << >>

\* start_new_report_run leaves lists alone that no report holds yet.
OpensRun(msg) ==
  /\ msg.state = "running" /\ msg.message = "Mission started"
  /\ mission_states = << >> \/ report_written

\* Seeded fault: the newest id is drawn again.
NextRunIdReused == ids
NextRunId == ids + 1

\* Seeded fault: one list is forgotten.
OpenListsButRecords ==
  /\ report_run_id' = NextRunId
  /\ ids' = ids + 1
  /\ report_written' = FALSE
  /\ latest_states' = {}
  /\ UNCHANGED collected

\* start_new_report_run; the state that opens the lists is the first in them.
OpenLists ==
  /\ report_run_id' = NextRunId
  /\ ids' = ids + 1
  /\ report_written' = FALSE
  /\ collected' = {}
  /\ latest_states' = {}

\* on_mission_state
OnMissionState(msg) ==
  /\ IF OpensRun(msg)
     THEN /\ OpenLists
          /\ mission_states' = <<msg>>
     ELSE /\ mission_states' = Append(mission_states, msg)
          /\ UNCHANGED <<report_run_id, ids, collected, latest_states, report_written>>
  /\ report_timer' = (report_timer \/ (msg.state \in Terminal /\ ~report_written'))
  /\ UNCHANGED <<reporter_alive, json, missions, record_rows, evidence_artifacts>>

\* on_mission_event, on_robot_command, on_payload_result and their like.
OnRecord(topic, msg) ==
  /\ collected' = collected \cup {<<topic, msg>>}
  /\ UNCHANGED <<report_run_id, mission_states, latest_states, report_written,
                 report_timer, reporter_alive, ids, json, missions, record_rows, evidence_artifacts>>

StateTopics == {"robot/state", "payload/state"}

Source(topic, msg) == IF topic = "payload/state" THEN msg.payload_id ELSE "robot"

\* on_robot_state, on_payload_state: a newer state replaces the last one.
OnLatestState(topic, msg) ==
  /\ latest_states' = {s \in latest_states : s[1] # Source(topic, msg)}
                      \cup {<<Source(topic, msg), msg>>}
  /\ UNCHANGED <<report_run_id, mission_states, collected, report_written,
                 report_timer, reporter_alive, ids, json, missions, record_rows, evidence_artifacts>>

\* One callback of the executor.
ReportStep(c) ==
  /\ reporter_alive
  /\ c \in Inboxes
  /\ queue[c] # << >>
  /\ queue' = Taken(c)
  /\ UNCHANGED artifact_files
  /\ LET msg == Head(queue[c])
     IN  \/ c.topic = "mission/state" /\ OnMissionState(msg)
         \/ c.topic \in StateTopics /\ OnLatestState(c.topic, msg)
         \/ c.topic \notin StateTopics \cup {"mission/state"} /\ OnRecord(c.topic, msg)

\* The report of the lists as they are: its mission is the last state.
CurrentReport ==
  [report_id |-> IF report_run_id # 0 THEN report_run_id ELSE ids + 1,
   mission_states |-> mission_states, records |-> collected,
   latest_states |-> latest_states]

\* persist_evidence_artifacts: the artifacts that the perception events of a
\* report name and whose files exist are linked to it, INSERT OR REPLACE by
\* artifact id.
Evidence(report) ==
  {r[2].artifact_id : r \in {e \in report.records : e[1] = "perception/events"}}
  \cap artifact_files

LinkEvidence(report) ==
  evidence_artifacts' =
    {row \in evidence_artifacts : row.artifact_id \notin Evidence(report)}
    \cup {[artifact_id |-> a, report_id |-> report.report_id] : a \in Evidence(report)}

\* persist_events, persist_robot_commands, ...: a row for every record, in the
\* table of its topic; the queries for reports look for records there.
Rows(report) ==
  {[report_id |-> report.report_id, topic |-> r[1], record |-> r[2]] : r \in report.records}

\* persist_report: all rows of one report in one transaction, INSERT OR
\* REPLACE by report id.
PersistReport ==
  /\ missions' = {m \in missions : m.report_id # CurrentReport.report_id}
                 \cup {CurrentReport}
  /\ record_rows' = record_rows \cup Rows(CurrentReport)
  /\ LinkEvidence(CurrentReport)

\* Seeded fault: the report is not marked as written.
WriteReportUnmarked ==
  /\ json' = {CurrentReport}
  /\ PersistReport
  /\ ids' = IF report_run_id # 0 THEN ids ELSE ids + 1
  /\ UNCHANGED <<report_written, reporter_alive>>

\* write_report: the file, then the database.
WriteReport ==
  /\ json' = {CurrentReport}
  /\ PersistReport
  /\ ids' = IF report_run_id # 0 THEN ids ELSE ids + 1
  /\ report_written' = TRUE
  /\ UNCHANGED reporter_alive

\* The database refuses the rows: the file is written, the exception leaves
\* the timer's callback and ends the node.
WriteReportFails ==
  /\ MayFail
  /\ json' = {CurrentReport}
  /\ ids' = IF report_run_id # 0 THEN ids ELSE ids + 1
  /\ reporter_alive' = FALSE
  /\ UNCHANGED <<missions, record_rows, evidence_artifacts, report_written>>

\* write_report_once, the timer's callback.
WriteReportOnce ==
  /\ reporter_alive
  /\ report_timer
  /\ report_timer' = FALSE
  /\ IF report_written
     THEN UNCHANGED <<json, missions, record_rows, evidence_artifacts, ids, report_written,
                       reporter_alive>>
     ELSE WriteReport \/ WriteReportFails
  /\ UNCHANGED <<report_run_id, mission_states, collected, latest_states, queue,
                 artifact_files>>
=============================================================================
