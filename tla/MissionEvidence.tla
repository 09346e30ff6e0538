---------------------------- MODULE MissionEvidence ----------------------------
(***************************************************************************)
(* The evidence of a mission: the mission manager requests scans, the      *)
(* payload manager forwards them, the camera writes artifacts and says so, *)
(* and the report manager collects what it says and links the artifacts    *)
(* to the report that it writes.                                           *)
(*   payload/command_request -> payload_manager -> payload/command         *)
(*     -> camera -> payload/result, perception/events -> report_manager    *)
(* One unit of the clock is one second, the resolution of artifact ids.    *)
(***************************************************************************)
EXTENDS MissionReports, PayloadManager, InspectionCamera

Verifier == INSTANCE EvidenceVerifier

CONSTANT DirectPayloads   \* payload commands requested past the mission manager

\* Each node on the payload path has the subscriptions that the code creates.
ASSUME EvidenceAssumption ==
  {PayloadInbox, CameraInbox} \cup
  {Inbox(t) : t \in {"payload/result", "payload/state", "perception/events"}} \subseteq Channels

evidence_vars == <<vars, camera>>

EvidenceInit == Init /\ CameraInit

\* The steps of MissionReports, which leave the camera alone.
Mission ==
  /\ \/ \E msg \in MissionCommands : Obey(msg)
     \/ Advance
  /\ UNCHANGED camera

\* A payload command from elsewhere; it counts as an operator's command.
DirectPayload(msg) ==
  /\ commands < MaxCommands
  /\ commands' = commands + 1
  /\ queue' = Deliver(queue, [t \in {"payload/command_request"} |-> <<msg>>])
  /\ UNCHANGED <<manager, now, reporter, artifact_files, timing, camera>>

Gather(c) == Collect(c) /\ UNCHANGED camera

Write == HalfSecond /\ UNCHANGED camera

Forward ==
  /\ PayloadStep
  /\ UNCHANGED <<manager, now, reporter, artifact_files, timing, commands, camera>>

Scan ==
  /\ CameraStep(now)
  /\ UNCHANGED <<manager, now, reporter, timing, commands>>

ShowState == CameraTimer /\ UNCHANGED <<manager, now, reporter, timing, commands>>

Clock == ClockTick /\ UNCHANGED <<reporter, artifact_files, timing, commands, camera>>

EvidenceNext ==
  \/ Mission
  \/ \E msg \in DirectPayloads : DirectPayload(msg)
  \/ \E c \in Inboxes : Gather(c)
  \/ Write \/ Forward \/ Scan \/ ShowState \/ Clock

EvidenceSafety == EvidenceInit /\ [][EvidenceNext]_evidence_vars

-----------------------------------------------------------------------------
(* Properties.                                                             *)

\* The records that a report has of a topic.
Collected(m, topic) == {r[2] : r \in {e \in m.records : e[1] = topic}}

Perceived(m) == Collected(m, "perception/events")

Results(m) == Collected(m, "payload/result")

\* Whatever a report of the database names as evidence is there for good: the
\* file exists and the registry links it to this report, which is where the
\* export of the report looks for it.  No later scan or report takes it away.
EvidenceLinked ==
  \A m \in missions : \A e \in Perceived(m) :
    /\ e.artifact_id \in artifact_files
    /\ [artifact_id |-> e.artifact_id, report_id |-> m.report_id] \in evidence_artifacts

\* A report with the request of a scan holds the evidence of that run and a
\* state of the camera, also when the scan was shortened, repeated by a resume
\* or overtaken by a cancel.
ScansEvidenced ==
  \A m \in missions : \A r \in 0..MaxCommands :
    HasEvent(m, "payload_command_requested", r) =>
      /\ \E e \in Perceived(m) :
           e.run = r /\ \E s \in Results(m) : s.artifact_id = e.artifact_id
      /\ \E s \in m.latest_states : s[1] = CameraType

\* No two reports claim the same artifact, so no evidence counts twice.
EvidenceOfOneReport ==
  \A m, n \in missions :
    m # n => {e.artifact_id : e \in Perceived(m)} \cap {e.artifact_id : e \in Perceived(n)} = {}

\* The id of the command of a robot step, beside PayloadCommandId.
RobotCommandId(msg) == <<"robot", msg.command_type, msg.run>>

\* Every command_id that a safety event of a report names is among the report's
\* robot commands, as the verifier demands of whatever is exported
\* (docs/evidence_package_schema_v1.md:113).
SafetyEventsResolve ==
  \A m \in missions :
    Verifier!CommandsResolve(
      Collected(m, "safety/events"),
      {[command_id |-> RobotCommandId(c)] : c \in Collected(m, "robot/command_request")})
=============================================================================
