--------------------------- MODULE InspectionCamera ---------------------------
(***************************************************************************)
(* The mock_inspection_camera node: a scan writes an artifact and then     *)
(* publishes a result and a perception event that name it.  Ids are made   *)
(* of the second of the scan, sec.  Its state goes out after every command *)
(* and, by a timer, once a second.                                         *)
(***************************************************************************)
EXTENDS Integers, Topics, ArtifactFiles

CONSTANT CameraType   \* the payload_type of the camera

VARIABLES
  camera_active,
  camera_state

camera == <<camera_active, camera_state>>

CameraStates == {"idle", "initialized", "active", "calibrated", "scanning"}

CameraInbox == Channel("payload/command", "mock_inspection_camera")

CameraInit == camera_active = FALSE /\ camera_state = "idle"

\* Seeded fault: ids of a coarser clock.
ArtifactIdCoarse(sec) == sec \div 4

ArtifactId(sec) == sec

Result(artifact, r) == [artifact_id |-> artifact, success |-> TRUE, run |-> r]

PersonDetected(artifact, r) ==
  [event_type |-> "person_detected", artifact_id |-> artifact, run |-> r]

PayloadState(active, state) == [payload_id |-> CameraType, active |-> active, state |-> state]

\* What a command makes the camera publish: the results of a scan, its state.
CameraOutbox(results, events, active, state) ==
  [t \in {"payload/result", "perception/events", "payload/state"} |->
     CASE t = "payload/result" -> results
       [] t = "perception/events" -> events
       [] t = "payload/state" -> <<PayloadState(active, state)>>]

ScanOutbox(artifact, r) ==
  CameraOutbox(<<Result(artifact, r)>>, <<PersonDetected(artifact, r)>>, TRUE, "scanning")

\* Seeded fault: the file of a scan is not written.
RunScanUnwritten(msg, sec, q) ==
  /\ camera_active' = TRUE
  /\ camera_state' = "scanning"
  /\ queue' = Deliver(q, ScanOutbox(ArtifactId(sec), msg.run))
  /\ UNCHANGED artifact_files

\* run_scan: the artifact first, then the messages that name it.
RunScan(msg, sec, q) ==
  /\ camera_active' = TRUE
  /\ camera_state' = "scanning"
  /\ artifact_files' = artifact_files \cup {ArtifactId(sec)}
  /\ queue' = Deliver(q, ScanOutbox(ArtifactId(sec), msg.run))

Configure(msg, q) ==
  /\ \/ /\ msg.command_type = "initialize"
        /\ camera_active' = FALSE /\ camera_state' = "initialized"
     \/ /\ msg.command_type = "start"
        /\ camera_active' = TRUE /\ camera_state' = "active"
     \/ /\ msg.command_type = "stop"
        /\ camera_active' = FALSE /\ camera_state' = "idle"
     \/ /\ msg.command_type = "calibrate"
        /\ camera_state' = "calibrated" /\ UNCHANGED camera_active
     \/ /\ msg.command_type \notin {"initialize", "start", "stop", "calibrate", "scan"}
        /\ UNCHANGED camera
  /\ queue' = Deliver(q, CameraOutbox(<< >>, << >>, camera_active', camera_state'))
  /\ UNCHANGED artifact_files

\* handle_command; a command for another payload is none of its business.
CameraStep(sec) ==
  /\ queue[CameraInbox] # << >>
  /\ LET msg == Head(queue[CameraInbox])
         q == Taken(CameraInbox)
     IN  \/ /\ msg.payload_type # CameraType
            /\ queue' = q
            /\ UNCHANGED <<camera, artifact_files>>
         \/ /\ msg.payload_type = CameraType
            /\ IF msg.command_type = "scan" THEN RunScan(msg, sec, q) ELSE Configure(msg, q)

\* publish_state by the timer; at most one state that nobody has taken waits.
CameraTimer ==
  /\ queue[Channel("payload/state", "report_manager")] = << >>
  /\ queue' = Deliver(queue, [t \in {"payload/state"} |->
                               <<PayloadState(camera_active, camera_state)>>])
  /\ UNCHANGED <<camera, artifact_files>>
=============================================================================
