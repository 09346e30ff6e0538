-------------------------- MODULE MCMissionEvidence --------------------------
(* A mission that stands before it scans, as the shipped missions do; the   *)
(* scan takes longer than the payload manager allows.                      *)
EXTENDS MissionEvidence

StandAndScan ==
  <<[target |-> "robot", command_type |-> "stand", duration_sec |-> 1, twist |-> NoTwist],
    [target |-> "payload", payload_type |-> "camera", command_type |-> "scan",
     duration_sec |-> 1, twist |-> NoTwist]>>

Direct(payload, command) ==
  [payload_type |-> payload, command_type |-> command, duration_sec |-> 0,
   operator_id |-> Anonymous, run |-> 0]

\* None of them is a scan by the camera.
OtherPayloads ==
  {Direct("camera", "stop"), Direct("camera", "zoom"), Direct("sensor", "scan"),
   Direct("gripper", "start")}

EvidenceChannels ==
  {PayloadInbox, CameraInbox} \cup
  {Inbox(t) : t \in {"mission/state", "mission/events", "payload/result",
                       "payload/state", "perception/events"}}

\* With what the report manager collects of the commands and of the checks.
CheckedChannels ==
  EvidenceChannels \cup {Inbox("safety/events"), Inbox("robot/command_request")}

CalmOnly == {[prompt |-> TRUE, states_first |-> TRUE, operator_waits |-> TRUE]}
=============================================================================
