-------------------------- MODULE MCMissionManager --------------------------
(* A mission of three steps of different lengths, two operators.           *)
EXTENDS MissionManager

Walk == [linear |-> 2, yaw |-> 0, max_speed |-> 5]

RobotStep(type, duration, twist) ==
  [target |-> "robot", command_type |-> type, duration_sec |-> duration, twist |-> twist]
ScanStep(duration) ==
  [target |-> "payload", payload_type |-> "camera", command_type |-> "scan",
   duration_sec |-> duration, twist |-> NoTwist]

TimedSteps == <<RobotStep("walk_velocity", 2, Walk), ScanStep(0), RobotStep("sit", 1, NoTwist)>>

Observers == {Channel("mission/state", "observer"), Channel("robot/command_request", "observer")}
=============================================================================
