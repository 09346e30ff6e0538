------------------------- MODULE MCMissionAttribution -------------------------
(* Two steps without duration and two operators.                           *)
EXTENDS MissionAttribution

RobotStep(type) ==
  [target |-> "robot", command_type |-> type, duration_sec |-> 0, twist |-> NoTwist]

StandAndSit == <<RobotStep("stand"), RobotStep("sit")>>

EventObserver == {Channel("mission/events", "observer")}
=============================================================================
