--------------------------- MODULE MCMotionControl ---------------------------
(* Missions of a walk, a scan and a rest, with one operator.               *)
EXTENDS MotionControl

Step(target, type, twist) ==
  [target |-> target, command_type |-> type, duration_sec |-> 0, twist |-> twist]

Fast == [linear |-> 8, yaw |-> 0, max_speed |-> 8]

\* As the shipped missions do, it ends at rest.
Mission == <<Step("robot", "walk_velocity", Fast),
             [target |-> "payload", payload_type |-> "camera", command_type |-> "scan",
              duration_sec |-> 0, twist |-> NoTwist],
             Step("robot", "stop", NoTwist)>>

Direct(type) ==
  [command_type |-> type, twist |-> NoTwist, operator_id |-> Anonymous, run |-> 0]

EstopAndClear == {Direct("emergency_stop"), Direct("clear_estop")}

MotionChannels == {SafetyInbox, DriverInbox}
=============================================================================
