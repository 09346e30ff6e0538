-------------------------- MODULE MCSafetyPipeline --------------------------
(* The motion path with walks above, at and without a speed limit, every    *)
(* other command, one the driver does not know and one nobody allows.      *)
EXTENDS SafetyPipeline

Robot(type, twist) == [command_type |-> type, twist |-> twist, operator_id |-> "operator"]
Speeds3(l, y, m) == [linear |-> l, yaw |-> y, max_speed |-> m]
AtRest == Speeds3(0, 0, 0)

Walks == {Robot("walk_velocity", Speeds3(20, 20, 20)),
          Robot("walk_velocity", Speeds3(3, -20, 0)),
          Robot("walk_velocity", Speeds3(7, 0, NaN))}

AllRequests ==
  Walks \cup
  {Robot(t, AtRest) :
     t \in {"stop", "stand", "sit", "emergency_stop", "clear_estop", "dance", "fly"}}

Allowed == RobotCommands \cup {"dance"}

PathChannels == {SafetyInbox, DriverInbox}
=============================================================================
