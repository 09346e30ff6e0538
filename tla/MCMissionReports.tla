-------------------------- MODULE MCMissionReports --------------------------
(* A mission of one walk and one operator, under any timing and under      *)
(* prompt messages with an operator who does not wait.                     *)
EXTENDS MissionReports

OneWalk == <<[target |-> "robot", command_type |-> "walk_velocity", duration_sec |-> 0,
              twist |-> NoTwist]>>

StatesAndEvents == {Inbox("mission/state"), Inbox("mission/events")}

Hasty == {[prompt |-> TRUE, states_first |-> TRUE, operator_waits |-> FALSE]}
=============================================================================
