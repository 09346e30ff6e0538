-------------------------- MODULE MissionAttribution --------------------------
(***************************************************************************)
(* Who answers for what a mission does: the mission manager puts           *)
(* current_operator_id into every event and command that it publishes.     *)
(* The history variable commander remembers whose command it really was    *)
(* that last started, paused, resumed, canceled or reset the mission.      *)
(***************************************************************************)
EXTENDS MissionManager

VARIABLE commander

attribution_vars == <<mission_vars, commander>>

\* A command moves the mission unless the handler leaves it as it was.
Moves == ~UNCHANGED <<current_step_index, flags, run>>

AttributedCommand ==
  /\ Command
  /\ commander' = IF Moves THEN current_operator_id' ELSE commander

AttributedTick ==
  /\ TimerTick
  /\ UNCHANGED commander

AttributedClock ==
  /\ ClockTick
  /\ UNCHANGED commander

AttributionNext == AttributedCommand \/ AttributedTick \/ AttributedClock

AttributionSafety ==
  MissionStart /\ commander = Anonymous /\ [][AttributionNext]_attribution_vars

-----------------------------------------------------------------------------
(* Properties.                                                             *)

\* The events that tell what the mission does are all that a report says of
\* who made it do so.
Announcements ==
  {"step_started", "robot_command_requested", "payload_command_requested",
   "mission_completed"}

\* What the mission does is attributed to the operator whose command it obeys,
\* not to one whose command had no effect.
AttributedToCommander ==
  \A c \in Channels :
    c.topic = "mission/events" /\ queue[c] # << >> =>
      LET newest == queue[c][Len(queue[c])]
      IN  newest.event_type \in Announcements => newest.operator_id = commander
=============================================================================
