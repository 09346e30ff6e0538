------------------------------ MODULE BridgeCache ------------------------------
(***************************************************************************)
(* What mission_api_bridge keeps for GET /runtime/...: the newest message  *)
(* of every kind and a history of events.  The callbacks run one after the *)
(* other on the node's executor; HTTP threads read under the same lock, so *)
(* any state between two locked blocks is one that somebody reads.         *)
(* Messages are numbered in the order of arrival.                          *)
(***************************************************************************)
EXTENDS Integers, Sequences

CONSTANTS
  Limits,        \* values of the parameter event_history_limit
  MaxArrivals    \* at most this many messages arrive

ASSUME BridgeAssumption == Limits \subseteq Nat /\ MaxArrivals \in Nat

VARIABLES
  event_history_limit,
  arrivals,        \* how many messages have arrived
  latest,          \* latest[k]: the number of the newest message of kind k, or 0
  event_history,   \* <<kind, number>> of events, oldest first
  announcing,      \* << >>, or the event whose callback has yet to add it
  announced        \* history: all events that were added

bridge_vars == <<event_history_limit, arrivals, latest, event_history, announcing, announced>>

StateKinds == {"mission", "robot", "payload"}
EventKinds == {"perception", "safety"}   \* kept as a resource and in the history

BridgeInit ==
  /\ event_history_limit \in Limits
  /\ arrivals = 0
  /\ latest = [k \in StateKinds \cup EventKinds |-> 0]
  /\ event_history = << >>
  /\ announcing = << >>
  /\ announced = << >>

\* Seeded fault: the newest event is the one that is dropped.
NewestDropsNewest(events, limit) ==
  IF Len(events) > limit THEN SubSeq(events, 1, limit) ELSE events

\* Python's events[-limit:] of a list longer than limit, where -0 is 0.
Newest(events, limit) ==
  IF Len(events) > limit /\ limit > 0
  THEN SubSeq(events, Len(events) - limit + 1, Len(events))
  ELSE events

AddEvent(event) ==
  /\ event_history' = Newest(Append(event_history, event), event_history_limit)
  /\ announced' = Append(announced, event)

Arrive ==
  /\ announcing = << >>
  /\ arrivals < MaxArrivals
  /\ arrivals' = arrivals + 1
  /\ UNCHANGED event_history_limit

\* on_mission_state, on_robot_state, on_payload_state
OnState(k) ==
  /\ Arrive
  /\ latest' = [latest EXCEPT ![k] = arrivals']
  /\ UNCHANGED <<event_history, announcing, announced>>

\* on_mission_event, which the history alone keeps.
OnMissionEvent ==
  /\ Arrive
  /\ AddEvent(<<"mission", arrivals'>>)
  /\ UNCHANGED <<latest, announcing>>

\* on_perception_event, on_safety_event: the resource first, ...
OnEvent(k) ==
  /\ Arrive
  /\ latest' = [latest EXCEPT ![k] = arrivals']
  /\ announcing' = <<k, arrivals'>>
  /\ UNCHANGED <<event_history, announced>>

\* ... and, once the lock is free again, the history.
Announce ==
  /\ announcing # << >>
  /\ AddEvent(announcing)
  /\ announcing' = << >>
  /\ UNCHANGED <<event_history_limit, arrivals, latest>>

BridgeNext ==
  \/ \E k \in StateKinds : OnState(k)
  \/ OnMissionEvent
  \/ \E k \in EventKinds : OnEvent(k)
  \/ Announce

BridgeSafety == BridgeInit /\ [][BridgeNext]_bridge_vars

-----------------------------------------------------------------------------
(* Properties.                                                             *)

Kept == IF Len(announced) > event_history_limit THEN event_history_limit ELSE Len(announced)

\* Whoever reads an event in the history can read it, or a newer one, as the
\* resource of its kind; events are added in the order of their arrival; and the
\* history is a rolling one: it holds the newest events, as many as a positive
\* limit allows.  Nothing is said of a limit of 0, with which the code's history
\* grows without bound.
SnapshotsConsistent ==
  /\ event_history_limit > 0 =>
       /\ Len(event_history) = Kept
       /\ \A i \in 1..Kept : event_history[Kept + 1 - i] = announced[Len(announced) + 1 - i]
  /\ \A i, j \in 1..Len(announced) : i < j => announced[i][2] < announced[j][2]
  /\ \A i \in 1..Len(event_history) :
       event_history[i][1] \in EventKinds => latest[event_history[i][1]] >= event_history[i][2]
=============================================================================
