----------------------------- MODULE ReplayTimeline -----------------------------
(***************************************************************************)
(* GET /reports/{id}/replay: the records of a report, list by list, made   *)
(* into frames, sorted by their time in seconds and filtered.  A stamp is  *)
(* finer than a second's floating-point number: Resolution stamps become   *)
(* the same one.  Titles, operators and severities are left out.           *)
(***************************************************************************)
EXTENDS EvidenceVerifier

CONSTANTS
  ReplayReports,   \* the reports that the database may hold
  Filters,         \* [category, since, command_id], Everything for no filter
  Resolution

Everything == "everything"

\* The lists that a replay is made of.
RecordLists(report) ==
  {report.mission_events, report.robot_commands, report.safety_events,
   report.perception_events, report.payload_results}

ASSUME ReplayAssumption ==
  /\ Resolution \in Nat \ {0}
  /\ \A r \in ReplayReports : \A list \in RecordLists(r) :
       /\ Len(list) \in Nat
       /\ \A i \in 1..Len(list) : list[i].stamp \in Nat \cup {NoStamp}

VARIABLES
  replay_report,
  replay_filter,
  replayed,   \* whether the request has been answered
  frames

replay_vars == <<replay_report, replay_filter, replayed, frames>>

ReplayInit ==
  /\ replay_report \in ReplayReports
  /\ replay_filter \in Filters
  /\ replayed = FALSE
  /\ frames = << >>

\* A record without a stamp counts as the beginning of time.
StampSeconds(stamp) == IF stamp = NoStamp THEN 0 ELSE stamp \div Resolution

BaseFrames(category, items) ==
  [i \in 1..Len(items) |->
     [timestamp_sec |-> StampSeconds(items[i].stamp), category |-> category,
      source_id |-> items[i].id, command_id |-> items[i].command_id]]

\* Seeded fault: the gate's verdicts come before the commands.
BuildAllFramesSafetyFirst(report) ==
  BaseFrames("mission", report.mission_events)
  \o BaseFrames("safety", report.safety_events)
  \o BaseFrames("command", report.robot_commands)
  \o BaseFrames("perception", report.perception_events)
  \o BaseFrames("payload", report.payload_results)

BuildAllFrames(report) ==
  BaseFrames("mission", report.mission_events)
  \o BaseFrames("command", report.robot_commands)
  \o BaseFrames("safety", report.safety_events)
  \o BaseFrames("perception", report.perception_events)
  \o BaseFrames("payload", report.payload_results)

\* Where Python's sort, which is stable, puts the i-th of the frames.
SortedPlace(all, i) ==
  Cardinality({j \in 1..Len(all) :
                 \/ all[j].timestamp_sec < all[i].timestamp_sec
                 \/ all[j].timestamp_sec = all[i].timestamp_sec /\ j <= i})

SortedByTime(all) ==
  [k \in 1..Len(all) |-> all[CHOOSE i \in 1..Len(all) : SortedPlace(all, i) = k]]

FrameMatches(frame, filter) ==
  /\ filter.category \in {Everything, frame.category}
  /\ frame.timestamp_sec >= filter.since
  /\ filter.command_id \in {Everything, frame.command_id}

\* The frames that match, in the order they have.
KeptFrames(sorted, filter) ==
  LET kept == {i \in 1..Len(sorted) : FrameMatches(sorted[i], filter)}
  IN  [k \in 1..Cardinality(kept) |->
         sorted[CHOOSE i \in kept : Cardinality({j \in kept : j <= i}) = k]]

BuildReplayFrames(report, filter) == KeptFrames(SortedByTime(BuildAllFrames(report)), filter)

GetReplay ==
  /\ ~replayed
  /\ replayed' = TRUE
  /\ frames' = BuildReplayFrames(replay_report, replay_filter)
  /\ UNCHANGED <<replay_report, replay_filter>>

-----------------------------------------------------------------------------
(* Properties.                                                             *)

CommandIds(report) == {c.command_id : c \in Items(report.robot_commands)}

\* A replay tells what happened in its order: time never goes back, no verdict
\* of the gate is shown before the command it is about, also when both fall
\* into one floating-point number and whatever order the report has its
\* commands in; and every record that passes the filter is shown, once.
ReplayInOrder ==
  replayed =>
    /\ \A i, j \in 1..Len(frames) : i < j => frames[i].timestamp_sec <= frames[j].timestamp_sec
    /\ replay_filter.category = Everything /\ replay_filter.since = 0 =>
         \A i \in 1..Len(frames) :
           frames[i].category = "safety" /\ frames[i].command_id \in CommandIds(replay_report) =>
             \E j \in 1..(i - 1) : /\ frames[j].category = "command"
                                   /\ frames[j].command_id = frames[i].command_id
    /\ LET all == BuildAllFrames(replay_report)
           matching == {i \in 1..Len(all) : FrameMatches(all[i], replay_filter)}
       IN  /\ Len(frames) = Cardinality(matching)
           /\ \A i \in matching : \E k \in 1..Len(frames) : frames[k] = all[i]
=============================================================================
