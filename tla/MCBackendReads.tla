----------------------------- MODULE MCBackendReads -----------------------------
(* Three concurrent readiness requests, so that one can read what two have *)
(* torn; a report with two artifacts; replays with ties.                   *)
EXTENDS BackendReads, TLC

Checks == <<"artifact_root", "ros_bridge">>

SameReaders == Permutations(Readers)

Record(stamp, id, command) == [stamp |-> stamp, id |-> id, command_id |-> command]

Report(commands, verdicts) ==
  [report_id |-> "r1", content_hash |-> NoHash, finite |-> TRUE,
   mission_states |-> <<Record(1, "started", NoId), Record(4, "completed", NoId)>>,
   mission_events |-> <<Record(1, "mission_started", NoId), Record(3, "step_started", NoId)>>,
   robot_commands |-> commands, safety_events |-> verdicts,
   perception_events |-> <<Record(3, "person_detected", NoId)>>,
   payload_results |-> <<Record(NoStamp, "inspection", NoId)>>]

\* hash_report: write_report hashes the report before it has its hash.
Written(r) == [r EXCEPT !.content_hash = HashMissionReport(r)]

Command(stamp, id) == Record(stamp, id, id)

Sound ==
  Written(Report(<<Command(1, "walk"), Command(2, "stop")>>, <<Record(2, "speed_limit", "walk")>>))

\* A forwarded copy keeps its stamp: collected behind the next request.
OutOfOrder ==
  Written(Report(<<Command(1, "walk"), Command(2, "stop"), Command(1, "walk")>>, << >>))

\* A payload command's event: its id is not one of the robot's.
Unresolved ==
  Written(Report(<<Command(1, "walk")>>, <<Record(3, "payload_duration_limit", "scan")>>))

\* The row was changed after the report was written.
Changed == [Sound EXCEPT !.robot_commands = <<Command(1, "walk")>>]

\* A request with a speed that is no number.
NoNumber == Written([Report(<<Command(1, "walk")>>, << >>) EXCEPT !.finite = FALSE])

SomeReports == {Sound, OutOfOrder, Unresolved, Changed, NoNumber}

\* The reports reach three of the verifier's exit codes.
ASSUME VerdictsOwed ==
  /\ \A r \in {Sound, NoNumber} : Owed(r) = ExitValid
  /\ Owed(Changed) = ExitHashMismatch
  /\ \A r \in {OutOfOrder, Unresolved} : Owed(r) = ExitSemanticFailure

Bytes(content, size) == [content |-> content, size |-> size]

\* The camera's text, and a file that was emptied to be written again.
ScanOrEmpty == {Bytes("scan", 1), Bytes("empty", 0)}

Row(a, r, inside) ==
  [artifact_id |-> a, report_id |-> r, inside |-> inside, sha256_hash |-> Hash(Bytes("scan", 1))]

\* Two artifacts of the report, two of another, one of them elsewhere; the
\* fifth artifact is not registered.
Rows5 == {Row(1, "r1", TRUE), Row(2, "r1", TRUE), Row(3, "r2", TRUE), Row(4, "r2", FALSE)}

\* Up to three commands and a verdict on one of them, given after its first
\* copy was sent.
CommandLists ==
  {<<Command(t, "walk"), Command(u, "stop"), Command(t, "walk")>> : t, u \in 0..3}

SomeReplays ==
  {Report(l, <<Record(t, "speed_limit", "walk"), Record(NoStamp, "unknown", "scan")>>) :
     l \in CommandLists, t \in 0..4}

TimelyReplays ==
  {r \in SomeReplays : r.robot_commands[1].stamp <= r.safety_events[1].stamp}

SomeFilters == [category : {Everything, "safety"}, since : {0, 1}, command_id : {Everything, "walk"}]

\* All reports, none, and what a filter leaves; one replay has no frames.
SomeLists == {<< >>, <<1, 2>>, <<2>>}
SomeFrames == <<0, 2>>
=============================================================================
