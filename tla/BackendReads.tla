------------------------------ MODULE BackendReads ------------------------------
(***************************************************************************)
(* What the backend and the bridge serve to readers: readiness, runtime    *)
(* state, exports, replays, and the dashboard's reports.  None of them     *)
(* sees what another one does, so a behaviour of all is one of each beside *)
(* the others: it is enough to look at one subject at a time.              *)
(***************************************************************************)
EXTENDS ReadinessCache, BridgeCache, EvidenceExport, ReplayTimeline, ReportBrowser

VARIABLE subject   \* what is read

readers_vars == <<readiness_vars, bridge_vars, export_vars, replay_vars, browser_vars, subject>>

Subjects == {"readiness", "runtime", "export", "replay", "browser"}

\* A subject that is not looked at starts in one state of its own.
BackendInit ==
  /\ subject \in Subjects
  /\ ReadinessInit /\ (subject # "readiness" => adjacent /\ \A r \in Readers : fresh[r])
  /\ BridgeInit /\ (subject # "runtime" => event_history_limit = CHOOSE l \in Limits : TRUE)
  /\ ExportInit /\ (subject # "export" => endpoint = "export" /\ report = {})
  /\ ReplayInit /\ (subject # "replay" => /\ replay_report = CHOOSE r \in ReplayReports : TRUE
                                          /\ replay_filter = CHOOSE f \in Filters : TRUE)
  /\ BrowserInit /\ (subject # "browser" => in_order)

BackendNext ==
  /\ UNCHANGED subject
  /\ \/ subject = "readiness" /\ ReadinessNext
        /\ UNCHANGED <<bridge_vars, export_vars, replay_vars, browser_vars>>
     \/ subject = "runtime" /\ BridgeNext
        /\ UNCHANGED <<readiness_vars, export_vars, replay_vars, browser_vars>>
     \/ subject = "export" /\ ExportNext
        /\ UNCHANGED <<readiness_vars, bridge_vars, replay_vars, browser_vars>>
     \/ subject = "replay" /\ GetReplay
        /\ UNCHANGED <<readiness_vars, bridge_vars, export_vars, browser_vars>>
     \/ subject = "browser" /\ BrowserNext
        /\ UNCHANGED <<readiness_vars, bridge_vars, export_vars, replay_vars>>

BackendSafety == BackendInit /\ [][BackendNext]_readers_vars
=============================================================================
