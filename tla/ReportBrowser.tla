----------------------------- MODULE ReportBrowser -----------------------------
(***************************************************************************)
(* The dashboard's reports: a list, the selected report, and its replay.   *)
(* Three fetches follow one another, each made of what is selected when    *)
(* the one before is answered, and another selection or another refresh    *)
(* may begin between any two of them.                                      *)
(***************************************************************************)
EXTENDS Integers, Sequences

CONSTANTS
  ReportLists,   \* what GET /reports may answer: sequences of ids, from 1
  FrameCount,    \* FrameCount[id]: how many frames a report's replay has
  MaxActions     \* the operator does at most this much

NoReport == 0

ASSUME BrowserAssumption ==
  /\ FrameCount \in [DOMAIN FrameCount -> Nat] /\ DOMAIN FrameCount \subseteq Nat \ {NoReport}
  /\ ReportLists \subseteq Seq(DOMAIN FrameCount)
  /\ MaxActions \in Nat

VARIABLES
  selectedReportId,
  reports,
  latestReport,    \* the report that was fetched last
  shown_report,    \* the report on display
  replay_of,       \* the report whose frames are in replayFrames, or NoReport
  replayIndex,
  url_frame,       \* the URL's parameter frame, or -1 without it
  replayPlaying, replayTimer,
  replay_enabled,  \* whether the buttons of the replay are
  sent,            \* fetches that were not answered, in the order of sending:
                   \* [of, by, id]
  in_order,        \* whether they are answered in that order
  failed,          \* history: whether a fetch has failed
  actions          \* history: how often the operator has done something

playback == <<replay_of, replayIndex, url_frame, replayPlaying, replayTimer, replay_enabled>>
selection == <<selectedReportId, reports, latestReport, shown_report>>
browser_vars == <<selection, playback, sent, in_order, failed, actions>>

FetchList == [of |-> "list", by |-> "refresh", id |-> NoReport]
FetchReport(by, id) == [of |-> "report", by |-> by, id |-> id]
FetchReplay(id) == [of |-> "replay", by |-> "refresh", id |-> id]

\* refreshAll, as the page loads.
BrowserInit ==
  /\ selectedReportId = NoReport /\ reports = << >>
  /\ latestReport = NoReport /\ shown_report = NoReport
  /\ replay_of = NoReport /\ replayIndex = 0 /\ url_frame = -1
  /\ replayPlaying = FALSE /\ replayTimer = FALSE /\ replay_enabled = TRUE
  /\ sent = <<FetchList>>
  /\ in_order \in BOOLEAN
  /\ failed = FALSE
  /\ actions = 0

StopReplayPlayback == replayPlaying' = FALSE /\ replayTimer' = FALSE

\* Seeded fault: the frames stay loaded.
RenderReportUnavailableButReplay ==
  /\ shown_report' = NoReport
  /\ StopReplayPlayback
  /\ UNCHANGED <<replay_of, replayIndex, url_frame, replay_enabled>>

RenderReportUnavailable ==
  /\ shown_report' = NoReport
  /\ replay_of' = NoReport
  /\ StopReplayPlayback
  /\ UNCHANGED <<replayIndex, url_frame, replay_enabled>>

-----------------------------------------------------------------------------
(* Answers.                                                                *)

Others(i) == SubSeq(sent, 1, i - 1) \o SubSeq(sent, i + 1, Len(sent))

\* refreshLatestReport has the list: it keeps a selection, or makes one.
ListAnswered(i) ==
  /\ sent[i].of = "list"
  /\ reports' \in ReportLists
  /\ selectedReportId' = IF selectedReportId = NoReport /\ reports' # << >>
                         THEN Head(reports') ELSE selectedReportId
  /\ IF selectedReportId' # NoReport
     THEN /\ sent' = Append(Others(i), FetchReport("refresh", selectedReportId'))
          /\ UNCHANGED <<shown_report, playback>>
     ELSE sent' = Others(i) /\ RenderReportUnavailable
  /\ UNCHANGED <<latestReport, failed>>

\* The report is shown, and refreshReplay asks for the replay of what is
\* selected now.
ReportAnswered(i) ==
  /\ sent[i].of = "report"
  /\ latestReport' = sent[i].id
  /\ shown_report' = sent[i].id
  /\ StopReplayPlayback
  /\ sent' = IF selectedReportId = NoReport THEN Others(i)
             ELSE Append(Others(i), FetchReplay(selectedReportId))
  /\ UNCHANGED <<selectedReportId, reports, replay_of, replayIndex, url_frame, replay_enabled, failed>>

Clamp(value, low, high) ==
  IF value < low THEN low ELSE IF value > high THEN high ELSE value

\* setReplayFrame; without frames there is none to set.
SetReplayFrame(index, of) ==
  replayIndex' = IF FrameCount[of] = 0 THEN replayIndex ELSE Clamp(index, 0, FrameCount[of] - 1)

\* refreshReplay goes on: the URL may name a frame to begin with.
ReplayAnswered(i) ==
  /\ sent[i].of = "replay"
  /\ replay_of' = sent[i].id
  /\ SetReplayFrame(IF url_frame = -1 THEN 0 ELSE url_frame, sent[i].id)
  /\ replay_enabled' = (FrameCount[sent[i].id] > 0)
  /\ sent' = Others(i)
  /\ UNCHANGED <<selection, url_frame, replayPlaying, replayTimer, failed>>

\* A refresh that fails shows no report; nobody catches the failure of a
\* report that was selected; a replay that fails has no frames.
FetchFails(i) ==
  /\ ~failed
  /\ failed' = TRUE
  /\ sent' = Others(i)
  /\ \/ /\ sent[i].of # "replay" /\ sent[i].by = "refresh"
        /\ latestReport' = NoReport /\ reports' = << >>
        /\ RenderReportUnavailable
        /\ UNCHANGED selectedReportId
     \/ sent[i].by = "click" /\ UNCHANGED <<selection, playback>>
     \/ /\ sent[i].of = "replay"
        /\ replay_of' = NoReport
        /\ UNCHANGED <<selection, replayIndex, url_frame, replayPlaying, replayTimer, replay_enabled>>

Answered ==
  /\ \E i \in 1..Len(sent) :
       /\ in_order => i = 1
       /\ ListAnswered(i) \/ ReportAnswered(i) \/ ReplayAnswered(i) \/ FetchFails(i)
  /\ UNCHANGED <<in_order, actions>>

-----------------------------------------------------------------------------
(* The operator.                                                           *)

\* refreshLatestReport: the button, a command's end, or other filters, which
\* reset the selection.
RefreshLatestReport(resetSelection) ==
  /\ selectedReportId' = IF resetSelection THEN NoReport ELSE selectedReportId
  /\ sent' = Append(sent, FetchList)
  /\ UNCHANGED <<reports, latestReport, shown_report, playback>>

\* A click on one of the eight reports that the list shows.
SelectReport ==
  \E i \in 1..Len(reports) :
    /\ i <= 8
    /\ selectedReportId' = reports[i]
    /\ sent' = Append(sent, FetchReport("click", reports[i]))
    /\ UNCHANGED <<reports, latestReport, shown_report, playback>>

HasFrames == replay_of # NoReport /\ FrameCount[replay_of] > 0

\* The slider, next and previous; the URL keeps the frame.
SeekFrame ==
  /\ HasFrames
  /\ \E index \in -1..FrameCount[replay_of] : SetReplayFrame(index, replay_of)
  /\ url_frame' = replayIndex'
  /\ UNCHANGED <<selection, replay_of, replayPlaying, replayTimer, replay_enabled, sent>>

\* Without frames there is nothing to play: it says Pause, and has no timer.
ToggleReplayPlayback ==
  /\ replay_enabled
  /\ replayPlaying' = ~replayPlaying
  /\ replayTimer' = (replayPlaying' /\ HasFrames)
  /\ UNCHANGED <<selection, replay_of, replayIndex, url_frame, replay_enabled, sent>>

Operator ==
  /\ actions < MaxActions
  /\ actions' = actions + 1
  /\ (\E reset \in BOOLEAN : RefreshLatestReport(reset)) \/ SelectReport
     \/ SeekFrame \/ ToggleReplayPlayback
  /\ UNCHANGED <<in_order, failed>>

\* restartReplayTimer's interval: the next frame, or the end.
ReplayTimer ==
  /\ replayTimer
  /\ IF HasFrames /\ replayIndex < FrameCount[replay_of] - 1
     THEN /\ SetReplayFrame(replayIndex + 1, replay_of)
          /\ url_frame' = replayIndex'
          /\ UNCHANGED <<replayPlaying, replayTimer>>
     ELSE StopReplayPlayback /\ UNCHANGED <<replayIndex, url_frame>>
  /\ UNCHANGED <<selection, replay_of, replay_enabled, sent, in_order, failed, actions>>

BrowserNext == Answered \/ Operator \/ ReplayTimer

BrowserSafety == BrowserInit /\ [][BrowserNext]_browser_vars

-----------------------------------------------------------------------------
(* Properties.                                                             *)

\* What the operator sees and exports is one report: once all is answered, in
\* order and without a failure, the report on display, the one that copying its
\* hash copies, and the replay beside it are those of the selected report, which
\* is what an export asks for, however selections and refreshes overlapped; and
\* the frame on display is always one of the replay's.
ShowsSelected ==
  /\ in_order /\ ~failed /\ sent = << >> =>
       /\ shown_report = selectedReportId
       /\ replay_of = selectedReportId
       /\ selectedReportId # NoReport => latestReport = selectedReportId
  /\ HasFrames => replayIndex < FrameCount[replay_of]
=============================================================================
