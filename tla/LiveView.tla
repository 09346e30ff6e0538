------------------------------- MODULE LiveView -------------------------------
(***************************************************************************)
(* What the operator sees of the running mission: the bridge caches what   *)
(* it hears, the backend streams it to the dashboard as server-sent        *)
(* events, and the dashboard falls back to polling while it has no stream. *)
(*   bridge caches -> /runtime/state -> /runtime/stream -> EventSource     *)
(*                                   -> /runtime/state  -> fetch           *)
(* The contents of the caches are a version number.  A timer is the time   *)
(* left until it fires; what a server does that is up, and what it sends,  *)
(* takes less than one unit of time.                                       *)
(***************************************************************************)
EXTENDS Integers, Sequences

CONSTANTS
  PollEvery,      \* the interval of polling, and of the stream's states
  RetryAfter,     \* the dashboard's wait before it opens another stream
  HeartbeatEvery, \* the stream's interval between heartbeats
  WatchdogAfter,  \* the dashboard's patience with a stream without heartbeats
  MaxVersion,     \* bound: how often the bridge's caches change
  MaxPolls        \* bound: fetches in flight; browsers queue what is more

ASSUME LiveAssumption ==
  /\ PollEvery \in Nat \ {0} /\ RetryAfter \in Nat \ {0}
  /\ HeartbeatEvery \in Nat \ {0} /\ WatchdogAfter \in Nat \ {0}
  /\ MaxVersion \in Nat /\ MaxPolls \in Nat \ {0}

\* The dashboard is patient enough for a heartbeat that a round delays.
ASSUME PatienceAssumption == HeartbeatEvery + PollEvery + 1 < WatchdogAfter

VARIABLES
  version,      \* what the bridge's caches hold
  bridge,       \* "up", "hung" (it takes requests and does not answer), "down"
  server,       \* the backend and the way to it: "up", "silent", "dead"
  next_state,   \* the stream's generator: the time until its next state ...
  beat,         \* ... and since its last heartbeat, at most HeartbeatEvery
  wire,         \* the events of the stream on their way to the dashboard
  source,       \* the dashboard's EventSource: "none", "connecting", "open", or
                \* "broken" when the error event is due
  connected,    \* streamConnected
  stream_status,
  watchdog,     \* streamHeartbeatTimer
  retry_timer,  \* streamRetryTimer
  poll_timer,   \* runtimePollTimer, and readinessPollTimer with it
  fetches,      \* fetches of /runtime/state in flight
  shown,        \* the version on display
  steady        \* history: the server has been up since the stream opened

servers == <<version, bridge, server>>
stream == <<next_state, beat, wire>>
timers == <<watchdog, retry_timer, poll_timer>>
page == <<source, connected, stream_status>>
live == <<servers, stream, page, timers, fetches, shown, steady>>

Off == -1              \* of a timer
Free == -1             \* of a place for a fetch; otherwise the fetch is sent,
Sent == -2             \* or carries the version it read
Nothing == -1          \* on display

Versions == 0..MaxVersion
Places == 1..MaxPolls

Init ==
  /\ version = 0 /\ bridge = "up" /\ server = "up"
  /\ next_state = 0 /\ beat = HeartbeatEvery /\ wire = <<>>
  /\ source = "connecting" /\ connected = FALSE /\ stream_status = "pending"
  /\ watchdog = Off /\ retry_timer = Off /\ poll_timer = Off
  /\ fetches = [i \in Places |-> IF i = 1 THEN Sent ELSE Free]   \* refreshAll
  /\ shown = Nothing /\ steady = FALSE

-----------------------------------------------------------------------------
(* The dashboard.                                                          *)

ResetStreamHeartbeatWatchdog == watchdog' = WatchdogAfter

ActivatePollingFallback ==
  /\ connected' = FALSE
  /\ stream_status' = "fallback"
  /\ poll_timer' = IF poll_timer = Off THEN PollEvery ELSE poll_timer

StopPollingFallback == poll_timer' = Off

\* Seeded fault: the stream is not closed.
ScheduleStreamRetryOpen ==
  /\ retry_timer' = IF retry_timer = Off THEN RetryAfter ELSE retry_timer
  /\ UNCHANGED <<source, wire>>
\* Nothing more is heard of a stream that the dashboard closed.
ScheduleStreamRetry ==
  /\ source' = "none"
  /\ wire' = <<>>
  /\ retry_timer' = IF retry_timer = Off THEN RetryAfter ELSE retry_timer

StartRuntimeStream ==
  /\ source' = "connecting"
  /\ next_state' = 0
  /\ beat' = HeartbeatEvery
  /\ wire' = <<>>

Open ==
  /\ source = "connecting" /\ server = "up"
  /\ source' = "open"
  /\ connected' = TRUE
  /\ stream_status' = "live"
  /\ StopPollingFallback
  /\ ResetStreamHeartbeatWatchdog
  /\ steady' = TRUE
  /\ UNCHANGED <<servers, stream, retry_timer, fetches, shown>>

\* The event "error": the stream broke, or there is nobody to connect to.
Disconnect ==
  /\ \/ source = "broken"
     \/ source = "connecting" /\ server = "dead"
  /\ ActivatePollingFallback
  /\ ScheduleStreamRetry
  /\ UNCHANGED <<servers, next_state, beat, watchdog, fetches, shown, steady>>

\* Seeded fault: the fallback is taken for good.
WatchdogTimerFinal ==
  /\ watchdog = 0
  /\ watchdog' = Off
  /\ ActivatePollingFallback
  /\ UNCHANGED <<servers, stream, source, retry_timer, fetches, shown, steady>>
WatchdogTimer ==
  /\ watchdog = 0
  /\ watchdog' = Off
  /\ ActivatePollingFallback
  /\ ScheduleStreamRetry
  /\ UNCHANGED <<servers, next_state, beat, fetches, shown, steady>>

RetryTimer ==
  /\ retry_timer = 0
  /\ retry_timer' = Off
  /\ StartRuntimeStream
  /\ UNCHANGED <<servers, connected, stream_status, watchdog, poll_timer, fetches,
                 shown, steady>>

\* What the handlers of runtime_state and runtime_error make of an event; seeded
\* faults: neither is registered.
ShownAsBefore(event) == shown
StatusAsBefore(event) == stream_status
ShownAfter(event) == IF event.kind = "runtime_state" THEN event.version ELSE shown
StatusAfter(event) == IF event.kind = "runtime_error" THEN "degraded" ELSE stream_status

Dispatch ==
  /\ wire # <<>> /\ source = "open" /\ server = "up"
  /\ LET event == Head(wire) IN
       /\ shown' = ShownAfter(event)
       /\ stream_status' = StatusAfter(event)
       /\ IF event.kind = "heartbeat" THEN ResetStreamHeartbeatWatchdog
                                      ELSE UNCHANGED watchdog
  /\ wire' = Tail(wire)
  /\ UNCHANGED <<servers, next_state, beat, source, connected, retry_timer, poll_timer,
                 fetches, steady>>

\* refreshRuntime sends its request; its last lines run when the answer comes.
RefreshRuntime(i) == fetches[i] = Free /\ fetches' = [fetches EXCEPT ![i] = Sent]

PollTimer ==
  /\ poll_timer = 0
  /\ poll_timer' = PollEvery
  /\ \/ \E i \in Places : RefreshRuntime(i)
     \/ (\A i \in Places : fetches[i] # Free) /\ UNCHANGED fetches
  /\ UNCHANGED <<servers, stream, page, watchdog, retry_timer, shown, steady>>

\* The operator presses a button, not faster than answers come.
Press ==
  /\ \A i \in Places : fetches[i] = Free
  /\ \E i \in Places : RefreshRuntime(i)
  /\ UNCHANGED <<servers, stream, page, timers, shown, steady>>

Show(i) ==
  /\ fetches[i] \in Versions /\ server = "up"
  /\ shown' = fetches[i]
  /\ fetches' = [fetches EXCEPT ![i] = Free]
  /\ UNCHANGED <<servers, stream, page, timers, steady>>

-----------------------------------------------------------------------------
(* The backend and the bridge.                                             *)

\* GET /runtime/state: a snapshot of the caches, or an error, which leaves what
\* is on display as it is.
Serve(i) ==
  /\ server # "silent"
  /\ fetches[i] = Sent
  /\ fetches' = [fetches EXCEPT ![i] =
                   IF server = "up" /\ bridge = "up" THEN version ELSE Free]
  /\ UNCHANGED <<servers, stream, page, timers, shown, steady>>

\* Seeded fault: the age never exceeds the interval.
HeartbeatOverdue == beat > HeartbeatEvery
HeartbeatDue == beat >= HeartbeatEvery

\* One round of event_generator; what the last round sent has arrived.  A bridge
\* that does not answer holds it up for the five seconds of its timeout.
Generate ==
  /\ source = "open" /\ server = "up" /\ next_state = 0 /\ wire = <<>>
  /\ LET state == IF bridge = "up" THEN [kind |-> "runtime_state", version |-> version]
                                   ELSE [kind |-> "runtime_error"]
     IN wire' = IF HeartbeatDue THEN <<state, [kind |-> "heartbeat"]>> ELSE <<state>>
  /\ beat' = IF HeartbeatDue THEN 0 ELSE beat
  /\ next_state' = IF bridge = "hung" THEN PollEvery + 1 ELSE PollEvery
  /\ UNCHANGED <<servers, page, timers, fetches, shown, steady>>

\* A message arrives at the bridge and changes a cache.
Hear ==
  /\ bridge # "down" /\ version < MaxVersion
  /\ version' = version + 1
  /\ UNCHANGED <<bridge, server, stream, page, timers, fetches, shown, steady>>

\* A bridge that is started again has empty caches: other contents.
BridgeTurns ==
  /\ \E b \in {"up", "hung", "down"} \ {bridge} :
       /\ bridge' = b
       /\ bridge = "down" => version < MaxVersion
  /\ version' = IF bridge = "down" THEN version + 1 ELSE version
  /\ UNCHANGED <<server, stream, page, timers, fetches, shown, steady>>

\* A server that dies breaks its connections; one that is silent keeps them.
ServerTurns ==
  /\ server' \in {"up", "silent", "dead"} \ {server}
  /\ IF server' = "dead"
     THEN /\ source' = IF source = "none" THEN "none" ELSE "broken"
          /\ wire' = <<>>
          /\ fetches' = [i \in Places |-> Free]
     ELSE UNCHANGED <<source, wire, fetches>>
  /\ steady' = FALSE
  /\ UNCHANGED <<version, bridge, next_state, beat, connected, stream_status, timers, shown>>

-----------------------------------------------------------------------------
(* Time.                                                                   *)

Less(t) == IF t > 0 THEN t - 1 ELSE t

\* Whatever a server has to do or to answer that is not silent.
Settled ==
  /\ source # "connecting" /\ wire = <<>>
  /\ source = "open" => next_state > 0
  /\ \A i \in Places : fetches[i] = Free

\* Timers fire when they are due; the browser does not throttle the page.
Tick ==
  /\ source # "broken"
  /\ server # "silent" => Settled
  /\ watchdog # 0 /\ retry_timer # 0 /\ poll_timer # 0
  /\ watchdog' = Less(watchdog)
  /\ retry_timer' = Less(retry_timer)
  /\ poll_timer' = Less(poll_timer)
  /\ next_state' = Less(next_state)
  /\ beat' = IF beat < HeartbeatEvery THEN beat + 1 ELSE beat
  /\ UNCHANGED <<servers, wire, page, fetches, shown, steady>>

Dashboard == Open \/ Disconnect \/ WatchdogTimer \/ RetryTimer \/ Dispatch \/ PollTimer
Fetch(i) == Serve(i) \/ Show(i)

Next ==
  \/ Dashboard \/ Generate \/ Tick
  \/ \E i \in Places : Fetch(i)
  \/ Press \/ Hear \/ BridgeTurns \/ ServerTurns

Safety == Init /\ [][Next]_live

\* Timers fire, servers that are up answer, and time passes whatever else is
\* going on.  Operators, failures and news are owed by nobody.
Spec ==
  /\ Safety
  /\ WF_live(Dashboard) /\ WF_live(Generate)
  /\ \A i \in Places : WF_live(Fetch(i))
  /\ SF_live(Tick)

-----------------------------------------------------------------------------
(* Properties.                                                             *)

TypeOK ==
  /\ version \in Versions /\ bridge \in {"up", "hung", "down"}
  /\ server \in {"up", "silent", "dead"}
  /\ next_state \in 0..PollEvery + 1 /\ beat \in 0..HeartbeatEvery
  /\ wire \in Seq([kind : {"runtime_state"}, version : Versions]
                  \cup [kind : {"runtime_error", "heartbeat"}])
  /\ source \in {"none", "connecting", "open", "broken"} /\ connected \in BOOLEAN
  /\ stream_status \in {"pending", "live", "degraded", "fallback"}
  /\ watchdog \in Off..WatchdogAfter /\ retry_timer \in Off..RetryAfter
  /\ poll_timer \in Off..PollEvery
  /\ fetches \in [Places -> Versions \cup {Free, Sent}]
  /\ shown \in Versions \cup {Nothing} /\ steady \in BOOLEAN

\* The dashboard never gives up: it has a stream, or a timer runs after which
\* it will open one; never both, so it has no two streams.
NeverGivesUp == (source = "none") <=> (retry_timer # Off)

\* After the first attempt to open a stream the dashboard has a stream or
\* polls, and never polls beside a stream; the status tells which.
LiveOrPolling ==
  stream_status # "pending" =>
    /\ connected <=> (poll_timer = Off)
    /\ connected <=> (stream_status # "fallback")
    /\ connected => source \in {"open", "broken"}

\* An open stream is watched.
StreamWatched == source = "open" => watchdog # Off

\* However stream, watchdog, retry and polling alternate, the dashboard keeps
\* exactly one way to its data and a way back to the stream.
DataPathKept == NeverGivesUp /\ LiveOrPolling /\ StreamWatched

\* The watchdog does not bite a stream whose server has been up all the time,
\* though a bridge that hangs delays its heartbeats.
HealthyStreamKept == source = "open" /\ steady => watchdog > 0

\* While server and bridge are up, the display comes to what the bridge knows
\* and stays with it, whatever answers were still on their way.
DisplayCatchesUp == <>[](server = "up" /\ bridge = "up") => <>[](shown = version)

\* While the server is up, the stream comes back, and polling ends.
StreamResumes == <>[](server = "up") => <>[](connected /\ poll_timer = Off)

\* While the bridge does not answer, the stream is not shown as live.
OutageShown == <>[](server = "up" /\ bridge # "up") => <>[](stream_status # "live")
=============================================================================
