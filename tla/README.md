# A TLA+ model of ORIMUS

ORIMUS drives an inspection robot: an operator at a dashboard starts a mission,
a mission manager works through its steps, a safety gate stands in front of the
robot, a payload manager in front of the camera, and a report manager keeps the
evidence that auditors verify later.  The nodes are ROS 2 (rclpy) processes; the
backend and the dashboard talk to them through one HTTP bridge.  This directory
holds a model of that system, checked by TLC on small instances, and theorems
about it proved with TLAPS for every instance.

Paths below are relative to `src/`; `ros2/` stands for `ros2_ws/src/`.

## The system

```
 dashboard --HTTP/SSE--> backend --HTTP--> mission_api_bridge
                                              | mission/command
                                              v
                                        mission_manager --mission/state, mission/events--+
                    robot/command_request |         | payload/command_request            |
                                          v         v                                    |
 other publishers ----------------> safety_manager  payload_manager                      |
                          robot/command |           | payload/command                    |
                                        v           v                                    |
                                  mock_go2x_driver  inspection camera                    |
                                        |           |                                    v
                                        +-- states, results, safety/events ------> report_manager
                                                                                    | JSON file, SQLite
                                                                                    v
                                                          backend: reports, evidence, replay
```

Every ROS node runs `rclpy.spin` on the default single-threaded executor, so a
node's callbacks never interleave with each other; nodes interleave freely.
All publishers and subscriptions have QoS depth 10 (KEEP_LAST, reliable,
volatile): in order per topic and reader, unordered between topics, and a full
queue loses its oldest message.

### Inventory

| Component | State it keeps | Operations | Hard behaviours | What makes it correct |
|---|---|---|---|---|
| mission_manager `ros2/mission_manager` | four flags, step index, step start, pause stamp, commanding operator | start, pause, resume, cancel, reset, unknown command, tick | any order of commands; pauses of any length; an unsupported step target ends the process | flags, index and stamps stay consistent; no step is cut short; every change is announced; a mission that does not run has asked the robot to stop |
| safety_manager `ros2/safety_manager` | emergency stop latch | handle a command request | latch set before the robot has stopped; queues that overflow; NaN speeds | with the latch set, the stop has arrived or is the newest command under way; limits hold at the robot |
| mock_go2x_driver `ros2/mock_go2x_driver` | mode, speeds, its own emergency stop, pose | handle a command, 10 Hz state timer | commands already forwarded when the stop is requested; nobody watches for a lost commander | an emergency-stopped robot does not move; a lost commander leads to a safe state |
| report_manager `ros2/report_manager` | lists per topic, report run id, half-second timer, written flag, JSON file, SQLite | collect, open a run, write a report | topics unordered; a start within the half second; failure between file and database | each mission gets one report of its own, complete and final |
| payload_manager `ros2/payload_manager`, camera `ros2/mock_payloads` | payload states, busy flag, artifacts | route commands, scan, publish results | a resume repeats the scan; artifact ids with a resolution of a second | one result per scan that was asked for, each naming its artifact |
| mission_api_bridge `ros2/mission_api_bridge` | newest message per topic, histories | cache, serve GETs, publish commands | HTTP threads beside the executor; a history at its limit, where 0 means no limit | an event in the history can be read as a resource; commands are published once |
| backend command gateway `backend/app/main.py`, `mission_bridge_client.py`, `operator_policy.py`, `backend_audit.py` | audit table | authorise, audit, forward, map errors | timeouts after the command was published; retries; audit before effect | no command without an allowed audit row; no denied command forwarded |
| backend readiness `backend/app/readiness.py` | the time and the results of the last expensive checks, without a lock | check, cache | concurrent requests between the statements that read and replace the cache; outages during the checks | an outage shows once the time to live is over |
| evidence packages and verifier `backend/app/evidence_*.py`, `audit_*.py` | none of their own | build, hash, verify | files that change between two reads; reports whose commands are out of order | what the system writes verifies; what a bundle lists was not altered when it verifies |
| replay `backend/app/replay.py` | none | merge records to a timeline | ties and missing stamps | every record once, in order, no verdict before its command |
| dashboard `dashboard/app.js` | stream, watchdog, polling timers, selected report, shown report, replay and its timer | connect, fall back to polling, fetch, select, refresh, seek, play | answers out of order, a stream that never opens, selections during fetches | live data or polling, never neither; what is shown is what is selected |
| report and artifact stores, PDF, manifests, settings, severity | read-only | queries and formatting | none of their own | |
| interfaces, launch files, scripts, configuration | none | | no node is respawned | |

`PROJECT.json` lists the same components with their status, and under
`hazards` each place in the code where something can go wrong that a test would
hardly reach, with the properties that cover it.

## Modules

| Module | Models | Built on |
|---|---|---|
| `Topics` | the middleware as far as the nodes can tell: one bounded KEEP_LAST queue per subscription | |
| `Speeds` | Python's comparison, `min`, `max` and `abs` on floats, NaN included | |
| `MissionLifecycle` | abstract: what a follower of `mission/state` may rely on | |
| `MissionManager` | `mission_manager_node.py`: every command handler and the tick | `Topics`, implements `MissionLifecycle` |
| `MissionAttribution` | a history of the command that moved the mission, beside the operator it is attributed to | `MissionManager` |
| `SafetyManager` | `safety_manager_node.py`: gate, latch, speed limits | `Topics`, `Speeds` |
| `MockGo2X` | `mock_go2x_node.py`: commands, emergency stop, state timer | `Topics`, `Speeds` |
| `SafetyPipeline` | gate and driver behind any publisher | `SafetyManager`, `MockGo2X` |
| `MotionControl` | mission manager, other publishers, gate, driver; the manager may die | `MissionManager` and the above, implements `SafetyPipeline` |
| `ReportManager` | `report_manager_node.py`: collecting, opening, writing the file, the report's row and the tables of single records, the registry of artifacts | `Topics`, `ArtifactFiles` |
| `MissionReports` | mission manager and report manager under stated timing | `MissionManager`, `ReportManager` |
| `ArtifactFiles` | the artifact directory, which the camera writes and the report manager reads | |
| `PayloadManager` | `payload_manager_node.py`: blocking, shortening and forwarding payload commands | `Topics` |
| `InspectionCamera` | `mock_inspection_camera_node.py`: commands, the scan with its artifact, state timer | `Topics`, `ArtifactFiles` |
| `MissionEvidence` | a scanning mission from its command to the evidence in its report, and what the verifier finds in it | `MissionReports`, `PayloadManager`, `InspectionCamera`, an instance of `EvidenceVerifier` |
| `EvidenceVerifier` | `evidence_package.py`, `evidence_verifier.py`: hashes, packages, bundles and the verifier's checks, in their order, with their exit codes | |
| `EvidenceExport` | the backend's exports and downloads while files change, and the auditor's verifier on what may have been altered: `main.py`, `evidence_bundle.py`, `report_store.py`, `artifact_store.py` | `EvidenceVerifier` |
| `ReadinessCache` | `readiness.py`: the cached checks and the threads that read and replace them | |
| `BridgeCache` | the bridge's cached resources and event history, as HTTP threads may read them | |
| `ReplayTimeline` | `replay.py`: a report's frames, their order and filters | `EvidenceVerifier` |
| `ReportBrowser` | the dashboard's list of reports, selected report and replay, with their fetches | |
| `BackendReads` | the five readers beside one another | `ReadinessCache`, `BridgeCache`, `EvidenceExport`, `ReplayTimeline`, `ReportBrowser` |
| `CommandGateway` | backend and bridge between operators and `mission/command`: one thread per request on both sides, audit table, failures | |
| `LiveView` | what the operator sees: the bridge's caches, the backend's stream and the dashboard's stream, watchdog, retry and polling | |
| `TopicsLemmas`, `SafetyPipelineProofs`, `MissionManagerProofs`, `MotionControlProofs`, `MissionReportsProofs`, `MissionEvidenceProofs`, `BackendReadsProofs`, `CommandGatewayProofs` | the theorems; `BackendReadsProofs` holds those of `LiveView` too | |
| `MC*` | missions, messages, channels, policies and reports for TLC | |

### How the code maps to state and actions

A handler is one action.  Handlers take the queues as a parameter (`q`) because
a node's step first takes its message from its own queue and then publishes:
`HandleMissionCommand(msg, q)`, `SafetyStep`, `DriverStep`, `ReportStep(c)`.
What a handler publishes is an outbox, a function from topics to sequences, and
`Deliver` appends it to every subscription of the topic.  Names of variables are
the code's attribute names (`mission_paused`, `paused_at`, `report_timer`);
`estop_latched` is the gate's `estop_active` and `robot_estop` is the driver's,
which carry one name in the code.

Abstractions, each of them chosen so that no property can tell the difference:

* A twist is its magnitude (`linear`), its yaw rate and its `max_speed`; the
  direction does not matter to a limit.  Speeds are integers or NaN.
  Infinite speeds are left out.
* Stamps, ids, texts, pose and battery are left out; the driver's pose is
  reduced to `travelled`, whether a state update has moved it.
* `strip().lower()` of command names happens before the model's commands.
* `now` is a clock in steps of one, `MaxTime` caps it.  The tick may come at any
  moment; a tick that has nothing to do is a stutter.
* `active` (time the current step ran unpaused), `run` (which start the mission
  is in, modulo `RunIds`), `commands` and the run in every message are history:
  no handler reads them.
* Records of every topic but `mission/state` are collected alike by the report
  manager; they share one set, so that a repeated scan within one second, which
  repeats ids and contents, is one record.  A report id is a number.
* An artifact is its id: its contents are a function of it.  In
  `MissionEvidence` one unit of the clock is one second, the resolution of the
  camera's artifact ids; a mission stands for at least a second before it scans,
  as the shipped ones do, so two reports cannot name one artifact.
* Nothing reads the manager state that the payload manager publishes; it is left
  out.
* In `CommandGateway` a thread's step is what it does between two moments at
  which another thread, a failure or a timeout can come in: reading the policy,
  inserting the audit row, sending, publishing, answering.
* In `LiveView` the contents of the bridge's caches are a version number, and a
  timer is the time left until it fires.  `ServerTurns` puts the backend and the
  way to it into one: up, silent (connections stay, nothing comes), dead.  A
  server that is up answers within one unit.  A fetch for which the browser has
  no connection left is not counted; the next one asks the same.
* In `EvidenceVerifier` the hash of a value is the set of the value, so that
  different values have different hashes; a bundle's manifest, file list and
  checksums are what the checks compare, and a zip whose members are not in order
  is one that is not sorted.
* In `BackendReads` one subject is looked at in each behaviour.  The five share
  no state, so all of them together show nothing that one of them does not.
* In `ReadinessCache` a step is what a thread does between two statements of the
  cache; two expensive checks, one of a required and one of an optional
  dependency, stand for the six.  `adjacent` is the premise that no thread comes
  in between two neighbouring statements; `OutageReported` needs it for answers
  from the cache.
* In `BridgeCache` messages are their numbers.  The callbacks of events take the
  lock twice, and the state between is one that a reader can find.
* In `ReplayTimeline` a stamp is an integer and `Resolution` of them become one
  floating-point second; a record without a stamp counts as the beginning.
* In `ReportBrowser` a fetch is a record in `sent` and its answer may be any that
  the server can give; at most one fails.  `in_order` is the premise that
  answers come in the order of the requests.
* In pause, resume, cancel and reset the code publishes on several topics; since
  nothing orders two topics, only the order within a topic is kept.

## Runs

| Run | Question | Bounds |
|---|---|---|
| `mission` | Do flags, index, stamps and published messages stay consistent under any commands of two operators, starting by themselves or not? Does the node keep its life cycle? | three steps of 2, 0 and 1 time units, seven units: room for a whole mission with pauses in it and a restart; queues of one, which keep the newest message, the only one the properties read |
| `pipeline` | Do emergency stop and speed limits hold at the robot for any requests? Does an emergency stop arrive? | depth 2, so that queues overflow and a stop can displace or be displaced; walks above, at and without a limit, one with NaN; the gate's limit of 3 is below the driver's own 5, so that a walk with NaN is one above the limit; every command, one unknown to the driver, one not allowed |
| `motion` | Is the robot told to rest whenever the mission does not run, whatever emergency stops, overflow and a crash do in between, and does it come to rest? Is there a way around the gate? | a walk, a scan and a stop; depth 2 |
| `motion_lost` | Does it come to rest when its commander dies? It does not: see findings | the same |
| `reports` | Does each mission get one complete and final report of its own? Which of it needs prompt messages, states before other messages, an operator who waits for the report? Does a mission left alone get on? | every combination of the three; three commands: a start, an end, and another start or end; the database may fail |
| `reports_hasty` | Is the waiting operator needed? It is: see findings | the same commands, without a waiting operator |
| `mission_evidence` | Does a report hold the evidence of its mission's scans, linked to it and to it alone? | a mission that stands and scans, three commands (a start, a pause and a resume repeat the scan; a start, an end and a start make two reports), payload commands from elsewhere among them; four seconds |
| `mission_attribution` | Is a mission attributed to whoever moved it? Not always: see findings | two operators, one unit of time |
| `gateway` | Do policy, audit trail, answers and effects agree, whatever fails between? | two requests, for the properties speak of one request or of a pair; two operators, a policy and a missing one; a permitted, a sometimes permitted and an unsupported command |
| `live_view` | Does the dashboard always have a way to its data and back to the stream? Does it come to what the bridge knows? Does it leave healthy streams alone? | one unit is five seconds: polling every 1 (2 s rounded up), retry after 3, heartbeats every 4, watchdog after 9; two changes of the caches, so that an answer can be older than what is shown and newer than nothing; two fetches in flight, so that they can overtake each other |
| `evidence_unresolved` | Does every safety event of a report name one of its robot commands? No: see findings | as `mission_evidence` |
| `backend_reads` | What do readers get while others change it? Does an outage show in readiness? Can announced events be read? Does what is exported verify, and nothing whose listed members were altered? Is a replay in order? Is the shown report the selected one? | three readiness requests (two tear the cache and the third reads it), two checks, a time to live of 2, one outage; history limits 0, 1 and 2 with four messages; five reports (sound, commands out of order, an event that names no command, changed after it was written, a speed that is no number), two of its artifacts to read, each of them present, empty or missing, changing at any step; replays of three commands and two verdicts with every tie; four actions of the operator on two reports, in any order of the answers |

Depth 10 in the code is 1 or 2 in the runs where queues are meant to overflow;
the depth is a parameter, and what is proved is proved for all depths.  The
report and evidence runs keep 10, more than a run of theirs can publish before
it is taken.

Deadlock is checked except in `reports`, `reports_hasty` and `gateway`, where
operators may have sent all that the bounds let them, and in `backend_reads`,
where requests are answered and nothing is left to do.

The passing runs also check themselves: for every property a seeded fault
(`mutants` in `PROJECT.json`, the definitions marked "Seeded fault" in the
modules) makes TLC find it violated.

### Fairness

Weak fairness is given to what an executor does: callbacks for waiting messages
(`Gate`, `Drive`, `Collect`), the mission manager's tick (`Advance`) and the
report manager's timer (`HalfSecond`).  `rclpy.spin` runs every ready callback
in turn, and none of them blocks on another.  A node that died does nothing: its
actions are disabled, and fairness does not revive it.  Operators, other
publishers, crashes, the clock and database failures have no fairness.

In `CommandGateway` each request's thread in the backend has weak fairness: it
goes on when it can, and while it waits for the bridge its five-second timeout
runs.  Nothing is owed by the bridge, so `EveryRequestAnswered` holds with a
bridge that hangs.

In `LiveView` the dashboard's timers and events, the stream's generator and the
answers of a server that is up have weak fairness, and time has strong fairness:
it passes though operators press buttons again and again.  Failures and
recoveries have none; the liveness properties speak of what happens once a server
stays up.

The `timing` of `MissionReports` is not fairness.  Its three parts are premises
of the properties that need them: `prompt`, messages reach a reader in less than
the report timer's half second; `states_first`, of several waiting messages the
executor serves subscriptions in the order of their creation, `mission/state`
first; `operator_waits`, the next command comes after the report.  TLC finds a
violation of `RecordsComplete` when any of them is dropped.

So are `adjacent` in `OutageReported` and `in_order` in `ShowsSelected`.  Without
`adjacent` three requests are enough for an old answer: one has stored the time
of its checks and not yet the checks, and a reader takes the older ones that
they are to replace as fresh.  Without `in_order`, or when the fetch of a
clicked report fails, the report on display is not the one an export delivers.

### What the export verdicts mean

`ExportVerdict` says what an auditor can rely on.  An export that nothing
disturbed gets the verdict that its report deserves: `Owed` reads it off the
report alone (its stored hash, the order of its lists, the commands its safety
events name), while the verifier gets there by way of package, manifest and
hashes.  `VerdictsOwed` shows that the five reports of the run reach the codes 0,
1 and 3.

A bundle that verifies has the package and lists the artifacts that were
exported, with their contents.  `Alterations` are the changes that are made to it
afterwards: a listed member taken out or replaced, another report, an entry taken
from the manifest, members moved, and members added, with a safe or an unsafe
path, or as an artifact that the manifest does not list.  The verifier rejects an
unsafe path and ignores the other added members (`evidence_bundle.py:163-187`),
so a bundle with them verifies, and `ExportVerdict` says nothing of them.  A
bundle that is built anew with its hashes is not an alteration but another
bundle, and is not modelled.  A bundle vouches for the artifacts as they were
when they were read; it does not compare them with the registry's hash of the
time of the report, which a download does.

## What is proved

All theorems hold for every value of the constants that the named assumptions
admit; TLC evaluates those assumptions in its runs.  Where a theorem needs more
than the assumptions, its hypotheses are named definitions, and what happens
without them is said below.

* `TopicsLemmas` (from `DepthAssumption`): a queue cut to its depth is no longer
  than that and keeps its newest message.
* `SafetyPipelineProofs` (from `DepthAssumption`, `PipelineAssumption` and the
  assumptions of `SafetyManager` and `MockGo2X`): `TypeCorrect`,
  `EstopGateHolds`, `EstoppedRobotStands`, `RobotWithinLimits` and
  `LatchedRobotKeepsStill`.  The inductive invariant `PipelineInv` joins the type
  invariant, `EstopGate` and `EstopHolds` with a fact they do not state: every
  walk in the driver's queue has passed the gate's limits (`SlowQueue`).  From it
  follows `SpeedLimited`, an action property: speeds change only when the driver
  takes a command, and stay within the bound of that command (`SpeedKept`).  The
  bound is the gate's limit when `max_speed` is a number and the driver's own
  speed when it is not; nothing is assumed of how the two compare.  `EstopGate` is
  inductive only with the newest message of a full queue in it: KEEP_LAST drops
  the oldest, so an emergency stop that is the newest stays it, for the gate lets
  nothing follow while it is latched.
* `MissionManagerProofs` (from `MissionAssumption`, `DepthAssumption`):
  `MissionTypeCorrect`, `StepClockExact`, `StepsServed` and `LifecycleKept`, the
  refinement of `MissionLifecycle`; `StatesAnnounced` and `HaltsRequested`, that
  is `NewestStateIsCurrent` and `HaltRequested` for every depth.  The latter is an
  action property: it holds while a mission is paused or canceled, and at a reset
  out of a mission that has not completed, after which no flag tells of the run
  (`HaltSaid`).  The inductive
  invariant `MissionInv` adds to the type invariant how the flags go together
  (`FlowOK`: a paused mission has started and has not ended, a running one has a
  step), that pauses lie in the past, and `StepClock`.  For the messages: each
  handler publishes one message or none on `mission/state` and on
  `robot/command_request`; one message becomes the newest of its queue and none
  leaves the newest where it is, however much a full queue loses (`Published`).
* `MotionControlProofs` (from the assumptions of `MotionControl` and of the
  modules it extends): `PipelineImplemented`, the refinement of `SafetyPipeline`
  by mission manager, other publishers, gate and driver: every handler of the
  mission manager publishes to the gate what some publisher could, one request
  or none, and everything else it does is a stutter of the pipeline.
  `GuaranteesKept` carries the pipeline's invariants over, whatever missions and
  operators ask for.  `HaltsReachRobot` proves `HaltPending` for missions with
  `EndsAtRest` (the last motion step before the end leaves the robot at rest and
  the gate allows a stop) and other publishers with `DirectAtRest` (they send
  resting commands only).  The code sends no stop when a mission completes
  (`mission_manager_node.py`, `advance_step`), so both are needed; the shipped
  missions end with stop and sit.  The invariant `RestInv` says that while the
  mission is not under way, or its last motion was one that rests, the newest
  command between mission manager and robot, or else the robot, is at rest.
* `MissionReportsProofs` (from the assumptions of `MissionReports` and of the
  modules it extends).  Under every timing and with every failure of the
  database: `ReportsConsistent`, `TimersHaveReports` and `WrittenReportsStay`,
  by `ReportInv`, which joins `ArmedTimerHasReport` with `IdsFresh`: every report
  in the database has an id that was drawn, and the lists that no report holds
  yet have none of these, so that INSERT OR REPLACE never replaces.
  - `ReportsEndOneMission`, with no further hypothesis, by `EndingsReported`:
    while operators wait, a terminal state in the queue is the newest one and the
    mission stays stopped until its report is written, so that no later state can
    follow an end into the same lists.
  - `RecordsBelong` proves `NoForeignRecords` for missions that operators start
    (`OperatorsStart`) and queues with room for all the states of the commands
    and steps in between (`StatesFit`).  The invariant: a bound on what waits
    (`QueuesFit`), all that waits or is collected is about one run
    (`OneRunQueued`), and every record of the lists is about a run that the lists'
    states name or that a state in the queue will add (`RecordsOwned`).  TLC
    refutes the property without either hypothesis: with depth 1 the event of a
    rejected command survives while both "created" and the start are lost, and with
    the parameter `autostart` a reset is followed at once by the next start, into
    whose report the reset's event comes.  The launch file sets `mission_autostart`
    to false (`ros2/bringup/launch/mock_go2x.launch.py:36`); the node's default is
    true (`mission_manager_node.py:55`).
  - `EventsRecorded` proves `RecordsComplete` for `OperatorsStart` and queues with
    room for the events (`EventsFit`), by `EventsFollow`: the event that announces
    a start or an end is in the lists, in the tables, or waits behind its state.
* `MissionEvidenceProofs` (from the above and `EvidenceAssumption`):
  `EvidenceStaysLinked` and `EvidenceOfOne` prove `EvidenceLinked` and
  `EvidenceOfOneReport` for every state in which `Orderly` holds: the report's
  timer fires once the topics are drained (`prompt`) and operators wait.  The
  hypothesis `StandsFirst` says that a mission's first step takes a second and is
  no scan by the camera, as it is in all shipped missions
  (`configs/missions/`), and `DirectsDoNotScan` that nobody but the mission
  manager asks for scans.  Artifact ids are seconds, so this is an argument about
  time.  `ClaimsInv`: scans that are under way get an id that no report has
  (`ScansLater`); for a mission that runs stands in a later second than the last
  report's scans, once it is past its first step (`StepsLater`, by the mission
  manager's own clock: a step ends only after its duration, and a resume moves its
  start forward); what waits or is collected is in no report (`Unclaimed`); and so
  a new report takes over no row of the registry (`LinkedOnce`).  `FilesExist`
  says that whatever is named was written at a time that has come.  These rest on
  the invariants of the reports, which the payload path does not disturb
  (`PassesKeeps`).

  `ScansAreEvidenced` proves `ScansEvidenced` for every state in which `Calm`
  holds (nothing overtakes anything, operators wait), by following each request
  over the queues of five topics.  `Followed`: for every event that says that a
  scan was requested, while it waits or is collected, the scan is on its way to
  the camera, or its perception event, a result that names the same artifact and
  a state of the camera wait or are collected (`Evident`); while a start waits to
  be collected, all of it still waits, so that reopening the lists takes nothing
  from it.  `Evidenced` says the same of the reports' rows, where nothing is on
  its way any more, for a report is written when the queues are empty.  `PathsFit`
  bounds what is between a request and its evidence by the commands and the steps
  so far, and so no queue drops any of it; the camera's states may be dropped, but
  the newest of them is always there.  TLC found this invariant to hold on the
  instance of `MissionEvidence.cfg` before it was proved.  The hypotheses:
  `OnlyScans` (payload steps are scans by the camera, and scans are allowed: so it
  is in all missions of `configs/missions/` with the payload manager's default
  parameters), `OperatorsStart` and `StatesFit` as above (`MaxCommands` counts the
  commands of a whole behaviour, so with the code's depth of 10 this covers ten
  less the mission's steps), and `DirectsArePayloads`: others may ask for
  anything, scans included.
* `BackendReadsProofs` (from the assumptions of the five readers and of
  `LiveView`):
  - `SnapshotsStayConsistent`, for every positive limit of the history, and for all
    limits in what can be read.  `BridgeInv` says
    that the history is the end of all that was announced (`HistoryIsTail`), and
    that the event on its way to the history is younger than those in it and
    already a resource (`Announced`).
  - `OutagesAreReported`, for any number of readers and checks: `ReadinessInv` ties
    the cached time and results, each of which may be the older one between two
    statements, to what the dependencies were when they were checked.
  - `DownloadsMatch` and `ExportsJudged`, for any reports, registries, files and
    changes while a request is served, without premises.  `PackageJudged` is the
    step from the package that `build_evidence_package` makes to the report alone:
    the verifier ends with what `Owed` says of the report, for every report.
  - `SelectedIsShown`, for any lists of reports and any number of selections and
    refreshes, by what the fetches that are still unanswered will put on display
    (`BrowserInv`).
  - `ReplaysInOrder`, for any reports, filters and resolution of the clock.  In a
    finite total order the number of elements at or before one is its place, and
    places and elements correspond one to one (`PlacesTaken`, `StandsAt`): this
    holds of the stable sort and again of the frames that the filter keeps, so a
    replay is the matching records, each once, in the sort's order
    (`ReplayPlaces`); and all commands are built before all verdicts (`AllFrames`).
    `TimelyReports` is needed for what is shown first: no verdict is stamped
    before all the commands that have its id.
  - `ReadersServed`: all of them side by side, none disturbing another.
  - `LiveTypeCorrect`, `DataPathAlwaysKept` and `HealthyStreamsKept` of `LiveView`.
    The last one is arithmetic over the four intervals: the watchdog of a healthy
    stream has waited no longer than the stream's last heartbeat is old, and once a
    heartbeat is due, the wait and the time to the next round together stay within
    `HeartbeatEvery + PollEvery + 1` (`WaitOK`), which the patience exceeds.
* `CommandGatewayProofs` (from `GatewayAssumption`): `GatewayTypeCorrect`,
  `PublishedCommandsWereAllowed`, `StatusesTellEffects`, `DecisionsRecorded`,
  `PublishedInOrder` and `AuditOnlyGrows`, for every number of requests.  The
  inductive invariant `GatewayInv` says for each request what audit table and
  bridge may know of it at each stage of its thread: nothing before the decision
  is recorded (`Undecided`); once the bridge has it, exactly one allowing row
  (`Permitted`), which no later failure takes back; exactly one publication when
  the bridge says so and none before (`PublishedByBridge`).  None of the
  properties is inductive alone: that a published command was allowed depends on
  a row that was written two steps earlier.  `OrderInv` adds that what was answered
  before a request was sent stays answered, so that a 200 among it was published
  before the request existed.

Model-checked only:

* liveness (`EstopReachesRobot`, `HaltedRobotRests`, `PatientMissionsReported`,
  `ImplementsLifecycleProgress`, `EveryRequestAnswered`, `DisplayCatchesUp`,
  `StreamResumes`, `OutageShown`), which is out of the prover's reach.

## Findings

* `motion_lost`, `LostManagerRests`: `docs/safety_assumptions.md:89` promises
  "If communication is lost, the robot should enter a safe state."  A walk's
  speeds stay in force until the next command; neither the gate nor the driver
  watches for the one who sent them, so a mission manager that dies during a walk
  leaves the robot walking.
* `reports_hasty`, `EveryMissionReported`: `docs/decision_log.md:252`, "ORIMUS
  should persist finalized mission reports to SQLite".  A start within the half
  second before the last mission's report is written does not open new lists
  (`report_manager_node.py:257`).  The report then written holds both missions'
  states so far and marks the lists as written, so the new mission's end arms no
  timer: that mission has no report.
* `mission_attribution`, `AttributedToCommander`: `docs/decision_log.md:355`,
  "The audit trail needs to show who issued a command, including which actions
  were unattributed."  `handle_mission_command` replaces the current operator
  before it knows whether the command does anything
  (`mission_manager_node.py:146`), so an ignored start, a resume of a mission
  that is not paused or an unknown command attributes the steps, events and robot
  commands that follow to its sender.
* `evidence_unresolved`, `SafetyEventsResolve`:
  `docs/evidence_package_schema_v1.md:113`, "Every `command_id` referenced by a
  safety event exists in `mission_report.robot_commands`."  The payload manager's
  safety events carry the id of a payload command
  (`payload_manager_node.py:80`), which is not among them: a scan that is
  shortened makes the verifier reject the export of an unaltered report.

Seen on the way, without a run of its own:

* A bridge that dies with a request in its hands raises a transport error that
  `request_bridge_json` does not catch (`mission_bridge_client.py:37`): the
  operator sees 500, where `docs/backend_api_contract.md:140-147` names 503 for a
  bridge that is unavailable.  `CommandGateway` models the 500.
* `annotate_runtime_resource` reads `data["events"]` of the bridge's answer
  (`event_severity.py:103`), which is `{"resource": ..., "data": ...}`: GET
  `/runtime/events` answers an empty list whatever the history holds.
* Play without frames shows "Pause" and starts no timer (`app.js`,
  `toggleReplayPlayback`); a clicked report whose fetch fails leaves the old one
  on display while an export delivers the clicked one.
* A `max_speed` that is no number passes the gate's `min` with it
  (`safety_manager_node.py:148`), and the driver falls back to its own 0.5
  (`mock_go2x_node.py:97`).  With `max_linear_speed` set below 0.5 such a walk is
  above the limit, which `mock_go2x.launch.py:28` calls the "Maximum allowed
  linear speed in meters per second."  `SpeedLimited` states the bound that is
  left; with `MaxLinear` as the bound of every walk TLC finds it violated.
* `event_history_limit` 0 keeps every event (`mission_api_bridge_node.py:263`,
  `events[-0:]`), where `docs/decision_log.md:232` asks for "a bounded rolling
  event history".  The model keeps them too; `SnapshotsConsistent` bounds the
  history for positive limits only.
* A bundle to which members were added that its manifest does not list verifies
  with exit 0, where `docs/demo_operator_walkthrough.md:267` says "valid exports
  pass, altered exports fail with scriptable exit codes."

## Not modelled

* Reading the mission file and writing the completion marker: file access before
  and after a mission.
* `operator_from_details` on JSON that is not an object.
* Pose, battery and their integration; infinite speeds.
* Creating the report database, its columns and indices.
* A policy file that is not YAML; the queries of the audit table.
* In the dashboard, a browser without `EventSource`, throttled timers of a page
  in the background, the limit of connections that several tabs share, and all
  rendering but the stream's status and the version shown.
* Lists of missions, readiness and audit rows in the dashboard: one fetch each,
  whose answer replaces what is shown.  In the report browser, URL parameters
  that are no numbers and the times they may name.
* Audit packages: the steps of the evidence packages over rows that never change.
* `GET /reports/latest` and the other readers of the JSON file, which may be in
  the middle of being written; PDF, manifests, mission files and settings:
  formatting and parsing without state.
* The filters of the report and artifact lists; `register_artifact`, which the
  backend never calls.  Bundles that are no zip and packages that are no JSON.
* Message types, launch files and scripts: they fix what the modules assume (no
  node is respawned, the parameters' defaults).  See `components` in
  `PROJECT.json`.

## Plan

Done: the mission and its life cycle, the motion path, reports, the payload path
with its evidence, attribution, the command gateway, the live view, evidence
exports with their verifier, readiness, the bridge's cache, replays and the
report browser; theorems for every safety property of the passing runs.
Left: robot commands out of order in the reports that `MissionEvidence` produces,
with commands that carry their stamps.
