SPECIFICATION BackendSafety
CONSTANTS
  Readers = {a, b, c}
  Expensive <- Checks
  Optional = {"ros_bridge"}
  TTL = 2
  LastSecond = 3
  MaxOutages = 1
  Limits = {0, 1, 2}
  MaxArrivals = 4
  Reports <- SomeReports
  Registry <- Rows5
  Artifacts = {1, 2, 3, 4, 5}
  Contents <- ScanOrEmpty
  ReplayReports <- TimelyReplays
  Filters <- SomeFilters
  Resolution = 2
  ReportLists <- SomeLists
  FrameCount <- SomeFrames
  MaxActions = 4
SYMMETRY SameReaders
INVARIANT OutageReported
INVARIANT SnapshotsConsistent
INVARIANT ExportVerdict
INVARIANT DownloadVerdict
INVARIANT ReplayInOrder
INVARIANT ShowsSelected
CHECK_DEADLOCK FALSE
