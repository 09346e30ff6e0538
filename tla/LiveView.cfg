SPECIFICATION Spec
CONSTANTS
  PollEvery = 1
  RetryAfter = 3
  HeartbeatEvery = 4
  WatchdogAfter = 9
  MaxVersion = 1
  MaxPolls = 2
INVARIANT DataPathKept
INVARIANT HealthyStreamKept
PROPERTY DisplayCatchesUp
PROPERTY StreamResumes
PROPERTY OutageShown
