SPECIFICATION WorkersFairSpec
CONSTANTS
  Capacity = 1
  MaxPublished = 3
  Call = {a1, a2}
  NoCall = NoCall
  BatchSize = 2
  MaxHandles = 2
  Enabled = {"completed", "failed"}
  BatchLimit = 1
  MaxDue = 1
  MaxJobs = 2
  Worker = {w1, w2}
  Job = {j1, j2}
  Nobody = Nobody
  MaxAttempts = 1
  MaxBuffer = 1
  MaxSignals = 0
  MaxEvictions = 1
  MaxFailures = 1
  MaxReruns = 0
  Consumer = {k1, k2}
  NoConsumer = NoConsumer
  Jobs = 1
  Retries = 0
  Formats = {TRUE}
  MaxRebalances = 1
  MaxFaults = 1
  Server = {s1}
  Tick = {t1, t2}
  PageSize = 2
  RetryLimit = 3
  MaxEvents = 2
  MaxCrashes = 1
INVARIANTS
  AppliedInOrder
  WholeBatches
  TopicNothingSkipped
  EventsAccounted
PROPERTIES
  LossDrains
  EndsTogether
  JobsSettle
  EventsSettle
CHECK_DEADLOCK FALSE
