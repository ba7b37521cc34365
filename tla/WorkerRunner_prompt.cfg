SPECIFICATION FairSpec
CONSTANTS
  Consumer = {c1, c2}
  Job = {j1}
  NoToken = NoToken
  Off = Off
  MaxAttempts = 1
  BatchSize = 1
  LeaseDuration = 6
  RenewInterval = 2
  DrainTimeout = 1
  Prompt = TRUE
  MaxSignals = 2
INVARIANTS
  LeasesOutliveWork
PROPERTIES
  RunReturns
CHECK_DEADLOCK FALSE
