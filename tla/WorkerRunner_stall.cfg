SPECIFICATION StallSpec
CONSTANTS
  Consumer = {c1, c2}
  Job = {j1, j2}
  NoToken = NoToken
  Off = Off
  MaxAttempts = 2
  BatchSize = 2
  LeaseDuration = 3
  RenewInterval = 1
  DrainTimeout = 1
  Prompt = FALSE
  MaxSignals = 0
SYMMETRY Symmetry
INVARIANTS
  ReportIsTrue
  CompletedOnce
CHECK_DEADLOCK FALSE
