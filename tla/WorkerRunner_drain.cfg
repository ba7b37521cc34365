SPECIFICATION Spec
CONSTANTS
  Consumer = {c1}
  Job = {j1}
  NoToken = NoToken
  Off = Off
  MaxAttempts = 1
  BatchSize = 1
  LeaseDuration = 3
  RenewInterval = 1
  DrainTimeout = 1
  Prompt = TRUE
  MaxSignals = 0
SYMMETRY Symmetry
INVARIANT
  AbandonedIsRecoverable
CHECK_DEADLOCK FALSE
