SPECIFICATION Spec
CONSTANTS
  Worker = {w1, w2}
  Job = {j1, j2}
  Nobody = Nobody
  MaxAttempts = 2
  MaxBuffer = 1
  MaxSignals = 2
  MaxEvictions = 1
  MaxFailures = 1
  MaxReruns = 1
SYMMETRY Symmetry
CONSTRAINT FewChanges
INVARIANTS
  NothingSkipped
  SettledOnce
CHECK_DEADLOCK FALSE
