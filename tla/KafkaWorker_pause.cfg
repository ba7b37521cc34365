SPECIFICATION Spec
CONSTANTS
  Worker = {w1}
  Job = {j1, j2}
  Nobody = Nobody
  MaxAttempts = 1
  MaxBuffer = 2
  MaxSignals = 4
  MaxEvictions = 0
  MaxFailures = 0
  MaxReruns = 0
SYMMETRY Symmetry
INVARIANT
  KeptAsideStaysUncommitted
CHECK_DEADLOCK FALSE
