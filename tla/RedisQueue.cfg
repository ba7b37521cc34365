SPECIFICATION Spec
CONSTANTS
  Job = {j1, j2}
  Token = {t1, t2, t3}
  NoToken = NoToken
  Absent = Absent
  Lease = {1, 2}
  Policy <- TwoTriesOnly
  Age = {1}
  Limit = {2}
  RecoverLimit = 1
  MaxSequence = 4
  MaxTime = 3
  MaxArrivals = 2
SYMMETRY Symmetry
INVARIANTS
  IndexesAgree
  UpgradeMissesNothing
  LeaseIsExclusive
PROPERTIES
  PurgeRespectsRetention
  ImplementsContract
CHECK_DEADLOCK FALSE
