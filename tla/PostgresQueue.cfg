SPECIFICATION Spec
CONSTANTS
  Job = {j1, j2}
  Session = {s1, s2}
  Token = {t1, t2}
  NoToken = NoToken
  Absent = Absent
  Lease = {1, 2}
  Policy <- TwoTriesOnly
  Age = {1}
  Limit = {1, 2}
  MaxTime = 3
  MaxInserts = 2
  MaxArrivals = 2
SYMMETRY Symmetry
INVARIANTS
  LeaseIsExclusive
PROPERTIES
  ImplementsContract
CHECK_DEADLOCK FALSE
