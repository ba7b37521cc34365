SPECIFICATION FairSpec
CONSTANTS
  Job = {j1, j2}
  Token = {t1, t2, t3, t4}
  NoToken = NoToken
  Budget = {1, 2}
  MaxArrivals = 1
INVARIANTS
  BudgetSpentExactly
  TokensFence
PROPERTIES
  TokensNeverReturn
  EveryJobEnds
CHECK_DEADLOCK FALSE
