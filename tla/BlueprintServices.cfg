SPECIFICATION Spec
CONSTANTS
  o1 = o1
  o2 = o2
  v1 = v1
  v2 = v2
  Order <- TwoOrders
  Variant <- TwoVariants
  Items <- Quantities
  Target = {"paid", "fulfilled", "cancelled"}
  MaxSupply = 1
  User = {u1}
  Token = {t1, t2}
  Cookie = {c1, c2, c3}
  State = {s1}
  Request = {r1, r2}
  None = None
  MaxPasswords = 1
  Event = {e1}
  Delivery = {d1, d2}
  Attempt = {a1, a2, a3}
  Nil = Nil
  MaxBreaks = 2
SYMMETRY Symmetry
INVARIANTS
  StockAccountsForOrders
  IssuedUnderCurrentPassword
  NeverRepeated
PROPERTIES
  NoIssueWhileBarred
  CookieNeverReturns
CHECK_DEADLOCK FALSE
