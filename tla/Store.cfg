SPECIFICATION StoreSpec
CONSTANTS
  Server = {s1}
  Tick = {t1}
  PageSize = 2
  RetryLimit = 0
  MaxEvents = 2
  MaxCrashes = 1
  o1 = o1
  o2 = o2
  v1 = v1
  v2 = v2
  q1 = q1
  q2 = q2
  c1 = c1
  d1 = d1
  p1 = p1
  Order = {o1, o2}
  Variant = {v1, v2}
  Items <- ItemsMC
  Stock <- StockMC
  Request = {q1, q2}
  Webhook = {q1}
  Target = {"paid", "cancelled"}
  MaxSupply = 1
  CartOrder = {p1, p2}
  Ref = {r1, r2}
  Paypal = {r2}
  None = None
  Client = {c1, c2}
  Hook = {d1, d2}
  MaxEdits = 1
  MaxFaults = 1
INVARIANTS
  StockMatchesDone
  OneEventPerTransition
  OneLivePayment
  AnnouncedOnce
  NoForgottenSuccess
CHECK_DEADLOCK FALSE
