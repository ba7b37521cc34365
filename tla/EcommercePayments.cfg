SPECIFICATION Spec
CONSTANTS
  o1 = o1
  v1 = v1
  paypal = paypal
  stripe = stripe
  Order <- OneOrder
  Variant = {v1}
  Items <- Quantities
  Target = {"paid"}
  MaxSupply = 0
  Payment <- BothProviders
  OrderOf <- TheOrder
  Paypal = {paypal}
  Mismatched = {}
  Handler = {h1, h2}
  Nobody = Nobody
  MaxFaults = 1
SYMMETRY Symmetry
INVARIANTS
  OneCapturer
  AuditsPrevail
  MarkedIsSettled
  PaidIsCaptured
PROPERTIES
  ImplementsOrders
CHECK_DEADLOCK FALSE
