\* One payment and a refund.
SPECIFICATION Spec
CONSTANTS
  r1 = r1  r2 = r2  u1 = u1  u2 = u2  k1 = k1
  NoKey = NoKey  NoInvoice = NoInvoice
  Users = {u1}
  Requests = {r1}
  UserOf <- OneUser
  KeyOf <- OneKey
  Refunds = {f1}
  Admins = {}
  Provider = "stripe"
  PaymentType = "escrow"
  Amount = 1
  MaxEvents = 2
  MaxFaults = 0
\* Every handler may be done and every customer away.
CHECK_DEADLOCK FALSE
PROPERTY CancelledIsUncaptured
