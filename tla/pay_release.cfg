\* One payment, a refund and an admin release, with one crash or failed call.
SPECIFICATION FairSpec
CONSTANTS
  r1 = r1  r2 = r2  u1 = u1  u2 = u2  k1 = k1
  NoKey = NoKey  NoInvoice = NoInvoice
  Users = {u1}
  Requests = {r1}
  UserOf <- OneUser
  KeyOf <- OneKey
  Refunds = {f1}
  Admins = {a1}
  Provider = "stripe"
  PaymentType = "escrow"
  Amount = 2
  MaxEvents = 2
  MaxFaults = 1
\* Every handler may be done and every customer away.
CHECK_DEADLOCK FALSE
INVARIANTS PaidIsFunded RecordsAreBacked
PROPERTIES CapturedIsCredited KeepsLedger
