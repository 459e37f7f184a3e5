\* The mock provider: two users who may take part, one of whom pays twice; a refund, a release.
SPECIFICATION Spec
CONSTANTS
  r1 = r1  r2 = r2  u1 = u1  u2 = u2  k1 = k1
  NoKey = NoKey  NoInvoice = NoInvoice
  Users = {u1, u2}
  Requests = {r1, r2}
  UserOf <- SameUser
  KeyOf <- NoKeys
  Refunds = {f1}
  Admins = {a1}
  Provider = "mock"
  PaymentType = "escrow"
  Amount = 1
  MaxEvents = 0
  MaxFaults = 0
\* Every handler may be done and every customer away.
CHECK_DEADLOCK FALSE
INVARIANT PaidInFull
SYMMETRY RequestSymmetry
