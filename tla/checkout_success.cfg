\* An intent that Stripe could not open, shown as a success.
SPECIFICATION CheckoutSpec
CONSTANTS
  Providers = {"stripe"}
  MaxPayments = 1
  MaxMishaps = 0
CHECK_DEADLOCK FALSE
INVARIANT SuccessIsCharged
