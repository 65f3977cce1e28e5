CONSTANTS
  o1 = o1  o2 = o2
  Orders = {o1, o2}
  Window = 1
  TTL = 4
  Interval = 1
  MaxBackoff = 2
  BatchSize = 1
  CheckoutLag = 1
  Lag = 1
  MaxTime = 5
  MaxFailures = 1
SPECIFICATION Spec
INVARIANTS OutcomesAgree MarginSuffices
SYMMETRY Symmetry
CHECK_DEADLOCK FALSE
