CONSTANTS
  o1 = o1  o2 = o2
  Orders = {o1, o2}
  Window = 1
  TTL = 9
  Interval = 1
  MaxBackoff = 1
  BatchSize = 1
  CheckoutLag = 9
  Lag = 9
  MaxTime = 3
  MaxFailures = 1
SPECIFICATION FairSpec
PROPERTIES EverythingSettles
CHECK_DEADLOCK FALSE
