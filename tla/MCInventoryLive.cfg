CONSTANTS
  o1 = o1  o2 = o2
  r1 = r1  r2 = r2
  t1 = t1  t2 = t2
  None = None
  Orders = {o1, o2}
  Reservations = {r1, r2}
  Txns = {t1, t2}
  SKUs <- MCSKUs
  Baskets <- MCBaskets
  MaxQty = 1
  Deltas = {}
  TTL = 1
  MaxClock = 2
  MaxStock = 0
  BatchSize = 1
SPECIFICATION TwoHoldsFairSpec
PROPERTY ExpiredHoldsEnd
