CONSTANTS
  c1 = c1  c2 = c2  c3 = c3  c4 = c4  h1 = h1  k1 = k1  k2 = k2  card = card  qr = qr  o1 = o1
  None = None
  MaxFaults = 1
  Calls = {c1, c2, c3, c4}
  Hooks = {h1}
  Keys = {k1, k2}
  Requests = {card, qr}
  Orders = {o1}
  KeyOf <- MCKeyOf
  RequestOf <- MCRequestOf
  OrderOf <- MCOrderOf
SYMMETRY Symm
SPECIFICATION Spec
INVARIANTS PaidOnce RecordsAreTrue AnswersAreAttempts DecisionsArrive
CHECK_DEADLOCK FALSE
