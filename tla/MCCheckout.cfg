CONSTANTS
  c1 = c1  c2 = c2  c3 = c3  k1 = k1  shirt = shirt  shoes = shoes
  None = None
  Calls = {c1, c2, c3}
  Keys = {k1}
  Carts = {shirt, shoes}
  KeyOf <- MCKeyOf
  CartOf <- MCCartOf
SPECIFICATION CheckoutFairSpec
INVARIANTS OneOrderPerKey AnswersAreOrders HoldsMatchOrders
PROPERTIES CallsEnd
CHECK_DEADLOCK FALSE
