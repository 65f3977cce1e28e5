CONSTANTS
  pay = pay  sell = sell  odd = odd  bad = bad  m1 = m1  m2 = m2  None = None
  EventIds = {pay, sell, odd, bad}
  Remote = {sell}
  Ignored = {odd}
  Poison = {bad}
  Members = {m1, m2}
  MaxAttempts = 2
  MaxLog = 3
  MaxFailures = 2
SPECIFICATION ConsumerFairSpec
INVARIANTS ClaimsMatchEffects NothingPassedOver
PROPERTIES MessagesSettle
CHECK_DEADLOCK FALSE
