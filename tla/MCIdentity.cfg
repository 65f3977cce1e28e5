\* A registration and a login, and three calls that register the same address, log
\* in, refresh or log out with any token a client holds, over two ticks.
SPECIFICATION Spec
CONSTANTS
  r1 = r1
  l1 = l1
  f1 = f1
  f2 = f2
  f3 = f3
  None = None
  Calls = {r1, l1, f1, f2, f3}
  KindsOf <- MCKindsOf
  Forms <- MCForms
  Spellings <- MCSpellings
  Address <- MCAddress
  Passwords = {"p", "q"}
  RefreshTTL = 2
  AccessTTL = 1
  Leeway = 1
  MaxClock = 2
SYMMETRY Symm
INVARIANTS ChainsAreSound EndedIsOver ReuseEndsChain AnsweredIsStored
CHECK_DEADLOCK FALSE
