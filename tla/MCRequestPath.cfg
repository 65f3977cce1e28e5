CONSTANTS
  c1 = c1
  Calls = {c1}
  Mains <- MCMains
  Units <- MCUnits
  MaxStops = 1
  MaxFaults = 1
  MaxAttempts = 2
  MinRequests = 3
  HalfOpenRequests = 2
  MaxWindow = 3
  Users = {"ann", "bob"}
  Owner = "ann"
  IdempotentMethods = {"CommitReservation"}
  Timeout = 1
  Arrivals <- MCArrivals
SPECIFICATION FairSpec
INVARIANTS  VerdictsAreDeserved StopsAreClean
PROPERTIES NothingHangs
