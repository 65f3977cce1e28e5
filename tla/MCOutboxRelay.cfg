CONSTANTS
  a = a  b = b  p1 = p1  p2 = p2  r1 = r1  r2 = r2
  Events = {1, 2, 3}
  Keys = {a, b}
  Partitions = {p1, p2}
  KeyOf <- MCKeyOf
  PartOf <- MCPartOf
  Relays = {r1, r2}
  BatchSize = 2
  MaxFaults = 2
SPECIFICATION FairSpec
INVARIANTS MarkedIsSent SentIsCommitted DeliveredInOrder
PROPERTIES EventsArrive
CHECK_DEADLOCK FALSE
