SPECIFICATION FairSpec
CONSTANTS
  c1 = c1
  c2 = c2
  c3 = c3
  k1 = k1
  k2 = k2
  Callers = {c1, c2, c3}
  Keys = {k1, k2}
  Limit = 1
  MaxRefs = 3
  MaxCrashes = 1
INVARIANTS TypeOK Bookkeeping SlotsUsed StreamsBounded NoLeak
PROPERTIES NoOvertaking QueuedIsServed
CHECK_DEADLOCK FALSE
