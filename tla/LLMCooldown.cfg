SPECIFICATION FairSpec
CONSTANTS
  w1 = w1
  w2 = w2
  w3 = w3
  Writers = {w1, w2, w3}
  MaxUntil = 3
  MaxRestarts = 1
INVARIANT RaiseSticks
PROPERTIES NeverShortened WritersFinish
CHECK_DEADLOCK FALSE
