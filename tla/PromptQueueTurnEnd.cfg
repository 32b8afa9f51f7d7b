SPECIFICATION Spec
CONSTANTS
  MaxPrompts = 1
  Commands = {}
  MaxRetries = 1
  MaxFaults = 0
  MaxSends = 2
  MaxChains = 0
  MaxStops = 0
  MaxInbox = 1
INVARIANT TurnEndDrains
CHECK_DEADLOCK FALSE
