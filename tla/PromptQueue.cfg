SPECIFICATION Spec
CONSTANTS
  MaxPrompts = 2
  Commands = {2}
  MaxRetries = 1
  MaxFaults = 3
  MaxSends = 1
  MaxChains = 1
  MaxStops = 2
  MaxInbox = 1
INVARIANTS TypeOK NothingLost InLine NeverStranded
CHECK_DEADLOCK FALSE
