SPECIFICATION FairSpec
CONSTANTS
  Clients = {c1, c2}
  Approvals = {"auto"}
  Turns <- ShortTurns
  MaxSteps = 1
  MaxControls = 1
  MaxWaiters = 1
  MaxEvents = 1
  MaxCommands = 2
  Commands = {"stop", "pause", "continue"}
  SinkFails = TRUE
INVARIANTS
  LogMatches
PROPERTIES
  WritesAhead
  StopEnds
  CommandsAnswered
CHECK_DEADLOCK FALSE
