SPECIFICATION Spec
CONSTANTS
  Clients = {c1, c2}
  Approvals = {"auto", "ask", "read_only"}
  Turns <- MixedTurns
  MaxSteps = 2
  MaxControls = 2
  MaxWaiters = 1
  MaxEvents = 0
  MaxCommands = 2
  Commands = {"stop", "pause", "continue", "steer", "approve", "await"}
  SinkFails = FALSE
SYMMETRY ClientSymmetry
INVARIANTS
  LogInOrder
  SteersReachModel
  EveryCallAccounted
  NeverIdle
  WriteAhead
PROPERTIES
  ReleaseGate
CHECK_DEADLOCK FALSE
