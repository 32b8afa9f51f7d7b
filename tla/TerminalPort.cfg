SPECIFICATION FairSpec
CONSTANTS
  Scenarios <- OneAtATime
INVARIANTS
  EditorAlone
  ClosedCooked
  InStep
  DrawTracked
  AnswersAwaited
PROPERTIES
  ScreenReturns
  SessionEnds
