SPECIFICATION FairSpec
CONSTANTS
    MaxPaste = 6
    MaxSequence = 8
    MaxScroll = 4
    MaxColumns = 500
    MaxRows = 200
    BufferSize = 16
    Scenarios <- MCScenarios
INVARIANTS
    HeardAsTyped
    RetentionBounded
    ScreenShowsFrame
PROPERTIES
    EverythingHeard
    ScreenCatchesUp
