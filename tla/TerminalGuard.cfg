SPECIFICATION FairSpec
CONSTANTS
    Scenarios <- MCScenarios
INVARIANTS
    OneWriter
    HandedBack
    ExitAsFound
PROPERTIES
    HelperEnds
