SPECIFICATION FairSpec
CONSTANTS
    Scenarios <- ContinueScenarios
PROPERTIES
    ContinueHeard
