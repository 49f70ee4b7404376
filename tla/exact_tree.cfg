CONSTANTS
    Versions = {1, 2}
    MaxEdits = 2
    MaxGates = 2
    MaxBuilds = 2
    MaxKills = 1
SPECIFICATION ReleaseSpec
INVARIANT ExactTreeShips
CHECK_DEADLOCK FALSE
