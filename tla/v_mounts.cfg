SPECIFICATION FairSpec
CHECK_DEADLOCK FALSE
CONSTANTS
    Versions = {1, 2}
    Scenarios <- OnlyNewVolume
PROPERTIES
    ObjectsConverge
