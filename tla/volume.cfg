SPECIFICATION FairSpec
CONSTANTS
    MaxSize = 3
    Online = TRUE
    RoundsUp = FALSE
    Stops = TRUE
    MaxEdits = 3
    MaxFaults = 2
INVARIANTS
    TypeOK
    SettledAsAsked
    VolumeInv
PROPERTIES
    RaisedWhileStopped
    ExpansionCompletes
CHECK_DEADLOCK FALSE
