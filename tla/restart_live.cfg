SPECIFICATION FairSpec
CONSTANTS
    MaxRestarts = 3
    SuccessfulLimit = 1
    FailedLimit = 1
    WritesDuringPass = FALSE
    MaxEdits = 0
    Deletable = FALSE
    FaultKinds = {"updateSpec", "updatePhase", "delete"}
    MaxFaults = 2
PROPERTIES
    RestartsEnd
    DoguStartedAgain
CHECK_DEADLOCK FALSE
