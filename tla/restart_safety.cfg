SPECIFICATION Spec
CONSTANTS
    MaxRestarts = 3
    SuccessfulLimit = 1
    FailedLimit = 1
    WritesDuringPass = TRUE
    MaxEdits = 1
    Deletable = TRUE
    FaultKinds = {"getDogu", "updateSpec", "updatePhase", "delete", "reportStopped", "crash"}
    MaxFaults = 1
INVARIANTS
    TypeOK
    CompletedMeansRestarted
    RestartInv
    HistoryBounded
    HistoryInv
PROPERTIES
    NewestKept
CHECK_DEADLOCK FALSE
