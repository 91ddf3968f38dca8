SPECIFICATION Spec
CONSTANTS
    DoguAccounts = {1, 3}
    Components = {2}
    CAS = {3}
    Optional = {2, 3}
    Restorable = TRUE
    Removable = {}
    MaxDowns = 1
    FaultKinds = {"command", "writeConfig", "step", "crash", "answer"}
    MaxFaults = 2
INVARIANTS
    TypeOK
    CredentialsValid
    GoneMeansClean
PROPERTIES
    ForgottenOnceRemoved
CHECK_DEADLOCK FALSE
