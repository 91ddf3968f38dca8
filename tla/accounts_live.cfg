SPECIFICATION FairSpec
CONSTANTS
    DoguAccounts = {1, 2}
    Components = {3}
    CAS = {2}
    Optional = {2}
    Restorable = TRUE
    Removable = {1}
    MaxDowns = 1
    FaultKinds = {"crash"}
    MaxFaults = 1
PROPERTIES
    AccountsFollow
    DeletionCompletes
CHECK_DEADLOCK FALSE
