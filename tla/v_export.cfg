SPECIFICATION FairSpec
CONSTANTS
    Versions = {1}
    PreUpgrade = {}
    PostUpgrade = {}
    StartupProbe = {1}
    EditFields = {{"exportMode"}}
    EditWhen = "whenSettled"
    MaxEdits = 1
    MaxFaults = 0
PROPERTIES
    Converges
CHECK_DEADLOCK FALSE
