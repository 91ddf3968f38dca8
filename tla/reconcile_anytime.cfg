SPECIFICATION Spec
CONSTANTS
    Versions = {1, 2}
    PreUpgrade = {2}
    PostUpgrade = {2}
    StartupProbe = {1, 2}
    EditFields = {{"version", "stopped", "exportMode", "supportMode", "paused"}}
    EditWhen = "anytime"
    MaxEdits = 2
    MaxFaults = 1
INVARIANTS
    TypeOK
    ReadyMeansApplied
    Inv
PROPERTIES
    LifecycleSpec
CHECK_DEADLOCK FALSE
