SPECIFICATION FairSpec
CONSTANTS
    Versions = {1, 2, 3}
    PreUpgrade = {2, 3}
    PostUpgrade = {2, 3}
    StartupProbe = {1, 2, 3}
    EditFields = {{"version"}, {"version", "forceUpgrade"}, {"stopped"}, {"paused"}}
    EditWhen = "whenSettled"
    MaxEdits = 3
    MaxFaults = 1
INVARIANTS
    PreUpgradeScriptOfTarget
    UpgradeInv
    ProbeInv
PROPERTIES
    DowngradeRefused
    UpgradeRunsPreUpgrade
    UpgradeRunsPostUpgrade
    Converges
CHECK_DEADLOCK FALSE
