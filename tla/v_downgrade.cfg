SPECIFICATION Spec
CONSTANTS
    Versions = {1, 2}
    PreUpgrade = {}
    PostUpgrade = {}
    StartupProbe = {1, 2}
    EditFields = {{"version"}}
    EditWhen = "anytime"
    MaxEdits = 2
    MaxFaults = 0
PROPERTIES
    DowngradeRefused
CHECK_DEADLOCK FALSE
