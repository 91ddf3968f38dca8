SPECIFICATION FairSpec
CHECK_DEADLOCK FALSE
CONSTANTS
    Versions = {1, 2, 3, 4, 5}
    Scenarios <- AllScenarios
INVARIANTS
    TypeOK
    ServiceFollowsImage
    PoliciesFollowDependencies
    CopiesVisible
    MountsFollowSpec
PROPERTIES
    ObjectsConverge
