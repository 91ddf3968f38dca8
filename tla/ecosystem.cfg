SPECIFICATION FairSpec
CONSTANTS
    a = a
    b = b
    c = c
    nginx = nginx
    Dogus = {a, b, c}
    Versions = {1, 2}
    Skipped = {nginx}
    Scenarios <- MCScenarios
    SlowStart = TRUE
INVARIANT TypeOK
PROPERTY StartsWithDependencies
PROPERTY StartsWithClosure
PROPERTY AllRun
CHECK_DEADLOCK FALSE
