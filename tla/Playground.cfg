SPECIFICATION Spec
CONSTANTS
    Builders = {dev, r1, r2}
    Requests = {r1, r2}
    Sources <- MCSources
    Good <- MCGood
    PackagesOf <- MCPackagesOf
    Versions = {v1, v2}
    Habits <- MCAll
    MaxBuilds <- MCMaxBuilds
    Callers <- MCCallers
    MaxActive = 1
INVARIANTS FreshBinary GoodBuilds OwnVerdict
CHECK_DEADLOCK FALSE
