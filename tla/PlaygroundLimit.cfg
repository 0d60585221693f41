SPECIFICATION Spec
CONSTANTS
    Builders = {r1, r2}
    Requests = {r1, r2}
    Sources <- MCSources
    Good <- MCGood
    PackagesOf <- MCPackagesOf
    Versions = {v1, v2}
    Habits <- MCTogether
    MaxBuilds <- MCMaxBuildsTogether
    Callers <- MCCallersTogether
    MaxActive = 1
INVARIANT ActiveLimit
CHECK_DEADLOCK FALSE
