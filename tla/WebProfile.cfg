CONSTANTS
    Programs = {}
    Functions = {"g"}
    Fuel = 10
    Disks = {}
    Root <- MCRoot
    Cwd = "app"
    Depth = 4
    Texts = {}
    Repositories <- MCRepositories
    UseLists <- MCUseLists
SPECIFICATION FrontSpec
INVARIANT DependsIncluded
CHECK_DEADLOCK FALSE
