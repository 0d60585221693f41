SPECIFICATION FrontSpec
CONSTANTS
    Programs <- MCPrograms
    Functions = {"g"}
    Fuel = 10
    Disks <- MCDisks
    Root <- MCRoot
    Cwd = "app"
    Depth = 4
    Texts <- MCTexts
    Repositories <- MCRepositories
    UseLists <- MCUseLists
INVARIANTS Builds KeepsMeaning IncludedOnce PlanAgrees Regroups PackagesOnce
CHECK_DEADLOCK FALSE
