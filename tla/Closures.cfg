SPECIFICATION Spec
CONSTANTS
    Programs <- ClosurePrograms
    Functions = {"g"}
    Fuel = 10
INVARIANT ClosuresCapture
CHECK_DEADLOCK FALSE
