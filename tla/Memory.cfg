SPECIFICATION MemorySpec
CONSTANTS
    ChunkSize = 4
    Header = 1
    Sizes = {1, 2, 3, 4, 6}
    MaxChunks = 3
    Threads = {t1, t2}
    Workers = {t1, t2}
    Addrs = {a1, a2, a3, a4, a5, a6}
    Fns = {f1}
    MaxNamed = 2
    MaxRc = 3
    Programs <- MCPrograms
    AtomPrograms <- MCHabits
    Libraries <- MCLibraries
    Keys = {k1, k2, k3}
    MaxSlots = 2
    MaxHandles = 3
    NoOne = NoOne
INVARIANTS InBounds AtomOwnsItsValue NoMisuse OneConnection OwnAnswer Usable
SYMMETRY Symmetry
CHECK_DEADLOCK FALSE
