CONSTANTS
    Threads = {t1, t2, t3}
    Programs <- MCPrograms
    MaxCalls = 3
    Workers = {w1, w2}
    Fds = {f1, f2, f3}
    MaxConns = 3
    Servers <- AllServers
    NoFd = NoFd
SPECIFICATION ThreadsSpec
INVARIANTS Delivered FreedOnce OneUserIsSafe Exclusive ObjectAlive
PROPERTIES DerefReturns Released
CHECK_DEADLOCK FALSE
