CONSTANTS
    Threads = {t1}
    Programs <- MCPrograms
    MaxCalls = 1
    Workers = {w1, w2}
    Fds = {f1, f2}
    MaxConns = 3
    Servers <- SseServers
    NoFd = NoFd
SPECIFICATION ThreadsSpec
INVARIANT HandlerManagesFd
CHECK_DEADLOCK FALSE
