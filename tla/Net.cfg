CONSTANTS
    Threads = {t1, t2, t3}
    Fds = {f1, f2}
    MaxSocks = 2
    MaxCloses = 2
    PasvAccept = TRUE
    NoFd = NoFd
SPECIFICATION FairSpec
INVARIANTS RefsMatch HeldAlive GuardedSocketOpen EntriesAreSockets
PROPERTIES ClosesOwnSocket CloseReturns
CHECK_DEADLOCK FALSE
