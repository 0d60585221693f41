CONSTANTS
    Workers = {w1, w2}
    Conns = {c1, c2}
    Signals = {s1}
    MaxConnections = 2
    QueueCap = 1
    None = None
SPECIFICATION FairSpec
PROPERTIES
    QueuedIsServed
    ShutdownCompletes
