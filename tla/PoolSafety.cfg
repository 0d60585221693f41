CONSTANTS
    Workers = {w1, w2}
    Conns = {c1, c2, c3, c4}
    Signals = {s1}
    MaxConnections = 3
    QueueCap = 2
    None = None
SPECIFICATION Spec
SYMMETRY Threads
INVARIANTS
    CountersMatch
    OneOwner
    NoLostWakeup
    AtMostOneStranded
PROPERTY ImplementsService
