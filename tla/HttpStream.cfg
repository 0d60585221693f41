CONSTANTS
    Kinds <- All
    BufRoom = 6
    HeaderMax = 4
    MaxBody = 6
    MaxRequests = 2
    MaxAsked = 3
    Clients <- Various
SPECIFICATION FairSpec
INVARIANTS Balanced WholeRequest HandledInOrder
PROPERTIES ImplementsExchange Answered
CHECK_DEADLOCK FALSE
