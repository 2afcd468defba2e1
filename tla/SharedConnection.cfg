\* Two operations that may leave a transaction open, one that rolls it back
\* and one that commits into it.
SPECIFICATION FairConnectionSpec
CONSTANTS
    a = a
    b = b
    c = c
    d = d
    Calls = {a, b, c, d}
    Idiom <- Mixed
    None = None
    MaxFaults = 3
INVARIANT
    TransactionsAreNotShared
PROPERTIES
    ImplementsAtomicStore
    OperationsEnd
CHECK_DEADLOCK FALSE
