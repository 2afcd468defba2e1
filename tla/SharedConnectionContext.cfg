\* One append of a transcript, and a commit_context that is cancelled.
SPECIFICATION ConnectionSpec
CONSTANTS
    a = a
    b = b
    c = c
    d = d
    Calls = {a, b}
    Idiom <- Context
    None = None
    MaxFaults = 1
INVARIANT
    AllOrNothing
CHECK_DEADLOCK FALSE
