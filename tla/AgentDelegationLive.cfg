\* One slot per execution: a call that queues, and a call of a child.
\* Everything may end.
SPECIFICATION FairSpec
CONSTANTS
    a1 = a1
    b1 = b1
    Calls = {a1, a2, b1}
    Root = Root
    Parent <- MCParent
    Limit = 1
CHECK_DEADLOCK FALSE
PROPERTY
    CallsEnd
