\* One slot per execution, two calls that queue behind the first, and a call
\* of its child.  Everything may end.
SPECIFICATION Spec
CONSTANTS
    a1 = a1
    b1 = b1
    Calls = {a1, a2, a3, b1}
    Root = Root
    Parent <- MCParent
    Limit = 1
SYMMETRY Symmetry
CHECK_DEADLOCK FALSE
INVARIANTS
    SlotAccounting
    QueueIsServed
    ExecutionsSettle
PROPERTIES
    EndIsFinal
    SlotsGoRound
