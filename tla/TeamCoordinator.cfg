\* Two writers, and a reader that needs one of them.
SPECIFICATION FairSpec
CONSTANTS
    a = a
    b = b
    c = c
    Tasks <- Three
    Position <- Backward
    Depends <- OneNeeds
    Writers = {a, b}
    MaxParallelism = 2
    Policies = {"fail-fast", "continue", "continue-to-synthesis"}
    MaxFaults = 3
INVARIANTS
    WritesRunOnce
    WorksOnRecord
    TerminalAccounts
PROPERTIES
    ResultsAreKept
    TeamEnds
CHECK_DEADLOCK FALSE
