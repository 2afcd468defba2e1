SPECIFICATION Spec
CONSTANTS
    Runs = {r1, r2}
    Threads = {t1, t2}
    Conns = {own, web}
    Owner = own
    Multithread = {own}
    HostClose = hostClose
    MaxAsking = 1
    NoRun = NoRun
    NoConn = NoConn
SYMMETRY Symmetry
CHECK_DEADLOCK FALSE
INVARIANTS
    RunsExclude
    SnapshotHolderIsUnderWay
    SweptRunsAreTerminal
