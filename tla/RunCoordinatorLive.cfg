SPECIFICATION FairSpec
CONSTANTS
    Runs = {r1}
    Threads = {t1}
    Conns = {own, web}
    Owner = own
    Multithread = {own}
    HostClose = hostClose
    MaxAsking = 2
    NoRun = NoRun
    NoConn = NoConn
CHECK_DEADLOCK FALSE
PROPERTIES
    CancellationEnds
    ImplementsLifecycle
