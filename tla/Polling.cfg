SPECIFICATION MCSpec
CONSTANTS
    Sockets = {s1, s2}
    Op = {"Read", "Error"}
    PipeCapacity = 1
    Reader = reader
INVARIANTS
    MCTypeOK
    WatchesRegistered
    StopsClean
PROPERTIES
    ReportsRegistered
    ChangeWakesPoller
    ShutdownEndsPoll
CHECK_DEADLOCK FALSE
