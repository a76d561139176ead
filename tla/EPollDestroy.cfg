SPECIFICATION Spec
CONSTANTS
    Sockets = {s1}
    Op = {"Read", "Error"}
    Reader = reader
INVARIANTS
    DestroyedIdle
CHECK_DEADLOCK FALSE
