SPECIFICATION Spec
CONSTANTS
    Sockets = {s1}
    Op = {"Read", "Write", "Error"}
    PipeCapacity = 1
PROPERTIES
    StoppedEmpty
CHECK_DEADLOCK FALSE
