SPECIFICATION FairSpec
CONSTANTS
    Sockets = {s1}
    Op = {"Read", "Write", "Error"}
    PipeCapacity = 1
PROPERTIES
    StopReturns
