SPECIFICATION FairSpec
CONSTANTS
    Threads = 1
    HardwareConcurrency = 2
    MaxThreads = 255
    Clients = {c1}
    Priorities = {1}
    MaxTasks = 2
    BlockingTasks = TRUE
PROPERTIES
    LateTasksFail
CHECK_DEADLOCK FALSE
