SPECIFICATION FairSpec
CONSTANTS
    Threads = 2
    HardwareConcurrency = 2
    MaxThreads = 255
    Clients = {c1}
    Priorities = {0, 2}
    MaxTasks = 2
    BlockingTasks = FALSE
INVARIANTS
    TypeOK
    TaskSafe
    QueueConsistent
    DestroyedSettled
PROPERTIES
    ImplementsTaskService
    EveryTaskSettles
    DestructorReturns
