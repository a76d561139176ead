SPECIFICATION MCSpec
CONSTANTS
    Threads = {t1, t2, t3}
    NoThread = NoThread
    SignalThreads = {u1, u2}
    Handlers = {h1, h2}
    Signals = {15, 17}
    MaxDepth = 2
    Loggers = {l1}
    Levels = {3, 5}
    MaxRoots = 2
    MaxSinks = 1
    Callers = {c1}
    Variables = {a, b}
    Names = {"n", "m"}
    Sinks = {"s"}
    Error = 5
    MaxOwnSinks = 2
    MaxRootSinks = 1
    Flushers = {f1, f2}
    m_count = 2
    MaxMessages = 6
    ArgNames = {"x", "y"}
    Flags = {}
    Aliases = {"x"}
    None = None
    MaxArgs = 5
SYMMETRY Symmetry
INVARIANTS
    MCTypeOK
    
    NoSelfDeadlock
    OnlyStopTakesRoot
    RecordsRouted
    FoundIsLine
    RequiredGiven
    SinkSafe
PROPERTIES
    DropsOnlyWhenFull
CHECK_DEADLOCK FALSE
