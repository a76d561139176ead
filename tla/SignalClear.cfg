SPECIFICATION Spec
CONSTANTS
    Threads = {t1, t2}
    NoThread = NoThread
    Handlers = {h1, h2}
    Signals = {1, 15}
    MaxDepth = 2
SYMMETRY Symmetry
INVARIANTS
    ClearedStaysCleared
CHECK_DEADLOCK FALSE
