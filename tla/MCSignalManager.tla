--------------------------- MODULE MCSignalManager ---------------------------
EXTENDS SignalManager, TLC

\* Threads are interchangeable, and so are handlers.
Symmetry == Permutations(Threads) \cup Permutations(Handlers)
==============================================================================
