\* Up to three signals, a scope asked for, under fairness of the main thread.
CONSTANTS
    MaxSignals = 3
    MaxScopeChannels = 2
SPECIFICATION FairSpec
INVARIANT NoScopeUseAfterFree
PROPERTY TerminationLeadsToExit
\* The process really ends: once main has exited or a signal killed it.
CHECK_DEADLOCK FALSE
