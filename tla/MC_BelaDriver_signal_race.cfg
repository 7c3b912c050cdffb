CONSTANTS
    MaxSignals = 2
    MaxScopeChannels = 0
SPECIFICATION Spec
INVARIANT NoCallOnDeletedDriver
CHECK_DEADLOCK FALSE
