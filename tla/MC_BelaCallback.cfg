CONSTANTS
    e1 = e1
    e2 = e2
    None = None
    S = 2
    BufLength = 2
    NumBufs = 1
    Jitter = {0, 1}
    Events = {e1, e2}
    SendTimes <- Times
SPECIFICATION FairSpec
INVARIANT OffsetPlacesEvent
PROPERTY EventuallyPerformed
