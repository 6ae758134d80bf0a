SPECIFICATION MCSpec
CONSTANTS
    none = none
    Attempts = {e1, e2, e3, e4, e5}
    MaxConcurrent = 2
    Others = {b}
    MaxRev = 3
    FrameSizes = {1, 2}
    MaxQueueFrames = 3
    MaxQueueBytes = 4
    MaxSent = 5
    MaxContent = 2
    MaxPings = 2
    MaxHeld = 2
CHECK_DEADLOCK FALSE
INVARIANT NoIdleSlotWithWaiters
INVARIANT FileSafe
INVARIANT EgressHonest
INVARIANT StreamFaithful
PROPERTY FifoGrant
PROPERTY WaiterServed
PROPERTY RowSettles
PROPERTY LeakHeals
PROPERTY BatchReachesDisk
PROPERTY StreamsEnd
