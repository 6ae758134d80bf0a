SPECIFICATION FairSpec
CONSTANTS
    Keys = {d, k1}
    Default = d
    Procs = {p1, p2}
    NoProc = noproc
    None = none
    DefaultPort = dp
    MaxInstances = 1
    MaxRetries = 1
    Users = {u1}
    StopWhileStarting = FALSE
    MaxTimers = 1
INVARIANT OccupancyWithinCap
INVARIANT ProcessesTracked
INVARIANT UsesExact
PROPERTY StartSettles
