SPECIFICATION RestartSpec
CONSTANTS
    Keys = {d}
    Default = d
    Procs = {p1}
    NoProc = noproc
    None = none
    DefaultPort = dp
    MaxInstances = 1
    MaxRetries = 2
    Users = {}
    StopWhileStarting = FALSE
    MaxTimers = 3
PROPERTY RetryCapHolds
