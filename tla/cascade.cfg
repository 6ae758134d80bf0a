SPECIFICATION MCSpec
CONSTANTS
    Fps = {f1, f2}
    TenantOf <- SameTenant
    PoolMax = 2
    NoEntry = noentry
    NoGen = nogen
    Requests = {r1, r2}
    Streaming = {r1}
    Strict = {f2}
    Keys = {k1, k2}
    Ports = {p1}
    Ids = {i1, i2, i3}
    MaxGen = 2
    MaxAway = 1
    MaxStale = 2
    NoKey = nokey
    Overlap = 2
    MaxSteps = 3
    MaxRaw = 1
    MaxResumes = 1
SYMMETRY Symmetry
CHECK_DEADLOCK FALSE
INVARIANT CascadesSound
INVARIANT AnswerWhole
PROPERTY GoodCascadeComesBack
