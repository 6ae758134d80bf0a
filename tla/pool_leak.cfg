SPECIFICATION Spec
CONSTANTS
    Rows = {a1}
    Requests = {r1}
    ByKey = {r1}
    Cap = 0
    Degraded = FALSE
    Pinned = FALSE
    MaxInflight = 2
    Keys = {k1, k2}
    NoRow = none
    NoKey = nokey
    RpmLimit = 2
    Deadline = 1
    Stale = 1
INVARIANT SlotsExact
