SPECIFICATION MCSpec
CONSTANTS
    Rows = {a1, a2, a3}
    Keys = {k1, k2, k3}
    Requests = {r1, r2}
    Streaming = {r1}
    First = {a1, a2}
    Never = never
    Removed = removed
    NoRow = none
    NoKey = nokey
    MaxHops = 2
    d1 = d1
    d2 = d2
    d3 = d3
    c1 = c1
    c2 = c2
    nobody = nobody
    DetachKeys <- MCDetachKeys
    CallerOf <- MCCallerOf
    Turns = {t1, t2}
    NoTurn = noturn
    NoDetachKey = nodetachkey
    Sizes = {1, 2, 3}
    Ttl = 1
    MaxLeft = 2
    MaxEntries = 2
    MaxPerCaller = 1
    MaxEntryBytes = 2
    MaxTotalBytes = 3
    MaxAdmits = 4
CHECK_DEADLOCK FALSE
INVARIANT SlotsBalanced
INVARIANT EpochClean
INVARIANT LimitsHold
PROPERTY DeadKeyStaysDead
PROPERTY ClientPromise
PROPERTY RequestSettles
PROPERTY OthersUntouched
PROPERTY NothingLingers
