SPECIFICATION MCSpec
CONSTANTS
    Rows = {a1, a2}
    Requests = {r1, r2}
    ByKey <- NoRequest
    Cap = 1
    Degraded = FALSE
    Pinned = FALSE
    MaxInflight = 2
    Keys = {k1, k2, k3}
    NoRow = none
    NoKey = nokey
    RpmLimit = 2
    Deadline = 2
    Stale = 2
    Lengths = {1, 3}
    FlushEvery = 1
    MaxTime = 5
    MaxRelease = 2
    Owners = {A, B, C}
    Callers = {"x1", "x2", "y1"}
    TenantOf <- TenantOfCaller
    Accounts = {b1, b2}
    Askers = {"r1", "r2"}
    MaxBindings = 2
    MaxKey = 1
    NoAccount = none
    Dialogs = {"d1", "d2"}
    Openers = {"x"}
    Answers <- AnyAnswer
    Window = 2
    MaxStates = 2
    Compacts = FALSE
    MaxPairs = 3
    MaxIds = 4
    NoSession = 0
    Sizes = {1, 3}
    StoreMax = 4
    StoreMaxBytes = 5
    MinTenantBytes = 1
    MaxExpired = 1
    Ips = {p1, p2, p3, p4}
    Threshold = 2
    LockMax = 3
    ScanBudget = 2
    Tools = {A, B}
    MaxTexts = 3
    MaxPieces = 3
CHECK_DEADLOCK FALSE
INVARIANT SlotsExact
INVARIANT RefusalHolds
INVARIANT DialogsApart
INVARIANT LedgerExact
INVARIANT UndoKept
INVARIANT NothingTruncated
PROPERTY EvictionFair
PROPERTY AffinityKept
PROPERTY BansStand
