SPECIFICATION QuotaSpec
CONSTANTS
    Lengths = {1, 3}
    FlushEvery = 1
    MaxTime = 5
CHECK_DEADLOCK FALSE
INVARIANT RefusalAlwaysHolds
