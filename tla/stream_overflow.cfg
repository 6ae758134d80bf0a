SPECIFICATION StreamSpec
CONSTANTS
    FrameSizes = {1}
    MaxQueueFrames = 2
    MaxQueueBytes = 3
    MaxSent = 4
CHECK_DEADLOCK FALSE
INVARIANT OverflowIsNamed
