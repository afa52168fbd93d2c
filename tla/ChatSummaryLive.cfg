SPECIFICATION FairSpec
CONSTANTS
    Requests = {r1, r2}
    Workers = {w1, w2}
    NoTask = NoTask
    Threshold = 4
    Keep = 3
    Refresh = 2
    Overlap = 0
    MaxStamp = 10
    MaxQueue = 2
    Faults = FALSE
PROPERTY RefreshProgress
CHECK_DEADLOCK FALSE
