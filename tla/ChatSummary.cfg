SPECIFICATION Spec
CONSTANTS
    Requests = {r1, r2}
    Workers = {w1}
    NoTask = NoTask
    Threshold = 1
    Keep = 3
    Refresh = 2
    Overlap = 2
    MaxStamp = 8
    MaxQueue = 1
    Faults = TRUE
SYMMETRY Symmetry
INVARIANTS TypeOK SummaryCoversPrefix PromptComplete RepeatsOnlyRecent
PROPERTY RefreshAdvances
CHECK_DEADLOCK FALSE
