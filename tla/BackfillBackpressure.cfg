\* One activation at a time; a resume after the failure of a dispatch.
SPECIFICATION Spec
CONSTANTS
    l1 = l1
    l2 = l2
    Loops = {l1}
    Rows = {1, 2}
    History = {1, 2}
    Corrupt = {}
    BatchSize = 1
    MaxQueryFaults = 0
    MaxSinkFaults = 1
    MaxCrashes = 0
    MaxCommands = 1
INVARIANT Backpressure
CHECK_DEADLOCK FALSE
