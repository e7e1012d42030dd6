\* One dispatch is rejected, then everything works for ever.
SPECIFICATION FairSpec
CONSTANTS
    l1 = l1
    l2 = l2
    Loops = {l1}
    Rows = {1, 2}
    History = {1, 2}
    Corrupt = {}
    BatchSize = 1
    MaxQueryFaults = 0
    MaxSinkFaults = 1
    MaxCrashes = 0
    MaxCommands = 0
PROPERTY SelfHeals
CHECK_DEADLOCK FALSE
