\* Two transactions open at a time: they commit out of the order of NOW().
SPECIFICATION Spec
CONSTANTS
    l1 = l1
    l2 = l2
    NoLoop = NoLoop
    Loops = {l1}
    Rows = {1, 2}
    Corrupt = {}
    BatchSize = 1
    ClockSteps = {1}
    MaxOpen = 2
    MaxWrites = 2
    MaxQueryFaults = 0
    MaxSinkFaults = 0
    MaxCrashes = 0
    MaxCommands = 0
    MaxTrouble = 1
INVARIANT NoMutationLost
CHECK_DEADLOCK FALSE
