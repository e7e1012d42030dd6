\* A resume while the loop still runs: two activations, no failure, no crash.
SPECIFICATION Spec
CONSTANTS
    l1 = l1
    l2 = l2
    Loops = {l1, l2}
    Rows = {1, 2}
    History = {1, 2}
    Corrupt = {}
    BatchSize = 1
    MaxQueryFaults = 0
    MaxSinkFaults = 0
    MaxCrashes = 0
    MaxCommands = 1
PROPERTY WatermarkNeverRegresses
CHECK_DEADLOCK FALSE
