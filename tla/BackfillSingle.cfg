\* One activation of start() at a time, batches of two rows: the positions and
\* counters of the checkpoint, and what happens in the end.
SPECIFICATION FairSpec
CONSTANTS
    l1 = l1
    l2 = l2
    Loops = {l1}
    Rows = {1, 2, 3, 4}
    History = {1, 2, 4}
    Corrupt = {2}
    BatchSize = 2
    MaxQueryFaults = 1
    MaxSinkFaults = 1
    MaxCrashes = 1
    MaxCommands = 2
INVARIANTS
    CountersMatchWatermark
    PulledFromCheckpoint
PROPERTIES
    WatermarkNeverRegresses
    PauseQuiesces
    ReplicationCompletes
CHECK_DEADLOCK FALSE
