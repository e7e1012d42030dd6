\* A pause before the launch; PostgreSQL goes down between the checkpoint and
\* the status.
SPECIFICATION Spec
CONSTANTS
    s1 = s1
    s2 = s2
    Slots = {s1}
    BatchSize = 1
    MaxId = 1
    MaxOutages = 1
    MaxRequests = 1
INVARIANTS
    PauseHolds
    RunningMeansLooping
CHECK_DEADLOCK FALSE
