\* NACKs: one that arrives while the caller waits for drain, and one of one
\* caller seen by the other.
SPECIFICATION Spec
CONSTANTS
    p1 = p1
    p2 = p2
    Publishers = {p1, p2}
    Size = 2
    Corrupt = {}
    MaxCalls = 1
    MaxFull = 1
    MaxNacks = 1
    MaxCloses = 0
    MaxTrouble = 2
INVARIANTS
    HeldIfConfirmed
    FailuresAreOwn
CHECK_DEADLOCK FALSE
