\* Two callers on one channel; a full socket buffer, a NACK, a close, any two.
SPECIFICATION FairSpec
CONSTANTS
    p1 = p1
    p2 = p2
    Publishers = {p1, p2}
    Size = 3
    Corrupt = {2}
    MaxCalls = 2
    MaxFull = 2
    MaxNacks = 1
    MaxCloses = 1
    MaxTrouble = 2
INVARIANT ConfirmedMeansHeld
PROPERTY CallsReturnUnlessChoked
CHECK_DEADLOCK FALSE
