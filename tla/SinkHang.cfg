\* The channel closes while the caller waits for drain.
SPECIFICATION FairSpec
CONSTANTS
    p1 = p1
    p2 = p2
    Publishers = {p1}
    Size = 2
    Corrupt = {}
    MaxCalls = 1
    MaxFull = 1
    MaxNacks = 0
    MaxCloses = 1
    MaxTrouble = 2
PROPERTY CallsReturn
CHECK_DEADLOCK FALSE
