\* The broker is restarted, or starts after the daemon.
SPECIFICATION FairSpec
CONSTANTS
    p1 = p1
    p2 = p2
    Publishers = {p1}
    Size = 1
    Corrupt = {}
    MaxCalls = 2
    MaxFull = 0
    MaxNacks = 0
    MaxCloses = 1
    MaxTrouble = 2
PROPERTY SinkRecovers
CHECK_DEADLOCK FALSE
