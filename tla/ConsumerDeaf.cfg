\* The broker closes the channel and leaves the connection open.
SPECIFICATION FairSpec
CONSTANTS
    c1 = c1
    c2 = c2
    c3 = c3
    c4 = c4
    m1 = m1
    m2 = m2
    m3 = m3
    Copies = {c1, c2}
    MessageId <- Ids
    Malformed = {}
    Capacity = 2
    Prefetch = 2
    MaxDrops = 0
    MaxChannelCloses = 1
    MaxRestarts = 0
    MaxResets = 0
    MaxTrouble = 1
PROPERTY AllSettledAnyway
CHECK_DEADLOCK FALSE
