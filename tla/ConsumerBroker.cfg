\* Lost connections and channels, a death of the process, a malformed copy;
\* two copies with one id.
SPECIFICATION FairSpec
CONSTANTS
    c1 = c1
    c2 = c2
    c3 = c3
    c4 = c4
    m1 = m1
    m2 = m2
    m3 = m3
    Copies = {c1, c2, c3, c4}
    MessageId <- Ids
    Malformed = {c4}
    Capacity = 1
    Prefetch = 2
    MaxDrops = 2
    MaxChannelCloses = 1
    MaxRestarts = 1
    MaxResets = 1
    MaxTrouble = 2
INVARIANTS
    NoEnvelopeLost
    Supervised
    EffectivelyOnce
    HealthyMeansConsuming
PROPERTY AllSettled
CHECK_DEADLOCK FALSE
