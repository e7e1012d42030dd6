\* Each gate over one old row and a corrupted one that others insert, gate 4 with a
\* valid row and a poison pill: one trouble of any kind.
SPECIFICATION GatesSpec
CONSTANTS
    None = None
    Old = {1}
    Others = {6}
    Valid = {3}
    Poison = {5}
    Corrupt = {6}
    Troubles = {"request", "mget", "start", "replay", "reject", "write"}
    MaxTrouble = 1
    Plans <- EachGate
    MutationCount = 1
    MaxCanaries = 1
INVARIANTS
    ParityMeansAccounted
    PassMeansLanded
    ReceiverLeftUp
    IsolationProved
CHECK_DEADLOCK FALSE
