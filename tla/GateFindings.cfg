\* What the gates say of themselves: each of the five is violated, checked alone
\* or with -continue.
SPECIFICATION GatesSpec
CONSTANTS
    None = None
    Old = {1, 2}
    Others = {}
    Valid = {3}
    Poison = {}
    Corrupt = {}
    Troubles = {"mget", "replay", "reject"}
    MaxTrouble = 1
    Plans <- EachGate
    MutationCount = 1
    MaxCanaries = 1
INVARIANTS
    PassMeansAccounted
    PassMeansLandedAnyway
    PassMeansIndexed
    QuiescedMeansClean
PROPERTY NeverNeither
CHECK_DEADLOCK FALSE
