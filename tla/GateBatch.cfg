\* Gate 4 with two valid rows and a poison pill, beside a row that may be on
\* its way to the index.
SPECIFICATION GatesSpec
CONSTANTS
    None = None
    Old = {1}
    Others = {}
    Valid = {3, 4}
    Poison = {5}
    Corrupt = {}
    Troubles = {"request", "reject"}
    MaxTrouble = 1
    Plans <- Gate4Alone
    MutationCount = 1
    MaxCanaries = 0
INVARIANTS
    IsolationProved
CHECK_DEADLOCK FALSE
