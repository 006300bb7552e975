\* Three calls of two threads.
CONSTANTS
    Threads = {t1, t2}
    marc = marc
    laia = laia
    Names = {marc, laia, "new", "long", "quote"}
    Broken = {"quote"}
    Long = {"long"}
    RankingLimit = 1
    MaxRows = 2
    Day = 2
    Users <- TwoUsers
    Calls <- AllCalls
    MaxCalls = 3
    NULL = NULL
SYMMETRY Symmetry
SPECIFICATION DatabaseSpec
INVARIANTS ScoresNotMixed StoredIsComplete AloneIsRight
CHECK_DEADLOCK FALSE
