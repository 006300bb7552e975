\* Two players, two updates each, an end count of two rounds.
CONSTANTS
    NPlayers = 2
    EndCount = 2
    Updates = 2
SPECIFICATION ProcFairSpec
INVARIANTS StartsWhenAllReady NoTornUpdate DeletedWhenAllLeft OutcomeMatchesState
PROPERTIES LeaveCompletes
CHECK_DEADLOCK FALSE
