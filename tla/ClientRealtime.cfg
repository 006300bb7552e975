\* One client, one game.
SPECIFICATION RealtimeFairSpec
CONSTANTS
    MaxStates = 2
    MaxOthers = 1
    MaxRequests = 3
    MaxWaiting = 3
    High = 1
INVARIANTS RealtimeTypeOK OneSideAtATime BackedOffHasData 
PROPERTIES ShownIsNewest 
CHECK_DEADLOCK FALSE
