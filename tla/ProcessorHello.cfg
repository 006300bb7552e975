\* A HELLO that is not heard: two at once, or a signal sent too early.
CONSTANTS
    NPlayers = 2
    EndCount = 2
    Updates = 1
SPECIFICATION ProcFairSpec
PROPERTIES AllReadyStarts
CHECK_DEADLOCK FALSE
