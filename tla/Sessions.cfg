\* Three connections, two slots, two names that anybody may log in with, and an address
\* for the object of each connection.
CONSTANTS
    Sessions = {1, 2, 3}
    Capacity = 2
    Names = {n1, n2}
    Objects = {11, 12, 13}
    Sockets = {4, 5}
    Watched = {}
    NoName = NoName
    NULL = NULL
SPECIFICATION SessionsFairSpec
INVARIANTS SessionsTypeOK SlotsMatchThreads EntriesAlive LoginWritesOwn
PROPERTIES PresenceSpec SessionsEnd
CHECK_DEADLOCK FALSE
