\* Another user, two parties, and five messages from the server, the answers to
\* logins included.
CONSTANTS
    Users = {u1}
    Parties = {p1, p2}
    NoParty = NoParty
    Other = Other
    MaxMessages = 5
SPECIFICATION NotifyFairSpec
INVARIANTS NotifyTypeOK QuietIsCurrent OnlyCreatorsStart
PROPERTIES LastMessageShown
CHECK_DEADLOCK FALSE
