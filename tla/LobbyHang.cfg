\* An invitation answered after its game was deleted.
CONSTANTS
    u1 = u1
    u2 = u2
    u3 = u3
    u4 = u4
    Users = {u1, u2, u3}
    Creators = {u1}
    InviteLists <- TwoGuests
    Names = {n1}
    Games = {g1}
    Characters = {c1}
    NoCharacter = NoCharacter
    MaxGames = 1
    MaxUsers = 3
    NULL = NULL
SYMMETRY Symmetry
SPECIFICATION LobbySpec
INVARIANTS LookupsAnswer
CHECK_DEADLOCK FALSE
