\* One creator, two guests, two games one after the other, possibly with the
\* same name, in a table of two slots; guests listed twice, the creator listed
\* among the guests.
CONSTANTS
    u1 = u1
    u2 = u2
    u3 = u3
    u4 = u4
    Users = {u1, u2, u3}
    Creators = {u1}
    InviteLists <- AnyGuests
    Names = {n1, n2}
    Games = {g1, g2}
    Characters = {c1}
    NoCharacter = NoCharacter
    MaxGames = 2
    MaxUsers = 3
    NULL = NULL
SYMMETRY Symmetry
SPECIFICATION LobbySpec
INVARIANTS CharactersKeptUntilStart LookupNeverNull
PROPERTIES TableSpec
CHECK_DEADLOCK FALSE
