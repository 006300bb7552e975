\* Four games pass through three slots, so that slots are reused, the count
\* reaches the limit and names collide; four players join, leave and change
\* state in a party with room for three.
CONSTANTS
    u1 = u1
    Users = {u1, u2, u3, u4}
    Names = {n1, n2}
    Games = {g1, g2, g3, g4}
    Characters = {c1}
    NoCharacter = NoCharacter
    MaxGames = 3
    MaxUsers = 3
    NULL = NULL
SYMMETRY Symmetry
SPECIFICATION Spec
CONSTRAINT OneParty
INVARIANTS SlotsMatch ListedNamesUnique LookupNeverMisses CharIdIsPlace
CHECK_DEADLOCK FALSE
