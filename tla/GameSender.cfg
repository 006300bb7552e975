\* Two threads hand notifications to the sender of a party of two, over two
\* games; the back-off lasts two notifications.
CONSTANTS
    Callers = {c1, c2}
    Places = {p1, p2}
    Creator = p1
    Ticks = 2
    Messages = {1, 2, 3}
    MaxGames = 2
    NULL = NULL
SPECIFICATION SenderFairSpec
INVARIANTS NoneForgotten TextMatchesGroup BackOffBounded
PROPERTIES HandedIsSettled
CHECK_DEADLOCK FALSE
