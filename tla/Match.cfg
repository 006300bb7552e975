\* The player and one other character.
SPECIFICATION MatchSpec
CONSTANTS
    Others = {1}
    Controllable = 0
    CharType <- const_CharType
    BulletThreshold = 2
    Hearts = 2
    Damages = {3, 6}
    MaxBounces = 1
    Delay = 2
    SlimeLife = 1
    SaltedLife = 2
    Scopes <- const_Scopes
INVARIANTS MatchTypeOK BulletsInFlight OwnNumbersDistinct LastOneWins
