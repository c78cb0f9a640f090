CONSTANTS
    Bridge = {1, 2, 3}
    Link = {1, 2, 3}
    Labs <- MCLabs
    MaxAge = 4
    ForwardDelay = 3
SPECIFICATION TreeSpec
INVARIANTS NoLoop ClassicGuardHolds
PROPERTY Converges
CHECK_DEADLOCK FALSE
