SPECIFICATION Spec
CONSTANTS
    Number <- MCNumber
    Prefix <- MCPrefix
    TxLimit = 2
    Bounds <- MCBounds
INVARIANTS
    OneSession
    NoStaleRoutes
    RoutesFollow
PROPERTY
    Agrees
CHECK_DEADLOCK FALSE
