CONSTANTS
    c1 = c1
    c2 = c2
    s1 = s1
    s2 = s2
    Labs <- MCLabs
    Pool <- MCPool
    LeaseTime = 6
    OfferTime = 3
    RetryTime = 3
    ProbeTime = 2
    DeclineTime = 3
    Quarantine = 4
    MaxDelay = 1
    MaxXid = 8
SPECIFICATION Spec
INVARIANTS NoDoubleReservation NoDuplicateAddress RetryArmed ExpiryArmed
PROPERTIES NoEarlyExpiry
CHECK_DEADLOCK FALSE
