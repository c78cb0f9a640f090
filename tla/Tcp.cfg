CONSTANTS
    Modulus = 12
    IsnStep = 5
    ReceiveLimit = 1
    Bounds <- MCBounds
    Writers = {"client"}
    MaxInFlight = 2
SPECIFICATION Spec
INVARIANTS Paired AckedIsAccepted
PROPERTIES Implements
CHECK_DEADLOCK FALSE
