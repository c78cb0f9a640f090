CONSTANTS
    d1 = d1
    d2 = d2
    p1 = p1
    p2 = p2
    Device = {d1, d2}
    Port <- MCPort
    Owner <- MCOwner
    MaxTime = 3
    MaxSequence = 2
    MaxLinks = 2
    MaxGeneration = 3
    QueuePackets = 1
    Serialization = {0, 1}
    Delay = 1
    Jitter = 1
SPECIFICATION DispatchSpec
INVARIANTS TypeOK PortsAgree CarrierCoherent NoCrossOutage Accounting
PROPERTIES LabDispatchOrder FifoDelivery ImplementsEventQueue
CHECK_DEADLOCK FALSE
