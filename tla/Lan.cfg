CONSTANTS
    Station = {"A", "B", "R"}
    Switch = "S"
    Router = {"R"}
    Interface = {"a", "b", "r1", "r2", "x", "s"}
    Nobody = {"z"}
    DeviceOf <- MCDeviceOf
    MacOf <- MCMacOf
    Subnet <- MCSubnet
    Encap <- MCEncap
    Gateway <- MCGateway
    Port = {1, 2, 3, 4}
    Trunk = {3}
    Vlan = {1, 2}
    NativeVlan = 1
    Plans <- MCPlans
    PingCount = 2
    DefaultTtl = 3
    InterfaceLimit = 2
    QueueLimit = 3
SPECIFICATION Spec
INVARIANTS PingTruthful InOrder MacTruth
CHECK_DEADLOCK FALSE
