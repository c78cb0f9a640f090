CONSTANTS
    ByteCredits = 2
    TagScale = 2
    Policies <- MCPolicies
    Capacity = 3
    Lengths = {1, 2}
    ByteTime = 1
    MaxTime = 3
    MaxFrames = 4
    MaxGeneration = 2
SPECIFICATION Spec
INVARIANTS WakeInTime NotOvertaken ShapeConforms
CHECK_DEADLOCK FALSE
