CONSTANTS
    Labs <- FaultLab
    Page = 1
SPECIFICATION FairSpec
PROPERTY Recovers
CHECK_DEADLOCK FALSE
