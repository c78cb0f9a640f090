CONSTANTS
    Labs <- MCLabs
    Page = 1
SPECIFICATION FairSpec
INVARIANT Synchronized
PROPERTIES BecomesFull Drains
CHECK_DEADLOCK FALSE
