CONSTANTS
    MaxMembers = 2
    Profiles <- ReloadProfiles
SPECIFICATION Spec
INVARIANT RenderedReplays
CHECK_DEADLOCK FALSE
