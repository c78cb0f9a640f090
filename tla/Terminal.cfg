CONSTANTS
    MaxMembers = 2
    Profiles <- TerminalProfiles
    Topics <- TerminalTopics
SPECIFICATION TerminalSpec
INVARIANTS
    ReloadExact AcknowledgedSurvives KeepsObject
    HelpIsSound HelpIsComplete
CHECK_DEADLOCK FALSE
