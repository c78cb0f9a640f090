CONSTANTS
    Flow <- MCFlow
    Permitted = {1, 2, 3}
    Interface = 100
    Pool = {101, 102}
    Rules <- MCRules
    FirstPort = 20
    LastPort = 21
    MaxTranslations = 2
    Timeout = 2
    MaxTime = 4
    MaxEdits = 2
    MaxAnswers = 2
SPECIFICATION Spec
INVARIANTS NoAmbiguity OneAddress Returns
CHECK_DEADLOCK FALSE
