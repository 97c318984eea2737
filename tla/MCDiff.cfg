SPECIFICATION FairSpec
CONSTANTS
    MaxLines = 4
    Inputs <- MCInputs
    Efforts <- MCEfforts
    SmallRegion = 5
    ContextLines = 1
INVARIANTS
    HunksPatchLeftIntoRight
    MinimalWithinEffort
PROPERTIES
    Ends
CHECK_DEADLOCK FALSE
