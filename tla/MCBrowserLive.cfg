SPECIFICATION FairSpec
CONSTANTS
    NodeId <- MCNodeId
    Histories <- MCHistories
    MaxLoads = 2
    MaxSelections = 4
PROPERTIES
    AnswersArrive
    FatalEnds
CHECK_DEADLOCK FALSE
