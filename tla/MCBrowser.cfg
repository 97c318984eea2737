SPECIFICATION Spec
CONSTANTS
    NodeId <- MCNodeId
    Histories <- MCHistories
    MaxLoads = 2
    MaxSelections = 5
INVARIANTS
    TypeOK
    NeverMislabelled
    AwaitedIsComing
    EngineIsExact
PROPERTIES
    SessionsFollowLoads
CHECK_DEADLOCK FALSE
