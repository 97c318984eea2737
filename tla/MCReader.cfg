CONSTANTS
    Sessions <- MCSessions
    MaxInsert = 1
    NodeLimit = 3
    NoSave = NoSave
    StateLines = 3
    StateBytes = 5
    EmptyLine = 0
SPECIFICATION Spec
INVARIANTS
    SnapshotIsTheState
    GoesTheWayBetween
    OnlyLimitsRefuse
CHECK_DEADLOCK FALSE
