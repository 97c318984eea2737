SPECIFICATION MCSpec
CONSTANTS
    s1 = s1
    s2 = s2
    Nil = Nil
    Session <- MCSession
    Node <- MCNode
    Charge <- MCCharge
    Budget = 5
    MaxLines = 4
    Line <- MCLine
    Texts <- MCTexts
    Stored <- MCStored
    EmptyLine = 0
    StateLines = 6
    NodeLimit = 4
    NoSave = NoSave
INVARIANTS
    AcceptsExactlyTrees
    WalkIsATraversal
    Consistent
    RecentStay
    ChunksHoldTheText
