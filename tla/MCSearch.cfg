SPECIFICATION MCSpec
CONSTANTS
    d1 = d1
    d2 = d2
    p1 = p1
    p2 = p2
    f1 = f1
    f2 = f2
    NoDir = NoDir
    Absent = Absent
    Denied = Denied
    Dir <- MCDir
    Args <- MCArgs
    SourceDir = d1
    File <- MCFile
    Size <- MCSize
    Budgets = {2, 3, 4}
    MaxChanges = 2
    Location <- MCLocation
    Linked <- MCLinked
    Sources <- MCSources
    Nowhere = Nowhere
    MaxLinks = 5
    MaxFollowed = 9
INVARIANTS
    ResolvesToTheFile
    AnswerIsALook
    SameForEveryOrder
