SPECIFICATION MCSpec
CONSTANTS
    t1 = t1
    t2 = t2
    None = None
    Target <- MCTarget
    Block <- MCBlock
    Starts <- MCStarts
    Unsupported <- MCUnsupported
    MaxBlocks = 2
    MaxEdits = 2
    Flag <- MCFlag
    Decimal <- MCBlock
    SearchDirs = 2
    StateLineLimit = 3
    LineByteLimit = 3
    Character <- MCCharacter
    Texts <- MCTexts
    OutputBuffer = 3
INVARIANTS
    LoadIsALook
    ArgumentsAreRead
    OutputIsWhole
