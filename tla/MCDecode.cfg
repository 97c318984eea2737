SPECIFICATION MCSpec
CONSTANTS
    None = None
    Wires <- MCWires
    Files <- MCFiles
    Nodes = 2
    Entries = 2
    StoredLines = 2
    StateLines = 2
    LineBytes = 2
    InputBytes = 40
    Scratch = 1
    StateLineLimit = 3
    LineByteLimit = 2
    StateByteLimit = 6
    HashBuffer = 3
    PollLines = 2
    Character <- MCCharacter
    Candidates <- MCCandidates
    Buffers <- MCBuffers
INVARIANTS
    BaseIsTheReference
    DecodesTheFormat
CHECK_DEADLOCK FALSE
