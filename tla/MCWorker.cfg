SPECIFICATION WorkerFairSpec
CONSTANT MaxSubmits = 4
INVARIANTS
    WorkerTypeOK
    NothingIsLost
    CancelledExactly
PROPERTIES
    ResultsInOrder
    CloseReturns
    ImplementsFairMailbox
