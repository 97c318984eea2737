CONSTANTS
    Signals = {1, 2, 15}
SPECIFICATION FairSpec
INVARIANTS
    OutcomeIsTrue
    NothingIsLeftRunning
PROPERTIES
    EndsWhenAsked
\* The process exits, or a signal kills it.
CHECK_DEADLOCK FALSE
