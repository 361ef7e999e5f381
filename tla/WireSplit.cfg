SPECIFICATION WireSpec
CONSTANTS
    Base = 5
    BUFFER_SIZE = 6
    Conversations <- Sample
    MaxCuts = 2
CHECK_DEADLOCK FALSE
INVARIANTS
    ReadsWhatWasSent
