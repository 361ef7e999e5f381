SPECIFICATION WireSpec
CONSTANTS
    Base = 5
    BUFFER_SIZE = 6
    Conversations <- Sample
    MaxCuts = 3
CHECK_DEADLOCK FALSE
INVARIANTS
    WireTypeOK
    DecodedUntilCut
    DecodedWhenTaken
PROPERTIES
    AllDecoded
