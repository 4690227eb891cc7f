\* Two messages of each user, one length in three oversized; no room for a whole one.
SPECIFICATION FairSpec
CONSTANTS
    HEADER_SIZE = 2
    TAG_SIZE = 1
    MAX_CIPHERTEXT_SIZE = 1
    Lengths = {1, 2}
    Capacity = 2
    MaxSent = 2
INVARIANTS
    TypeOK
    NothingLost
    OneEnvelopeHeld
    DeadlockTakesTwoEach
    OnlyThatStopsThem
PROPERTIES
    SendReturnsUnlessDeadlocked
    DisplayedUnlessDeadlocked
CHECK_DEADLOCK FALSE
