\* Two sessions in a row, resets of their connections (which may overtake data or not,
\* so the ends of stream are among them), malformed envelopes.
SPECIFICATION FairSpec
CONSTANTS
    MaxSessions = 2
    MaxMessages = 1
    SeqLimit = 1
    Failures = {"reset"}
    Flaws = {"framing"}
INVARIANTS
    TypeOK
    ActiveHasLiveSession
    CommandFindsItsSession
PROPERTIES
    WipedKeysStayUnused
    ImplementsLifecycle
    EndStopsReceiver
    DisconnectIsNoticed
CHECK_DEADLOCK FALSE
