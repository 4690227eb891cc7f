\* Every pin, two damaged payloads, interrupts, a relay that may fall silent.
SPECIFICATION FairSpec
CONSTANTS
    Pins = {"alice", "bob", "outdated", "none"}
    MaxDamage = 2
INVARIANTS
    TypeOK
    PinnedPeerIsGenuine
    Agreement
    NobodyWaitsInVain
PROPERTIES
    HandshakeEnds
    RefusalIsNoticed
CHECK_DEADLOCK FALSE
