\* The documented end of a handshake whose peer does not answer.
SPECIFICATION FairSpec
CONSTANTS
    Pins = {"alice", "bob"}
    MaxDamage = 0
PROPERTY SilenceIsAbandoned
CHECK_DEADLOCK FALSE
