\* Two sessions, three messages of either party, any of alice's tampered with.
SPECIFICATION FairSpec
CONSTANTS
    MaxSessions = 2
    MaxSends = 3
INVARIANTS
    TypeOK
    InStepWhenQuiet
    KeysDieWithSession
PROPERTY UndisturbedIsShown
CHECK_DEADLOCK FALSE
