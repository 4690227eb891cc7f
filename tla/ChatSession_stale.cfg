\* The documented end of the receive thread with its session.
SPECIFICATION Spec
CONSTANTS
    MaxSessions = 2
    MaxMessages = 1
    SeqLimit = 1
    Failures = {"eof", "reset", "unreachable"}
    Flaws = {"framing"}
INVARIANT ReceiverServesItsOwnSession
CHECK_DEADLOCK FALSE
