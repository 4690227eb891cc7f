\* The documented discarding of the state when the connection is lost.
SPECIFICATION Spec
CONSTANTS
    MaxSessions = 1
    MaxMessages = 1
    SeqLimit = 1
    Failures = {"eof", "unreachable"}
    Flaws = {}
INVARIANT ExceptionDiscardsState
CHECK_DEADLOCK FALSE
