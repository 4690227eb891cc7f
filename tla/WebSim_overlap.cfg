\* The documented advance of the chain with every message.
SPECIFICATION Spec
CONSTANTS
    MaxSessions = 1
    MaxSends = 2
INVARIANT EveryMessageAdvancesTheChain
CHECK_DEADLOCK FALSE
