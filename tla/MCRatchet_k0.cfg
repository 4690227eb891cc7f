\* The documented forward secrecy, counting the messages sealed under K0.
SPECIFICATION Spec
CONSTANTS
    Nonce = {n1, n2, zero}
    ZeroNonce = zero
    Plaintext = {hi}
    SeqLimit = 2
    K0 <- MCK0
    FreshNonces = TRUE
    MaxFaults <- NoFaults
INVARIANT ForwardSecrecyFromTheStart
CHECK_DEADLOCK FALSE
