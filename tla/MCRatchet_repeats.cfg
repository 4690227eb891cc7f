\* The abstract promise when os.urandom may repeat nonces, one fault each way.
SPECIFICATION Spec
CONSTANTS
    Nonce = {n1, zero}
    ZeroNonce = zero
    Plaintext = {hi, yo}
    SeqLimit = 2
    K0 <- MCK0
    FreshNonces = FALSE
    MaxFaults <- OneFaultEach
PROPERTIES
    ImplementsPrefixDelivery
    StuckForGood
CHECK_DEADLOCK FALSE
