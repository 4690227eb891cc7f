\* A relay that makes two faults on the way to bob, and none to alice.
SPECIFICATION FairSpec
CONSTANTS
    Nonce = {n1, n2, n3, zero}
    ZeroNonce = zero
    Plaintext = {hi}
    SeqLimit = 2
    K0 <- MCK0
    FreshNonces = TRUE
    MaxFaults <- FaultsToBob
INVARIANTS
    TypeOK
    ChainsAgree
    CrossMatch
    NothingRefused
    EachKeySealsOneMessage
    ForwardSecrecy
    SecrecyInv
PROPERTY EverySentIsDisplayed
CHECK_DEADLOCK FALSE
