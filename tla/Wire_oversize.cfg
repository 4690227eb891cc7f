\* The documented loss of one message to a ParseError.
SPECIFICATION Spec
CONSTANTS
    HEADER_SIZE = 2
    TAG_SIZE = 1
    MAX_CIPHERTEXT_SIZE = 1
    Lengths = {1, 2}
    Capacity = 3
    MaxSent = 2
INVARIANT OnlyTheMalformedIsDropped
CHECK_DEADLOCK FALSE
