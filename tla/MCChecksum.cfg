CONSTANTS
    W = 4
    A6 = 2
    A4 = 1
    P = 1
    ZeroUdp4 = FALSE

SPECIFICATION Spec
INVARIANT TypeOK
INVARIANT ChecksumValid
