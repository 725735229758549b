CONSTANTS
    None = None
    Addr = {a1, a2}
    Path = {p1, p2}
    Token = {t1}
    PayloadLen <- OnePayload
    BlockSize <- NoBlocks
    MaxTry = 1
    MidModulus = 4
    MaxBody = 3
    OverflowChecks = FALSE
    MaxSequence = 5
SPECIFICATION Spec
SYMMETRY EndpointSymmetry
\* A panic stops the registry.
CHECK_DEADLOCK FALSE
INVARIANTS NoPanic
