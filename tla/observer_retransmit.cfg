CONSTANTS
    None = None
    Addr = {a1, a2}
    Path = {p1}
    Token = {t1}
    PayloadLen <- OnePayload
    BlockSize <- NoBlocks
    MaxTry = 1
    MidModulus = 6
    MaxBody = 3
    OverflowChecks = TRUE
    MaxSequence = 1
SPECIFICATION Spec
SYMMETRY EndpointSymmetry
\* A panic stops the registry.
CHECK_DEADLOCK FALSE
INVARIANTS ResetCancels
