CONSTANTS
    None = None
    Addr = {a1, a2}
    Path = {p1}
    Token = {t1, t2}
    PayloadLen <- SmallPayloads
    BlockSize <- SmallBlocks
    MaxTry = 1
    MidModulus = 4
    MaxBody = 2
    OverflowChecks = TRUE
    MaxSequence = 2
SPECIFICATION FairSpec
\* A panic stops the registry.
CHECK_DEADLOCK FALSE
INVARIANTS TypeOK IndexesAgree PendingAgrees PanicOnlyOnOverflow NewestStateSent
PROPERTIES OnlyOwnerCancels NotificationsOrdered PendingSettles
