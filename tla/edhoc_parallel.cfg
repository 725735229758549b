CONSTANTS
    None = None
    Initiator = {i1, i2}
    Trusted = {i1}
    ConnId = {c1, c2, c3}
    Task = {t1, t2}
    TimePasses = TRUE
    MaxSessions = 2
SPECIFICATION FairSpec
\* When every exchange has ended and no request is left to copy nothing happens.
CHECK_DEADLOCK FALSE
INVARIANTS TypeOK SecretsAgree KeyConfirmed HookOnce
PROPERTIES PendingOnlyTaken HookTold
