CONSTANTS
    None = None
    Initiator = {i1, i2}
    Trusted = {i1, i2}
    ConnId = {c1, c2, c3}
    Task = {t1, t2}
    TimePasses = FALSE
    MaxSessions = 3
SPECIFICATION Spec
SYMMETRY Symmetry
\* When every exchange has ended and no request is left to copy nothing happens.
CHECK_DEADLOCK FALSE
INVARIANTS DuplicateAnswered
