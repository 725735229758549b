CONSTANTS
    None = None
    Error = Error
    Addr = {a1}
    Client = a1
    Path = {p1}
    Resource = p1
    Token = {t1, empty}
    ObserveToken = t1
    EmptyToken = empty
    RandomToken = {t1, f1}
    PayloadLen <- LargePayloads
    BlockSize <- OneCell
    MaxTry = 1
    MidModulus = 4
    MaxBody = 2
    OverflowChecks = TRUE
    MaxSequence = 1
    MaxQueue = 2
    MaxChannel = 1
    MaxMishaps = 1
SPECIFICATION ObservationFairSpec
\* Nothing happens after the observation has ended.
CHECK_DEADLOCK FALSE
INVARIANTS ToldIsNotified  NothingLeft
PROPERTIES ToldForwards AckSettlesNothing FetchEnds
