CONSTANTS
    None = None
    Error = Error
    Request = {r1, r2}
    Receiver = {v1}
    Confirmable = {r1}
    TokenOf <- MixedTokens
    Retries = 2
    MaxQueue = 1
SPECIFICATION FairSpec
\* When all tasks are done and the receive loop has stopped nothing is left to do.
CHECK_DEADLOCK FALSE
INVARIANTS TypeOK NoStaleSender UnsharedOwnAnswer StaysRegistered
PROPERTIES KeepsPromise RequestEnds
