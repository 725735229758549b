CONSTANTS
    None = None
    Error = Error
    Request = {r1, r2}
    Receiver = {}
    Confirmable = {}
    TokenOf <- EmptyTokens
    Retries = 1
    MaxQueue = 1
SPECIFICATION Spec
\* When all tasks are done and the receive loop has stopped nothing is left to do.
CHECK_DEADLOCK FALSE
INVARIANTS OwnAnswer
