\* Two services, three requests, the daemon started twice.
CONSTANTS
    p1 = p1
    p2 = p2
    Paths = {p1, p2}
    NoPath = NoPath
    MaxReq = 3
    MaxStart = 2
SPECIFICATION FairSpec
CHECK_DEADLOCK FALSE
INVARIANTS
    TypeOK
    RequestsKept
    CallsFindAgent
    DialogForRequest
    TrayUsable
PROPERTIES
    NoAnswerAfterWithdrawal
    EventuallyRegistered
