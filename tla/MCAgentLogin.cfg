\* One service and one request: a login that the user answers.
CONSTANTS
    p1 = p1
    p2 = p2
    Paths = {p1}
    NoPath = NoPath
    MaxReq = 1
    MaxStart = 1
SPECIFICATION Spec
CHECK_DEADLOCK FALSE
INVARIANT LoginsKeptToo
