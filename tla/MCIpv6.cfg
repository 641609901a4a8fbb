\* Two addresses, a length beyond eight bits, and one in them.
CONSTANTS
    Addresses = {"a", "b"}
    Numbers = {48, 300}
    Junk = {0, 511}
    None = None
    MaxChange = 2
    MaxEdit = 2
    MaxOk = 2
SPECIFICATION Spec
CHECK_DEADLOCK FALSE
INVARIANTS
    KnownAsSaid
PROPERTIES
    OkAsShown
