\* Three paths; interfaces with a property, without one, and with nothing to show.
CONSTANTS
    Paths <- ThreePaths
    Ifaces = {"i", "j", "x"}
    WithProperties = {"i"}
    Experimental = {"x"}
    None = None
    MaxObjects = 4
    MaxCalls = 5
    MaxChanges = 1
SPECIFICATION Spec
CHECK_DEADLOCK FALSE
INVARIANTS
    TypeOK
    TreeConsistent
    MirrorAccurate
    IntrospectAccurate
