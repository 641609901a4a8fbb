\* Two signals and the name, two daemons; watch numbers up to 7.
CONSTANTS
    s1 = s1
    s2 = s2
    n1 = n1
    n2 = n2
    Signals = {s1, s2}
    Owner = Owner
    Names = {n1, n2}
    Gone = Gone
    None = None
    MaxId = 7
SPECIFICATION Spec
CHECK_DEADLOCK FALSE
INVARIANTS
    TypeOK
    Accounted
PROPERTY
    KeepsPromises
