\* Two services, two changes of the list, the menu opened twice.
CONSTANTS
    a = a
    b = b
    Paths = {a, b}
    None = None
    MaxChange = 2
    MaxPopup = 2
    MaxTrouble = 1
SPECIFICATION FairSpec
CHECK_DEADLOCK FALSE
INVARIANTS
    TypeOK
    ObjectsKept
    SettingsFollow
    MenuAccurate
PROPERTIES
    MenuSettles
