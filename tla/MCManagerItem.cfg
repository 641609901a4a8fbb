\* One change made by another program while the menu is open.
CONSTANTS
    DaemonStates = {"ready", "association"}
    MaxChange = 1
    MaxClick = 1
    MaxPopup = 1
    MaxFail = 0
    MaxStart = 0
SPECIFICATION Spec
CHECK_DEADLOCK FALSE
INVARIANTS
    ItemDoesAsItSays
