\* Two changes, two clicks, the menu opened twice, one failure, a start after the first end.
CONSTANTS
    DaemonStates = {"ready", "association"}
    MaxChange = 2
    MaxClick = 2
    MaxPopup = 2
    MaxFail = 1
    MaxStart = 1
SPECIFICATION FairSpec
CHECK_DEADLOCK FALSE
INVARIANTS
    TypeOK
    StateAccurate
    IconTruthful
    ReplyFindsManager
    AirplaneAsAsked
PROPERTIES
    IconSettles
