\* The header against a change from elsewhere and a refused call, an answered OK, and how it ends.
CONSTANTS
    Fields = {"nameservers_conf"}
    Texts = {"", "a"}
    Options = {"auto"}
    Changes = {"autoconnect", "favorite"}
    None = None
    MaxChange = 1
    MaxEdit = 1
    MaxOk = 1
    MaxClick = 1
    MaxPopup = 1
    MaxList = 1
    MaxTrouble = 1
SPECIFICATION FairSpec
CHECK_DEADLOCK FALSE
PROPERTIES
    ComesToRest
    OkReloads
INVARIANTS
    EchoRepeats
