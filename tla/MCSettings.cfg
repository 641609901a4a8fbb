\* A group with buttons and one with a text: edits, calls, notifications, errors, the end of the daemon, the dialog opened twice.
CONSTANTS
    Fields = {"ipv6_method", "domains_conf"}
    Texts = {"", "a"}
    Options = {"auto", "manual"}
    Changes = {"other"}
    None = None
    MaxChange = 1
    MaxEdit = 2
    MaxOk = 2
    MaxClick = 0
    MaxPopup = 2
    MaxList = 2
    MaxTrouble = 1
SPECIFICATION Spec
CHECK_DEADLOCK FALSE
INVARIANTS
    TypeOK
    CallbacksFindTarget
PROPERTIES
    SentAsShown
    EditsCounted
