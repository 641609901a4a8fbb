\* One technology that comes, goes and is scanned while the table is fetched.
CONSTANTS
    wifi = wifi
    ethernet = ethernet
    Paths = {wifi}
    MaxChange = 3
    MaxPopup = 0
    MaxClick = 0
    MaxScan = 3
    MaxFail = 1
    MaxDown = 1
SPECIFICATION FairSpec
CHECK_DEADLOCK FALSE
INVARIANTS
    ScanForLive
PROPERTIES
    TableSettles
