\* Two technologies, two changes, the menu opened twice, one click.
CONSTANTS
    wifi = wifi
    ethernet = ethernet
    Paths = {wifi, ethernet}
    MaxChange = 2
    MaxPopup = 2
    MaxClick = 1
    MaxScan = 0
    MaxFail = 1
    MaxDown = 1
SPECIFICATION Spec
SYMMETRY PathsSymmetry
CHECK_DEADLOCK FALSE
INVARIANTS
    TypeOK
    TableAccurate
    MenuConsistent
    SwitchTruthful
