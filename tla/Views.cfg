CONSTANTS
    z1 = z1
    z2 = z2
    n1 = n1
    n2 = n2
    k1 = k1
    k2 = k2
    k3 = k3
    Keys = {k1, k2, k3}
    Own = {k1}
    None = none
    Screens = {"explorer", "browser", "lookup", "frontend", "registrar"}
    Zones = {z1, z2}
    Names = {n1}
    MaxAt = 2
    Limit = 2
    MaxNames = 2
    MaxLoads = 2
    MaxChanges = 3
SPECIFICATION FairSpec
INVARIANTS NewestIsShown ShownIsOfSubject VerdictIsRight
PROPERTIES BrowserCatchesUp SurvivesReload
CHECK_DEADLOCK FALSE
