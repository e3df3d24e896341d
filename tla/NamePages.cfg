SPECIFICATION FairSpec
CONSTANTS
    r1 = r1
    j1 = j1
    j2 = j2
    None = None
    Apps = {"registrar", "frontend"}
    Recs = {r1}
    Jobs = {j1, j2}
    Tariff = {"create", "update"}
    MaxLoads = 1
INVARIANTS OneAtATime PaidUnlessExcused
PROPERTIES BusyEnds NoEventMissed
CHECK_DEADLOCK FALSE
