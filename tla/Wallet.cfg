CONSTANTS
    o1 = o1
    o2 = o2
    p1 = p1
    p2 = p2
    None = none
    Apps = {"registrar", "frontend"}
    Ops = {o1, o2}
    Polls = {p1, p2}
    MaxChanges = 1
SPECIFICATION FairSpec
INVARIANTS PaidIsFinalized
PROPERTIES ShownIsCurrent PaidIsShown
CHECK_DEADLOCK FALSE
