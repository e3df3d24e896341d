CONSTANTS
    o1 = o1
    o2 = o2
    c1 = c1
    c2 = c2
    d1 = d1
    d2 = d2
    Orders = {o1, o2}
    Domains = {d1, d2}
    Callers = {c1, c2}
    NoOrder = NoOrder
    MaxRestarts = 2
SPECIFICATION FairSpec
INVARIANTS OrderHasWorker IssuedIsUsable
PROPERTIES OutcomeIsFinal OrderSettles ImplementsService
CHECK_DEADLOCK FALSE
