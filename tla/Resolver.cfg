SPECIFICATION Spec
CONSTANTS
    a1 = a1
    a2 = a2
    k1 = k1
    k2 = k2
    None = None
    TTL = TTL
    Recs = {a1, a2}
    Keys = {k1, k2}
    MaxEvents = 2
INVARIANTS SeenTwice 
