CONSTANTS
    u1 = u1
    u2 = u2
    n1 = n1
    Users = {u1, u2}
    Names = {n1}
    Registrar = reg
    Nobody = nobody
    Grace = 1
    MaxLease = 1
    OperatorExpiry = 3
    CreatePrice = 2
    Kinds = {"renewal"}
    Forms = {"paid"}
    MaxTime = 2
    Ends = {2, 3}
    MaxEvents = 1
    MaxDms = 1
    MaxRestarts = 0
SPECIFICATION Spec
SYMMETRY UserSymmetry
INVARIANTS ExpiredIsPastDeadline
CHECK_DEADLOCK FALSE
