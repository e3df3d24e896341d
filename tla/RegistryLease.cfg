CONSTANTS
    u1 = u1
    u2 = u2
    n1 = n1
    Users = {u1, u2}
    Names = {n1}
    Registrar = reg
    Nobody = nobody
    Grace = 1
    MaxLease = 1
    OperatorExpiry = 3
    CreatePrice = 2
    Kinds = {"renewal"}
    Forms = {"paid"}
    MaxTime = 2
    Ends = {2}
    MaxEvents = 1
    MaxDms = 2
    MaxRestarts = 1
SPECIFICATION Spec
SYMMETRY UserSymmetry
INVARIANTS TypeOK NoEarlyResale ExpiredWasOverdue
CHECK_DEADLOCK FALSE
