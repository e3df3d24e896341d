CONSTANTS
    u1 = u1
    u2 = u2
    n1 = n1
    Users = {u1, u2}
    Names = {n1}
    Registrar = reg
    Nobody = nobody
    Grace = 0
    MaxLease = 1
    OperatorExpiry = 3
    CreatePrice = 2
    Kinds = {"claim", "update", "delete", "delegation", "lease"}
    Forms = {"paid"}
    MaxTime = 1
    Ends = {1}
    MaxEvents = 2
    MaxDms = 1
    MaxRestarts = 0
SPECIFICATION Spec
SYMMETRY UserSymmetry
INVARIANTS HolderWasGranted ServedByGrantee
PROPERTY ImplementsNames
CHECK_DEADLOCK FALSE
