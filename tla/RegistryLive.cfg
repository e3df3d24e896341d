CONSTANTS
    u1 = u1
    u2 = u2
    n1 = n1
    Users = {u1}
    Names = {n1}
    Registrar = reg
    Nobody = nobody
    Grace = 1
    MaxLease = 1
    OperatorExpiry = 3
    CreatePrice = 2
    Kinds = {"renewal", "lease"}
    Forms = {"paid", "invalid", "opaque"}
    MaxTime = 2
    Ends = {2}
    MaxEvents = 1
    MaxDms = 1
    MaxRestarts = 1
SPECIFICATION FairSpec
PROPERTIES ImplementsNames OverdueIsSwept DmIsSettled
CHECK_DEADLOCK FALSE
