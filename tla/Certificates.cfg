CONSTANTS
    k1 = k1
    k2 = k2
    k3 = k3
    r1 = r1
    r2 = r2
    o1 = o1
    o2 = o2
    Keys = {k1, k3}
    Recs = {r1}
    Txt = {r1}
    None = None
    Orders = {o1, o2}
    Crypto <- MCCrypto
    MaxAttempts = 2
    MaxPolls = 2
    MaxRuns = 2
    MaxClicks = 5
SPECIFICATION FairSpec
INVARIANTS EndIsEarned KeyFits OneOpenOrder
PROPERTIES PipelineEnds OutcomeIsShown
CHECK_DEADLOCK FALSE
