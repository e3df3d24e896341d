SPECIFICATION FairSpec
CONSTANTS
    w1 = w1
    w2 = w2
    Cmds = {"add", "delete", "burn", "refund", "conformance", "register", "resolve", "zone-check", "zone-export"}
    Relays = {w1, w2}
    Recs = {1, 2, 3}
    MaxPolls = 2
    MaxChanges = 1
INVARIANTS SeenIsPrinted ReportedIsSo VerdictIsRight DiffIsFaithful
PROPERTIES CommandEnds
CHECK_DEADLOCK FALSE
