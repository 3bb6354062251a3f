SPECIFICATION FairSpec
CONSTANTS
    p1 = p1
    c1 = c1
    c2 = c2
    k1 = k1
    k2 = k2
    Procs = {p1}
    Callers = {c1, c2}
    Home <- OneProcess
    Keys = {k1, k2}
    Covers <- FirstCoversSecond
    Drift = Drift
    Faults = {"crash", "commit", "unavailable", "cancel", "credits", "malformed"}
    MaxLost = 1
CHECK_DEADLOCK FALSE
INVARIANTS PaidOnce ToldIsStored
PROPERTY EveryAskEnds
