CONSTANTS
    P1 = P1
    P2 = P2
    P3 = P3
    Procs <- TwoProcs
    Amounts = {1}
    MaxTurns = 3
    KeepRecent = 1
    MaxClock = 2
    NoLock = NoLock
    Missing = Missing
    Damaged = Damaged
    Faults = {"slow", "crash", "damage", "switch", "delete", "writeError"}
    MaxFaults = 2
SPECIFICATION FairSpec
CHECK_DEADLOCK FALSE
INVARIANTS AccidentsAreSurvived
PROPERTIES SaveCompletes
