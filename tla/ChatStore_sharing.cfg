CONSTANTS
    P1 = P1
    P2 = P2
    P3 = P3
    Procs <- ThreeProcs
    Amounts = {1}
    MaxTurns = 3
    KeepRecent = 1
    MaxClock = 4
    NoLock = NoLock
    Missing = Missing
    Damaged = Damaged
    Faults = {"switch", "crash"}
    MaxFaults = 1
SPECIFICATION Spec
SYMMETRY Interchangeable
CHECK_DEADLOCK FALSE
INVARIANTS NoTurnLost LedgerExact
PROPERTY SavesAreSound

