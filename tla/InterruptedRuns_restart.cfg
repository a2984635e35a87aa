CONSTANTS
    P1 = P1
    P2 = P2
    C1 = C1
    C2 = C2
    Procs <- TwoProcs
    Chats <- TwoChats
    NoLog = NoLog
    NoChat = NoChat
    MaxRuns = 2
    Faults = {"crash", "disk", "deny", "prune"}
    MaxFaults = 2
SPECIFICATION Spec
CHECK_DEADLOCK FALSE
SYMMETRY Interchangeable
INVARIANT CutRunsAreKept
PROPERTY ReportsAreRight
CONSTRAINT PrunedAlone
