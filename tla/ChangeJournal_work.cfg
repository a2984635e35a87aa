CONSTANTS
    F1 = F1
    F2 = F2
    T1 = T1
    T2 = T2
    C1 = C1
    C2 = C2
    Files <- TwoFiles
    Texts <- TwoTexts
    Calls <- TwoCalls
    Absent = Absent
    Untouched = Untouched
    NoCall = NoCall
    NoUndo = NoUndo
    NoCheckpoint = NoCheckpoint
    MaxRuns = 2
    MaxCalls = 3
    Faults = {"edit", "deny", "crash", "disk", "prune"}
    MaxFaults = 2
SPECIFICATION Spec
CHECK_DEADLOCK FALSE
SYMMETRY Interchangeable
INVARIANT JournalIsHonest
PROPERTY UndoIsRight
CONSTRAINT OverlapOrFaults
