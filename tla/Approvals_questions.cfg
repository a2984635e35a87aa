CONSTANTS
    P1 = P1
    P2 = P2
    Procs <- TwoProcs
    Requests <- ThreeRequests
    Covers <- Itself
    Modes = {"ask", "auto-edit"}
    NoCall = NoCall
    NoSubject = NoSubject
    MaxDenials = 2
    MaxCalls = 3
    MaxRuns = 2
    MaxStarts = 3
SPECIFICATION Spec
CHECK_DEADLOCK FALSE
INVARIANTS
    ProtectedOnlyByYes
    RulesAreKept
    QuestionsAreAnswered
SYMMETRY Interchangeable
CONSTRAINT OneIrregularity
