CONSTANTS
    P1 = P1
    P2 = P2
    Procs <- TwoProcs
    MaxTurns = 2
    KeepRecent = 1
    NoState = NoState
    NoLock = NoLock
    MaxRuns = 3
    MaxEdits = 1
    Faults = {"restart", "slow", "disk"}
    MaxFaults = 3
SPECIFICATION FairSpec
CHECK_DEADLOCK FALSE
INVARIANT MemoryFollowsTranscript
PROPERTIES
    CommitEnds
    NoStateClobbered
