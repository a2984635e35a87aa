CONSTANTS
    T1 = T1
    T2 = T2
    I1 = I1
    I2 = I2
    Tools <- OneTool
    Inputs <- TwoInputs
    Costs = {0, 1}
    MaxSteps = 2
    MaxCost = 2
    CompressionModes = {"off", "auto"}
    MaxCalls = 2
    MaxRuns = 1
    Faults = {"late", "unannounced", "save", "breaks"}
    MaxFaults = 1
SPECIFICATION FairViewSpec
CHECK_DEADLOCK FALSE
INVARIANTS
    ResultIsHonest
    ViewFollowsRun
PROPERTIES
    EventsInOrder
    AbortedRunEnds
