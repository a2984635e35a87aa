CONSTANTS
    P1 = P1
    P2 = P2
    K1 = K1
    K2 = K2
    NoKey = NoKey
    Procs <- TwoProcs
    Keys <- TwoKeys
    Modes = {"dashboard", "plain", "batch"}
    Env <- OneEnv
    MaxUses = 2
SPECIFICATION KeysSpec
CHECK_DEADLOCK FALSE
INVARIANT KeyInForce
PROPERTY CheckEnds
