CONSTANTS
    MaxTyped = 4
    MaxLines = 3
    MaxAsked = 3
    MaxLate = 1
SPECIFICATION FairTerminalSpec
CHECK_DEADLOCK FALSE
INVARIANT LinesAreTheUsers
PROPERTY UserGetsOut
