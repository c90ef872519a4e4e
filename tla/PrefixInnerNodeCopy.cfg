SPECIFICATION Spec
CONSTANTS
    MaxByte = 5
    Cap4 = 2
    Cap16 = 3
    Cap48 = 5
    EmptyMarker = 6
    Kids = {k1}
    Nil = Nil
    KeyLen = 3
    Keys <- MCKeys
    Heads <- MCHeads
    MaxPrefix = 1
    CopyAnyNode48 = TRUE
PROPERTY CopyKeepsHead
CHECK_DEADLOCK FALSE
