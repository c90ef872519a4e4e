SPECIFICATION Spec
CONSTANTS
    KeyLen = 6
    MaxByte = 4
    Keys <- FewKeys
    v1 = v1
    v2 = v2
    Values = {v1, v2}
    Given <- MCGiven
    Cap4 = 2
    Cap16 = 3
    Cap48 = 4
    MaxPrefix = 3
    LoneLeafBounds = FALSE
    HiddenBounds = TRUE
INVARIANT EndIsBeyond
