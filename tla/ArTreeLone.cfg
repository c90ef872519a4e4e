SPECIFICATION Spec
CONSTANTS
    KeyLen = 3
    MaxByte = 4
    Keys <- TwoKeys
    v1 = v1
    v2 = v2
    Values = {v1, v2}
    Given <- MCGiven
    Cap4 = 2
    Cap16 = 3
    Cap48 = 4
    LoneLeafBounds = TRUE
INVARIANT BoundHasParent
