SPECIFICATION FairSpec
CONSTANTS
    KeyLen = 3
    MaxByte = 4
    Keys <- MCKeys
    v1 = v1
    v2 = v2
    Values = {v1, v2}
    Given <- MCGiven
    Cap4 = 2
    Cap16 = 3
    Cap48 = 4
    LoneLeafBounds = FALSE
INVARIANTS TypeOK SlotsFollowKeys NothingLost LayoutFitsSize CountIsSize DummyTracksRoot
PROPERTIES ElementsStay CallsReturn ImplementsMap
