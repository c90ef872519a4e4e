SPECIFICATION Spec
CONSTANTS
    Containers = {c1, c2}
    Byte <- MCByte
    Keys <- MCKeys
    v1 = v1
    v2 = v2
    Values = {v1, v2}
    Ranges <- MCRanges
    PathCompression = FALSE
    MayThrow = TRUE
    Trees = {1, 2}
    Dummies = {1, 2, 3}
INVARIANTS TypeOK OwnTrees
PROPERTIES LeaksAreKnown ImplementsMaps CopiesReturn
