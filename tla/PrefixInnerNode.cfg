SPECIFICATION Spec
CONSTANTS
    MaxByte = 5
    Cap4 = 2
    Cap16 = 3
    Cap48 = 5
    EmptyMarker = 6
    Kids = {k1, k2}
    Nil = Nil
    KeyLen = 3
    Keys <- MCKeys
    Heads <- MCHeads
    MaxPrefix = 1
    CopyAnyNode48 = FALSE
SYMMETRY Interchangeable
INVARIANTS TypeOK CountExact ScansFollowKeys
PROPERTIES HeadStays ImplementsChildMap
\* A node that was left with one child is gone.
CHECK_DEADLOCK FALSE
