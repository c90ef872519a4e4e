SPECIFICATION Spec
CONSTANTS
    MaxByte = 6
    Cap4 = 2
    Cap16 = 4
    Cap48 = 5
    EmptyMarker = 6
    Kids = {k1, k2}
    Nil = Nil
    CopyAnyNode48 = TRUE
INVARIANT CopyIsFaithful
\* Copying a null child stops the program.
CHECK_DEADLOCK FALSE
