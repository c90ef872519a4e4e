SPECIFICATION Spec
CONSTANTS
    Bits = 2
    MaxSize = 3
    Types <- MCTypes
    Keys <- MCKeys
INVARIANTS OrderIsKept KeysStayDistinct
CHECK_DEADLOCK FALSE
