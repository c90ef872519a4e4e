SPECIFICATION Spec
CONSTANTS
    Containers = {c1, c2}
    Keys <- MCKeys
    Values <- MCValues
    Given <- MCGiven
    Default = 0
    Loopers = {c1}
    Lists <- MCLists
INVARIANTS TypeOK LoopsInOrder
PROPERTIES ImplementsMapCalls LoopsMissNothing CallsReturn
