SPECIFICATION Spec
CONSTANTS
    file = file
    tcp = tcp
    tcp6 = tcp6
    Free = Free
    Slots <- TwoSlots
    Objects <- ThreeObjects
    FamilyOf <- FamilyTable
    Functions <- AllFunctions
    Attempts = 2
    Eighth = 1
INVARIANTS TypeOK BetweenThroughoutAndEver HeapBalance GivesUpOnGrowth
PROPERTIES CallEnds
\* The call is over.
CHECK_DEADLOCK FALSE
