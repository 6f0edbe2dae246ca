CONSTANTS
    Capacity = 3
    GarbageOffsets = {0, 1, 2, 3, 5}
    MaxBytes = 10
    MaxRequest = 7
SPECIFICATION Spec
INVARIANTS
    TypeOK
    ListWellFormed
    LiveCellsInNode
    ContentInOrder
    PoppedInOrder
    SizeIsBacklog
PROPERTIES
    ImplementsFifo
    CallsReturn
