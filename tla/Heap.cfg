SPECIFICATION Spec
CONSTANTS
    Cells = 9
    LargeCells = 6
    ExactClasses = 1
    CellSize = 2
    PageBytes = 18
    LobHeader = 2
    FirstThreshold = 16
    MaxSize = 36
    AllocatorFails = TRUE
    Requests <- SmallRequests
    MaxObjects = 3
    MaxLost = 1
INVARIANTS ObjectsIntact BookkeepingAgrees CollectionExact
CHECK_DEADLOCK FALSE
