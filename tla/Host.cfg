SPECIFICATION Spec
CONSTANTS
    Programs <- MCPrograms
    PageSlots = 2
    MaxPages = 2
    MaxObjects = 3
    MaxUsers = 3
    Numbers = {1, 256}
    Names = {"a", "b"}
INVARIANTS FreeListExact ObjectsKept CleanedOnce
CHECK_DEADLOCK FALSE
