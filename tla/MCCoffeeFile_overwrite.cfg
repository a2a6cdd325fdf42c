\* A byte that is overwritten, and read through the log.
SPECIFICATION Spec
CONSTANTS
    NULL = NULL
    COFFEE_PAGE_SIZE = 4
    HEADER = 3
    DynPages = 1
    MaxPages = 2
    LogRecords = 1
    PointerSize = 2
    COFFEE_FD_SET_SIZE = 2
    Heap = 7
    Byte <- ZeroAndFF
    Offsets <- Steps
PROPERTY OverwritesReadBack
