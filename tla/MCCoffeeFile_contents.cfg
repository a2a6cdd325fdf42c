\* Two descriptors on a file that grows once, with a log of one record, and memory
\* for that, a merge with the log, and little more.
SPECIFICATION Spec
CONSTANTS
    NULL = NULL
    COFFEE_PAGE_SIZE = 4
    HEADER = 3
    DynPages = 1
    MaxPages = 2
    LogRecords = 1
    PointerSize = 2
    COFFEE_FD_SET_SIZE = 2
    Heap = 7
    Byte <- ZeroAndFF
    Offsets <- Steps
VIEW StateView
INVARIANTS
    TypeOK
    PositionInFile
    EndFound
PROPERTY ReadsBack
