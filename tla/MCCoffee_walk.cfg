\* Garbage collection erases a sector with the tail of an obsolete extent whose
\* header stays, and a file is put where that header jumps over it.
SPECIFICATION Spec
CONSTANTS
    a = a  b = b
    NULL = NULL
    Names <- TwoNames
    COFFEE_SECTOR_COUNT = 2
    COFFEE_PAGES_PER_SECTOR = 4
    COFFEE_MAX_OPEN_FILES = 3
    COFFEE_FD_SET_SIZE = 2
    DynPages = 2
    LogPages = 1
SYMMETRY Symmetry
VIEW StateView
CONSTRAINT AsLongAsClean
INVARIANT WalkIntact
