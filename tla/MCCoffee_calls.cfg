\* Calls and resets on a flash of two sectors.  Every property but the types of two
\* history variables is about intact states, so others are not gone on from.
SPECIFICATION Spec
CONSTANTS
    a = a  b = b
    NULL = NULL
    Names <- TwoNames
    COFFEE_SECTOR_COUNT = 2
    COFFEE_PAGES_PER_SECTOR = 4
    COFFEE_MAX_OPEN_FILES = 3
    COFFEE_FD_SET_SIZE = 2
    DynPages = 2
    LogPages = 1
SYMMETRY Symmetry
VIEW StateView
CONSTRAINT AsLongAsIntact
INVARIANTS
    TypeOK
    ExtentsApart
    CacheAgrees
    RefsExact
    SpaceFound
    OneCopy
PROPERTIES
    KeepsFiles
    KeepsContract
