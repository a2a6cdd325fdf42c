\* Any calls of the front-end, up to the first open that fails after it has
\* linked the new entry: what follows depends on who gets the freed block.
SPECIFICATION Spec
CONSTANTS
    a = a  b = b  m1 = m1  m2 = m2  m3 = m3  m4 = m4  m5 = m5  m6 = m6
    NULL = NULL
    Names <- TwoNames
    Block <- SixBlocks
    FileSizes <- SomeSizes
    Offsets <- SomeOffsets
    MAX_NB_OPEN_FILES = 2
SYMMETRY Symmetry
VIEW StateView
CONSTRAINT EntriesLive
INVARIANTS
    TypeOK
    OnePurpose
    PositionInFile
    NamesUnique
PROPERTY KeepsContract
