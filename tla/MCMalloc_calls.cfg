\* Any order of requests of three sizes and releases, up to the first call that makes
\* a chunk reach into the next one: from then on users overwrite headers.
SPECIFICATION Spec
CONSTANTS
    NULL = NULL
    INIT_BUF_SIZE = 36
    Sizes <- Three
VIEW StateView
CONSTRAINT ChunksApart
INVARIANTS
    TypeOK
    FreeListSorted
    BytesConserved
PROPERTY OverlapsBySplit
