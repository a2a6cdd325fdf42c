\* A chunk that is split a second time grows into the next one.
SPECIFICATION Spec
CONSTANTS
    NULL = NULL
    INIT_BUF_SIZE = 60
    Sizes <- Mixed
INVARIANT ChunksApart
