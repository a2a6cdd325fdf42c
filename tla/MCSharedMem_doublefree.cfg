\* The entry of a file that could not be opened is freed again by its removal.
SPECIFICATION Spec
CONSTANTS
    a = a  b = b  m1 = m1  m2 = m2  m3 = m3  m4 = m4  m5 = m5  m6 = m6
    NULL = NULL
    Names <- TwoNames
    Block <- SixBlocks
    FileSizes <- SomeSizes
    Offsets <- SomeOffsets
    MAX_NB_OPEN_FILES = 2
SYMMETRY Symmetry
VIEW StateView
PROPERTY FreesWhatItHolds
