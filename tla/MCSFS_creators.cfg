\* A file can get a second creator entry (chmod overriding an entry).
SPECIFICATION Spec
CONSTANTS
    s1 = s1  s2 = s2  s3 = s3  a = a  b = b
    NULL = NULL
    SMs <- TwoSMs
    Names <- TwoNames
    Bits <- AllBits
    Wanted <- MCWanted
    Granted <- MCGranted
    MAX_NB_FILES = 2
    MAX_NB_PERMS = 3
    MAX_NB_OPEN_FILES = 2
    NO_CFS_FORMAT = FALSE
SYMMETRY Symmetry
VIEW StateView
INVARIANT ExactlyOneCreator
