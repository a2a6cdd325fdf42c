\* Every interleaving of the calls of three clients on two files, with fewer
\* ACL entries than they could use and two descriptors, on a back-end that may hold
\* files of an earlier run.
SPECIFICATION Spec
CONSTANTS
    s1 = s1  s2 = s2  s3 = s3  a = a  b = b
    NULL = NULL
    SMs <- ThreeSMs
    Names <- TwoNames
    Bits <- AllBits
    Wanted <- MCWanted
    Granted <- MCGranted
    MAX_NB_FILES = 2
    MAX_NB_PERMS = 3
    MAX_NB_OPEN_FILES = 2
    NO_CFS_FORMAT = TRUE
SYMMETRY Symmetry
VIEW StateView
INVARIANTS
    TypeOK
    HeadIsCreator
    SlotsConserved
    LookupsUnambiguous
    OpenCountExact
    NoStaleFd
    BackendInSync
PROPERTIES
    AccessSound
    OnlyRootChangesRights
    CreatorForLife
    ConnectionsEndInOrder
    NoFileForgotten
