\* Any sequence of calls while the chip takes its time: three sectors of one page
\* of two bytes of one bit.
SPECIFICATION Spec
CONSTANTS
    SectorCount = 3
    SectorSize = 2
    PageSize = 2
    Bits <- OneBit
    Data <- SomeData
    Lengths <- SomeLengths
INVARIANTS
    TypeOK
    HoldsWhatWasAsked
PROPERTIES
    ReadsTrue
    LostHow
    CallsReturn
