SPECIFICATION Spec
CONSTANTS
    elems = 6
    codes = 6
    max_bits = 4
    longest = 4
    Descs <- MCDescs
    Enough <- MCEnough
    RootBits <- MCRootBits
    Arrived <- MCArrived
INVARIANTS
    TypeOK
    CompleteCode
    LengthsCounted
    TableDecodes
    CodesAgree
    RefusedWhenWrong
PROPERTIES
    ShortestCode
CHECK_DEADLOCK FALSE
