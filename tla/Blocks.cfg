SPECIFICATION Spec
CONSTANTS
    Inputs <- MCInputs
    CodesOver <- MCCodesOver
INVARIANTS
    BlockDecodes
    BitsAnnounced
    ShortestKind
CHECK_DEADLOCK FALSE
