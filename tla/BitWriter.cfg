SPECIFICATION Spec
CONSTANTS
    byte = 4
    Capacity = 48
    Pieces <- MCPieces
    Blocks <- MCBlocks
    MaxSent = 11
INVARIANTS
    TypeOK
    BitsInOrder
    NothingToPutBehind
PROPERTIES
    FlushLeavesLess
