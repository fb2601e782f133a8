SPECIFICATION Spec
CONSTANTS
    w_size = 9
    max_match = 3
    lit_bufsize = 4
    BlockBytes = {1, 2}
    wrap = "none"
    Levels = {"stored", "fast", "slow"}
    Strategies = {"normal", "rle", "huffman"}
    Flushes = {"none", "sync", "finish"}
    InSizes = {6, 11, 20}
    OutSizes = {1, 3}
    ParamsOut = {30}
    PrimeBytes = {}
    MaxInput = 20
INVARIANTS
    TypeOK
    PutsFindEmptyBuffer
    Lossless
    SearchStaysInWindow
    FillsOnce
    StoredBlockInWindow
PROPERTIES
    IsPipe
