SPECIFICATION CooperativeSpec
CONSTANTS
    w_size = 9
    max_match = 3
    lit_bufsize = 4
    BlockBytes = {1, 2}
    wrap = "none"
    Levels = {"stored", "fast", "slow"}
    Strategies = {"normal", "rle", "huffman"}
    Flushes = {"none", "partial", "full", "finish"}
    InSizes = {0, 5}
    OutSizes = {0, 3}
    ParamsOut = {}
    PrimeBytes = {}
    MaxInput = 13
PROPERTIES
    FinishEnds
    FlushEnds
CHECK_DEADLOCK FALSE
