SPECIFICATION Spec
CONSTANTS
    w_size = 9
    max_match = 3
    lit_bufsize = 4
    BlockBytes = {1, 2}
    wrap = "zlib"
    Levels = {"stored", "fast", "slow"}
    Strategies = {"normal", "rle"}
    Flushes = {"none", "block", "partial", "sync", "full", "finish", "trees"}
    InSizes = {0, 5}
    OutSizes = {1, 3}
    ParamsOut = {30}
    PrimeBytes = {2}
    MaxInput = 14
INVARIANTS
    FlushDelivers
    FullFlushIsolates
    EndIsEnd
