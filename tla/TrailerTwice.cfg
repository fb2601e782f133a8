SPECIFICATION CooperativeSpec
CONSTANTS
    w_size = 9
    max_match = 3
    lit_bufsize = 4
    BlockBytes = {1, 2}
    wrap = "zlib"
    Levels = {"fast"}
    Strategies = {"normal"}
    Flushes = {"finish"}
    InSizes = {0, 5}
    OutSizes = {1, 3}
    ParamsOut = {}
    PrimeBytes = {}
    MaxInput = 5
INVARIANTS
    TrailerOnce
CHECK_DEADLOCK FALSE
