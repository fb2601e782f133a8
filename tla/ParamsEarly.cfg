SPECIFICATION Spec
CONSTANTS
    w_size = 9
    max_match = 3
    lit_bufsize = 4
    BlockBytes = {1, 2}
    wrap = "none"
    Levels = {"fast", "slow"}
    Strategies = {"normal"}
    Flushes = {"none", "finish"}
    InSizes = {0, 5}
    OutSizes = {3}
    ParamsOut = {1}
    PrimeBytes = {}
    MaxInput = 15
INVARIANTS
    Lossless
