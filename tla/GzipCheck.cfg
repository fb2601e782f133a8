SPECIFICATION Spec
CONSTANTS
    Streams <- GzipText
    Later <- None
    capacity = 4
    max_match = 4
    Verify = {TRUE}
    Flushes = {"none"}
    InSizes = {1, 14}
    OutSizes = {1, 9}
    MaxLives = 1
INVARIANTS
    SoundStreamAccepted
