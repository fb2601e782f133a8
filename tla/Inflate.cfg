SPECIFICATION CooperativeSpec
CONSTANTS
    Streams <- All
    Later <- Few
    capacity = 4
    max_match = 4
    Verify = {TRUE, FALSE}
    Flushes = {"finish", "trees"}
    InSizes = {1, 14}
    OutSizes = {1, 9}
    MaxLives = 2
INVARIANTS
    TypeOK
    InBounds
    BitsInOrder
    OutputInOrder
    WindowFollowsOutput
    CheckCoversOutput
    StopsWhenStuck
PROPERTIES
    IsDecoder
    Finishes
