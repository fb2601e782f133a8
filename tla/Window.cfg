SPECIFICATION Spec
CONSTANTS
    Capacities = {2, 4}
    WriteSizes = {1, 2, 3, 4, 5, 9}
    MaxTotal = 12
INVARIANTS
    Contents
PROPERTIES
    IsHistory
