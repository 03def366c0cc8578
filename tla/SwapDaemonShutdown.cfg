SPECIFICATION Spec
CONSTANTS
    SWAP_MAX_COUNT = 3
    Configurations <- ReferenceOnly
    CommandLines <- WithConfig
    ForeignPages = 0
    Sig = 2
    Fault = {}
INVARIANT
    ShutdownFreesAll
