SPECIFICATION LiveSpec
CONSTANTS
    SWAP_MAX_COUNT = 3
    Configurations <- AllConfigurations
    CommandLines <- AllCommandLines
    ForeignPages = 0
    Sig = 4
    Fault = {"poll", "fopen", "fallocate", "swapoff", "getuid"}
INVARIANTS
    TypeOK
    ListInOrder
    ActiveAccounted
    KeepsSomeSwap
    LoopIsConfigured
PROPERTIES
    ImplementsSwapPool
    FreesWhatFitted
    ShutdownAdvances
    ShutdownFinishes
    GrowsUnderPressure
    ShrinksWhenCalm
