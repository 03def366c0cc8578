SPECIFICATION LiveSpec
CONSTANTS
    Tag = {t1, t2}
    NPages = 2
    ChunkSlots = 1
    BatchPages = 1
    MaxPages = 2
    Val = {v}
    Zero = Zero
    Trigger = {100}
    Fault = {"punch", "read"}
    Serialised = TRUE
INVARIANTS
    SlotOwned
    ReadOwnData
PROPERTIES
    ImplementsPageDisk
    EveryRequestCompletes
    FullPoolGrows
