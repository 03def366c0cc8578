SPECIFICATION Spec
CONSTANTS
    Tag = {t1, t2}
    NPages = 2
    ChunkSlots = 1
    BatchPages = 2
    MaxPages = 1
    Val = {v}
    Zero = Zero
    Trigger = {50, 100}
    Fault = {"fallocate", "punch", "read", "write"}
    Serialised = FALSE
SYMMETRY TagSymmetry
INVARIANTS
    TypeOK
    MapConsistent
    PoolWithinFile
PROPERTIES
    NoSpaceMeansFull
    GuardedBySemaphore
    NearerTheEnd
