SPECIFICATION Spec
CONSTANTS
    Tag = {t1, t2}
    NPages = 2
    ChunkSlots = 1
    BatchPages = 1
    MaxPages = 1
    Val = {v}
    Zero = Zero
    Trigger = {80}
    Fault = {}
    Serialised = FALSE
INVARIANT
    ReadOwnData
