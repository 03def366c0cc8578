SPECIFICATION Spec
CONSTANTS
    Tag = {t1}
    NPages = 2
    ChunkSlots = 2
    BatchPages = 1
    MaxPages = 2
    Val = {v}
    Zero = Zero
    Trigger = {80}
    Fault = {"write"}
    Serialised = TRUE
INVARIANT
    OkMeansTransferred
