SPECIFICATION Spec
CONSTANTS
    Tag = {t1}
    NPages = 2
    PageSectors = 2
    ChunkSlots = 1
    EXTEND_THRESHOLD_PERCENT = 50
    Align = 1
    SegmentLen = {1, 2}
    SegmentOffset = {0}
    MaxSectors = 2
    Val = {v}
    Zero = Zero
    Other = Other
    Fault = {}
PROPERTY
    StoredIsFound
