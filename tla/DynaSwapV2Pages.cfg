SPECIFICATION LiveSpec
CONSTANTS
    Tag = {t1, t2}
    NPages = 2
    PageSectors = 2
    ChunkSlots = 1
    EXTEND_THRESHOLD_PERCENT = 50
    Align = 2
    SegmentLen = {2}
    SegmentOffset = {0}
    MaxSectors = 4
    Val = {v}
    Zero = Zero
    Other = Other
    Fault = {"bimap", "read", "write", "fsync", "fallocate"}
INVARIANTS
    TypeOK
    BimapConsistent
    FileBounded
PROPERTIES
    NoSpaceOnlyByLeak
    ReadOwnSectors
    ServedInOrder
    ImplementsPageDisk
    EveryRequestCompletes
