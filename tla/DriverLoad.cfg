SPECIFICATION LiveSpec
CONSTANTS
    Tag = {"t1", "t2"}
    Fault = {"path", "filp_open", "maps", "slot_bitmap", "wq", "major", "tag_set",
             "disk", "add_disk", "write_access", "entry_cache"}
    CapacityGb = {1, 3, 5}
    GB = 16
    PAGE_SIZE = 4
    SECTOR_SIZE = 2
    EntriesPerPage = 2
    Word = 32
INVARIANTS
    TypeOK
    MisuseOnly
    WorkHasContext
    LoadedIsWhole
    EverySectorMapped
PROPERTIES
    LeaksOnly
    LoadReturns
