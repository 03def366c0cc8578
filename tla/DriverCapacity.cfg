SPECIFICATION Spec
CONSTANTS
    Tag = {"t1", "t2"}
    Fault = {}
    CapacityGb = {1, 3, 5}
    GB = 16
    PAGE_SIZE = 4
    SECTOR_SIZE = 2
    EntriesPerPage = 2
    Word = 32
INVARIANT
    CapacityAsAsked
