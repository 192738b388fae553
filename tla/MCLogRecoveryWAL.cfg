CONSTANTS
    PAGE_SIZE = 6
    SIZE_TABLE_PAGE_HEADER = 1
    SIZE_TUPLE = 1
    Tuples <- MCTuples
    Inserts <- MCInserts
    MaxTxns = 2
    MaxOps = 3
    MaxPages = 2
    Hazards = {"fetch_evict"}
SPECIFICATION Spec
INVARIANT WriteAhead
CHECK_DEADLOCK FALSE
