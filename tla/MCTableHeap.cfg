CONSTANTS
    PAGE_SIZE = 6
    SIZE_TABLE_PAGE_HEADER = 1
    SIZE_TUPLE = 1
    Tuples <- MCTuples
    Threads = {t1, t2}
    MaxPages = 2
    MaxOps = 4
    MaxTxns = 3
    MayShrink = FALSE
    MayConflict = FALSE
SPECIFICATION Spec
INVARIANTS PagesWellFormed  AssertsHold
PROPERTIES OneRowChanges AbortRestores ScanComplete
SYMMETRY Symmetry
CHECK_DEADLOCK FALSE
