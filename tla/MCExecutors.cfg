SPECIFICATION FairSpec
CONSTANTS
    Width <- MCWidth
    RowSet <- MCRowSet
    HashOf <- MCHashOf
    Queries <- MCQueries
    Limit = 6
    MaxLeft = 3
    MaxRight = 2
    MaxAppends = 1
    PAGE_SIZE = 46
    TUPLE_BYTES = 8
    InsertFails = TRUE
INVARIANTS SourceCorrect TmpTuplesReadBack 
 
