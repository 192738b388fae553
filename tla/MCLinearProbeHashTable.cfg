CONSTANTS
    Threads = {t1, t2}
    Keys = {1, 2}
    Values = {v, w}
    GetHash <- MCHash
    BLOCK_ARRAY_SIZE = 2
    NumBuckets = 3
    MaxOps = 5
    MaxResizes = 1
    MayRepeat = FALSE
SPECIFICATION FairSpec
INVARIANTS PairsReachable 
PROPERTIES GetValueCorrect UpdatesTakeEffect CallsReturn
CHECK_DEADLOCK FALSE
