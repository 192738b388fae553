CONSTANTS
    Threads = {t1, t2, t3, t4}
    MAX_READERS = 5
SPECIFICATION FairSpec
INVARIANTS Exclusion NoLostWakeUp
PROPERTY EnteredWriterWrites
