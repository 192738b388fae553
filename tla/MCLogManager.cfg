CONSTANTS
    Workers = {w1, w2}
    LOG_BUFFER_SIZE = 3
    Sizes = {1, 2}
    MaxRecords = 3
    MaxForces = 2
    MaxStops = 1
SPECIFICATION FairSpec
INVARIANT LogIsComplete
PROPERTIES  WaitersReturn
CHECK_DEADLOCK FALSE
