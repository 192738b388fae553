CONSTANTS
    Threads = {t1, t2}
    PageIds = {0, 1, 2}
    IntPages = 524288
    PoolSize = 2
    MaxVersion = 1
    MaxLive = 2
    MaxRestarts = 0
    Ops = {"fetch", "new", "unpin", "write", "flush", "delete", "flushall"}
    NewAfterRestart = FALSE
SPECIFICATION FairSpec
INVARIANT HeldPagesCorrect
 
