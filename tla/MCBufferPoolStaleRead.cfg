CONSTANTS
    Threads = {t1, t2}
    PageIds = {0, 1, 2}
    IntPages = 524288
    PoolSize = 2
    MaxVersion = 1
    MaxLive = 3
    MaxRestarts = 0
    Ops = {"fetch", "new", "unpin", "write"}
    NewAfterRestart = FALSE
SPECIFICATION Spec
INVARIANTS HeldPagesCorrect
CHECK_DEADLOCK FALSE
