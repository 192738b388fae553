CONSTANTS
    Threads = {t1}
    PageIds = {0, 1, 2}
    IntPages = 524288
    PoolSize = 2
    MaxVersion = 2
    MaxLive = 3
    MaxRestarts = 1
    Ops = {"fetch", "new", "unpin", "write", "flush", "delete", "flushall"}
    NewAfterRestart = FALSE
SPECIFICATION Spec
INVARIANTS FramesPartitioned  HeldPagesCorrect NothingLost FlushedSurvives AssertsHold
