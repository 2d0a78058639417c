SPECIFICATION FairSpec
CONSTANTS
    b1 = b1
    b2 = b2
    t1 = t1
    t2 = t2
    Batch = {b1, b2}
    Trace = {t1}
    Worker = {w1}
    Touches <- OneTraceTouches
    Roots <- OneRootRoots
    NoBatch = NoBatch
    NoTrace = NoTrace
    NoWorker = NoWorker
    MaxRetries = 1
    MaxDisruptions = 1
    MaxExpiries = 1

PROPERTIES RootNameKept EveryBatchSettles
CHECK_DEADLOCK FALSE
