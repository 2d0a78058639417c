SPECIFICATION Spec
CONSTANTS
    b1 = b1
    b2 = b2
    t1 = t1
    t2 = t2
    Batch = {b1, b2}
    Trace = {t1}
    Worker = {w1, w2}
    Touches <- OneTraceTouches
    Roots <- OneRootRoots
    NoBatch = NoBatch
    NoTrace = NoTrace
    NoWorker = NoWorker
    MaxRetries = 1
    MaxDisruptions = 1
    MaxExpiries = 0
INVARIANTS RootTriggersDetection

CHECK_DEADLOCK FALSE
