SPECIFICATION PathSpec
CONSTANTS
    b1 = b1
    b2 = b2
    t1 = t1
    t2 = t2
    Batch = {b1, b2}
    Trace = {t1, t2}
    Worker = {w1, w2}
    Touches <- MCTouches
    Roots <- MCRoots
    NoBatch = NoBatch
    NoTrace = NoTrace
    NoWorker = NoWorker
    MaxRetries = 1
    MaxDisruptions = 1
    MaxExpiries = 1
    MaxSpans = 3
    MaxDepth = 2
    MaxTokens = 6
    CallCount = 2
    Rate <- SomeRates
    Id = {1, 2, 3, 4, 5}
    Above <- SpanAbove
    Path <- SpanPath
    StartOf <- SpanStart
    EndOf <- SpanEnd
    Opens = {3}
    Change = {w1, w2}
    MaxSubs = 2
    MaxChanges = 2
    MaxPeriods = 1
    MaxEvents = 4
SYMMETRY SomeWorkers
INVARIANTS
    SpansHaveRecord ExclusiveClaim NoSecondJob RootsAccountedFor
    RecordFollowsPriority TokensPricedOnce PanelsShowReceived
    MetersKept LatestChoiceCounts RowFollowsStripe
PROPERTIES StickyNo ReleaseOnlyOwn
CHECK_DEADLOCK FALSE
