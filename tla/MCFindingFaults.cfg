SPECIFICATION Spec
CONSTANTS
    Trace = {t1}
    Windows = {1, 2}
    DefaultWindow = 2
    Settle = 1
    Horizon = 2
    DetectAttempts = 1
    RcaAttempts = 2
    MaxDisruptions = 2
    Faults = {"crash", "duplicate", "forget", "error", "quota", "window", "late"}
INVARIANTS FindingFirst OneClock NoStuckRca
PROPERTIES DigestsClosedWindows
CHECK_DEADLOCK FALSE
