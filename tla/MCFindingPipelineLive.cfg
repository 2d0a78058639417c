SPECIFICATION FairSpec
CONSTANTS
    Trace = {t1, t2}
    Windows = {1, 2}
    DefaultWindow = 2
    Settle = 1
    Horizon = 2
    DetectAttempts = 2
    RcaAttempts = 2
    MaxDisruptions = 0
    Faults = {}
PROPERTIES FindingAlerted LifecycleHolds
CHECK_DEADLOCK FALSE
