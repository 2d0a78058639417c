SPECIFICATION OnceSpec
CONSTANTS
    Trace = {t1, t2}
    Windows = {2}
    DefaultWindow = 2
    Settle = 1
    Horizon = 3
    DetectAttempts = 2
    RcaAttempts = 1
    MaxDisruptions = 1
    Faults = {"crash", "late"}
    Delay = 4
    Backoff = 1
    Attempts = 3
    Lag = 1
    MaxNow = 8
    Detector = {t1, t2}
    JobAttempts = 1
    MaxCalls = 2
    MaxDeaths = 1
    User = {u1, u2, u3}
    Req = {t1, t2}
    SeatLimit = 2
    OfferedRole = {"MEMBER"}
    MaxExcess = 1
    Nobody = Nobody
    BillingRun = {t1, t2}
    Cap = 5
    MaxMails = 2
SYMMETRY TracesAndUsers
INVARIANTS
    AtMostOneDigest EvaluatedInTime
    UsageEnteredOnce SeatBound MailsOnce
PROPERTIES LastAdminOnlyByStaleRequest
CHECK_DEADLOCK FALSE
