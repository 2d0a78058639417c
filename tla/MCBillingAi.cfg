SPECIFICATION BillingSpec
CONSTANTS
    Run = {r1}
    Capped = {"events"}
    MaxUse = 2
    MaxPeriod = 2
    MaxChanges = 2
    Faults = {"reject"}
INVARIANT AiNeverOverbilled
CHECK_DEADLOCK FALSE
