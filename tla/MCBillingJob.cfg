SPECIFICATION BillingFairSpec
CONSTANTS
    Run = {r1}
    Capped = {"events"}
    MaxUse = 2
    MaxPeriod = 2
    MaxChanges = 1
    Faults = {"reject", "unread", "timeout", "crash", "unwritten"}
INVARIANTS NeverOverbilled LedgerInSync
PROPERTIES FlagsFollowPlan BilledInFull
CHECK_DEADLOCK FALSE
