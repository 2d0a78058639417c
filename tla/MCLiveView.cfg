SPECIFICATION FairSpec
CONSTANTS
    Batch = {root, early, late}
    RootBatch = root
    Quiet = 2
    Ceiling = 4
    MaxDrops = 1
    LossyPublish = TRUE
INVARIANTS FinalView
PROPERTIES QuietBeforeComplete ViewCompletes
CHECK_DEADLOCK FALSE
