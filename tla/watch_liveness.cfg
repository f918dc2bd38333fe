SPECIFICATION FairSpec
CHECK_DEADLOCK FALSE
CONSTANTS
    UseLedger = TRUE
    Lookback = 2
    PageLimit = 1
    ChannelCapacity = 1
    Kinds = {"delivery", "other", "failed"}
    Faults = FALSE
    Drops = TRUE
    Crashes = FALSE
    MaxLog = 3
PROPERTY ScanEnds
PROPERTY NotifiedDeliveriesAreSent
PROPERTY OutageIsReported
INVARIANT ScanLeavesNoGap
PROPERTY NotifiedIsKept
PROPERTY ScanStepsRunOut
