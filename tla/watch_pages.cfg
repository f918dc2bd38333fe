SPECIFICATION Spec
CHECK_DEADLOCK FALSE
CONSTANTS
    UseLedger = TRUE
    Lookback = 3
    PageLimit = 2
    ChannelCapacity = 1
    Kinds = {"delivery"}
    Faults = TRUE
    Drops = FALSE
    Crashes = TRUE
    MaxLog = 4
INVARIANT TypeOK
 
PROPERTY SeenSlotNeverRegresses
 
