SPECIFICATION FairSpec
CHECK_DEADLOCK FALSE
CONSTANTS
    None = None
    p1 = p1
    p2 = p2
    w1 = w1
    w2 = w2
    h1 = h1
    Workers = {w1}
    Handlers = {h1}
    Host <- HostOne
    Payments = {p1, p2}
    Docs <- DocsMixed
    Blockhashes = {1}
    UseLedger = FALSE
    DeadLetterMaxAttempts = 2
    ChannelCapacity = 2
    ClockFallback = FALSE
    Crashes = FALSE
    MaxAttempts = 2
    MaxLate = 0
    FaultyDb = FALSE
INVARIANT TypeOK
 
PROPERTY WorkerReturns
