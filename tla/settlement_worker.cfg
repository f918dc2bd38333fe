SPECIFICATION Spec
CHECK_DEADLOCK FALSE
CONSTANTS
    None = None
    p1 = p1
    p2 = p2
    w1 = w1
    w2 = w2
    h1 = h1
    Workers = {w1}
    Handlers = {}
    Host <- HostNone
    Payments = {p1}
    Docs <- DocsViolating
    Blockhashes = {1, 2}
    UseLedger = TRUE
    DeadLetterMaxAttempts = 2
    ChannelCapacity = 1
    ClockFallback = TRUE
    Crashes = TRUE
    MaxAttempts = 2
    MaxLate = 1
    FaultyDb = TRUE
INVARIANT IInv
PROPERTY NoRedundantSubmit
PROPERTY ImplementsEscrowOracle
