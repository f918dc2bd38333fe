SPECIFICATION Spec
CHECK_DEADLOCK FALSE
CONSTANTS
    None = None
    p1 = p1
    p2 = p2
    w1 = w1
    w2 = w2
    h1 = h1
    Workers = {w1}
    Handlers = {h1}
    Host <- HostOne
    Payments = {p1}
    Docs <- DocsCompliant
    Blockhashes = {1, 2}
    UseLedger = TRUE
    DeadLetterMaxAttempts = 2
    ChannelCapacity = 1
    ClockFallback = FALSE
    Crashes = TRUE
    MaxAttempts = 2
    MaxLate = 0
    FaultyDb = TRUE
INVARIANT LedgerAgreesWithChain
INVARIANT AuditTrail
INVARIANT DeadLetterOnlyAfterBudget
PROPERTY SignatureNeverLost
