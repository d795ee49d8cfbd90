SPECIFICATION EnforcementFairSpec
CONSTANTS
    BpScale = 100
    CostBp = 2
    None = None
    Symbols = {A}
    Capital = 1000
    Qtys = {1, 3}
    QuoteMenu <- MCQuotes
    NoQuote = NoQuote
    QuotesTier = FALSE
    AssumedSlipBp = 1
    QuoteSlipBp = 1
    BufferBp = 2
    MaxPositionPct = 50
    MaxConcurrent = 1
    LossLimitPct = 3
    AllowShort = FALSE
    MaxTrades = 3
    MaxFaults = 1
    OpenLevels <- MCOpenLevels
    AmendLevels <- MCAmendLevels
    NoPlan = NoPlan
    StopOpening = 1
    MaxTime = 1
    MaxEntries = 1
    MaxDecisions = 2
INVARIANTS FastTypeOK WatchedUnlessWriteFailed EntryFilledOnce FiresPairTheirCloses
PROPERTIES StopIsHonoured EnforcementOnlyFlattens PlanOutlivesPosition TrailedStopNeverRetreats HaltedOnlyReduces
CHECK_DEADLOCK FALSE
