SPECIFICATION BookSpec
CONSTANTS
    BpScale = 100
    CostBp = 2
    None = None
    Symbols = {A, B}
    Capital = 300
    Qtys = {1, 2, 3}
    QuoteMenu <- MCQuotes
    NoQuote = NoQuote
    QuotesTier = FALSE
    AssumedSlipBp = 1
    QuoteSlipBp = 1
    BufferBp = 2
    MaxPositionPct = 100
    MaxConcurrent = 1
    LossLimitPct = 12
    AllowShort = FALSE
    MaxTrades = 3
    MaxFaults = 0
SYMMETRY Symmetric
INVARIANT NoShortPosition
CHECK_DEADLOCK FALSE
