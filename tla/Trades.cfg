SPECIFICATION TradesSpec
CONSTANTS
    BpScale = 100
    CostBp = 2
    None = None
    Symbols = {A, B}
    Capital = 300
    Qtys = {1, 2, 3}
    QuoteMenu <- MCTwoPrices
    NoQuote = NoQuote
    QuotesTier = FALSE
    AssumedSlipBp = 1
    QuoteSlipBp = 1
    BufferBp = 2
    MaxPositionPct = 100
    MaxConcurrent = 1
    LossLimitPct = 6
    AllowShort = FALSE
    MaxTrades = 4
    MaxFaults = 1
SYMMETRY Symmetric
INVARIANTS
    BookTypeOK CashNonNegative PnlIdentity CashReconciles WithinConcurrentCap
    TradesTypeOK EpisodesAccountForTape PnlIsBookPnl OneLostFillIsCaught
PROPERTIES ShortsOnlyByOverselling BookIsALedger
CHECK_DEADLOCK FALSE
