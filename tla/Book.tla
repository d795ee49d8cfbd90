-------------------------------- MODULE Book --------------------------------
(***************************************************************************)
(* One session's book: trading/book.py, with the order path that drives    *)
(* it (SessionRunner._submit) and the tables it writes.                    *)
(*                                                                         *)
(* The book lives twice.  pos and cash are the Book object in memory, and  *)
(* every risk decision reads them.  fills, dbPos and dbCash are the rows   *)
(* of the fills, positions and sessions tables.  Book.apply changes the    *)
(* object first and then commits the three rows in one transaction; the    *)
(* transaction can raise (a locked or full database) and then only the     *)
(* object has changed.                                                     *)
(*                                                                         *)
(* A position carries its cost basis, cost = qty * avg_price, instead of   *)
(* the average, so that averaging in is exact.  The fills table is kept as *)
(* the per-symbol sums its readers take of it (eval/pnl.py).               *)
(***************************************************************************)
EXTENDS Levels, FiniteSets, FiniteSetsExt

CONSTANTS Symbols,         \* the universe of the session
          Capital,         \* starting cash
          Qtys,            \* quantities an order may carry
          QuoteMenu,       \* quotes the feed may deliver
          NoQuote,         \* the symbol is absent from the quote dict
          QuotesTier,      \* TRUE at FeedTier.QUOTES, FALSE at FeedTier.BARS
          AssumedSlipBp,   \* ASSUMED_SLIPPAGE_BP
          QuoteSlipBp,     \* QUOTE_SLIPPAGE_BP
          BufferBp,        \* the 1% the cash check adds to the quote
          MaxPositionPct,  \* Limits.max_position_pct
          MaxConcurrent,   \* Limits.max_concurrent
          LossLimitPct,    \* Limits.loss_limit_pct
          AllowShort,      \* Limits.allow_short
          MaxTrades,       \* bound: fills explored
          MaxFaults        \* bound: transactions of Book.apply that raise

QuoteType == [last: Nat \ {0}, bid: Nat \ {0}, ask: Nat \ {0},
              book: BOOLEAN, stale: BOOLEAN]

ASSUME BookAssumption ==
    /\ IsFiniteSet(Symbols)
    /\ Capital \in Nat
    /\ Qtys \subseteq Nat \ {0}
    /\ QuoteMenu \subseteq QuoteType
    /\ NoQuote \notin QuoteMenu
    /\ QuotesTier \in BOOLEAN
    /\ AllowShort \in BOOLEAN
    /\ AssumedSlipBp \in 0..BufferBp
    /\ QuoteSlipBp \in Nat
    /\ AssumedSlipBp <= BpScale /\ QuoteSlipBp <= BpScale
    /\ BufferBp \in Nat
    /\ MaxPositionPct \in Nat
    /\ MaxConcurrent \in Nat
    /\ LossLimitPct \in Nat
    /\ MaxTrades \in Nat
    /\ MaxFaults \in Nat

VARIABLES
    cash,      \* Book.cash
    pos,       \* Book.positions
    fills,     \* the fills table, summed per symbol
    dbPos,     \* the positions table
    dbCash,    \* sessions.cash
    quotes,    \* SessionRunner._quotes, replaced wholesale by the refresher
    killed,    \* the KILL file exists
    trades,    \* fills booked so far (bound: MaxTrades)
    faults     \* transactions that raised (bound: MaxFaults)

bookVars == <<cash, pos, fills, dbPos, dbCash, trades, faults>>
vars == <<bookVars, quotes, killed>>

PositionType == [qty: Int, cost: Int, realized: Int]
FillSums == [qty: Int, spent: Int]
Flat == [qty |-> 0, cost |-> 0, realized |-> 0]
Sides == {"buy", "sell"}
OrderType == [sym: Symbols, side: Sides, qty: Nat \ {0}]

\* A flat position carries no cost basis.
BookTypeOK ==
    /\ cash \in Int
    /\ pos \in [Symbols -> PositionType]
    /\ \A s \in Symbols : pos[s].qty = 0 => pos[s].cost = 0
    /\ fills \in [Symbols -> FillSums]
    /\ dbPos \in [Symbols -> PositionType]
    /\ dbCash \in Int
    /\ quotes \in [Symbols -> QuoteMenu \cup {NoQuote}]
    /\ killed \in BOOLEAN
    /\ trades \in 0..MaxTrades
    /\ faults \in 0..MaxFaults

-----------------------------------------------------------------------------
(* Reading the book. *)

Magnitude(n) == IF n >= 0 THEN n ELSE -n
Opposite(side) == IF side = "buy" THEN "sell" ELSE "buy"
Signed(o) == IF o.side = "buy" THEN o.qty ELSE -o.qty
IsFlat(s) == pos[s].qty = 0
OpenSymbols == {s \in Symbols : ~IsFlat(s)}

\* A position with no quote is valued at its cost.
MarkedValue(s) ==
    IF quotes[s] = NoQuote THEN pos[s].cost ELSE pos[s].qty * quotes[s].last
Equity == cash + SumFunction([s \in Symbols |-> MarkedValue(s)])

\* The open symbols whose mark nobody can stand behind.
Unpriced == {s \in OpenSymbols : quotes[s] = NoQuote \/ quotes[s].stale}

Projected(o) == pos[o.sym].qty + Signed(o)
Reducing(o) == Magnitude(Projected(o)) < Magnitude(pos[o.sym].qty)

-----------------------------------------------------------------------------
(* check(): the risk verdict.  Its order only decides which reason a       *)
(* rejection carries, so the verdict is the conjunction of its checks.     *)

LossLimitReached == (Capital - Equity) * 100 >= LossLimitPct * Capital

\* Mutants: the cap counted after the order; shorting asked of flat symbols
\* only; the halt forgotten.
MayIncreasePastCap(o, canOpen, isHalted) ==
    /\ ~isHalted /\ canOpen /\ ~LossLimitReached
    /\ Projected(o) < 0 => AllowShort
    /\ Magnitude(Projected(o)) * quotes[o.sym].last * 100 <= Equity * MaxPositionPct
    /\ IsFlat(o.sym) => Cardinality(OpenSymbols) <= MaxConcurrent

MayIncreaseAnyShort(o, canOpen, isHalted) ==
    /\ ~isHalted /\ canOpen /\ ~LossLimitReached
    /\ IsFlat(o.sym) /\ Projected(o) < 0 => AllowShort
    /\ Magnitude(Projected(o)) * quotes[o.sym].last * 100 <= Equity * MaxPositionPct
    /\ IsFlat(o.sym) => Cardinality(OpenSymbols) < MaxConcurrent

MayIncreaseHalted(o, canOpen, isHalted) ==
    /\ canOpen /\ ~LossLimitReached
    /\ Projected(o) < 0 => AllowShort
    /\ Magnitude(Projected(o)) * quotes[o.sym].last * 100 <= Equity * MaxPositionPct
    /\ IsFlat(o.sym) => Cardinality(OpenSymbols) < MaxConcurrent

MayIncrease(o, canOpen, isHalted) ==
    /\ ~isHalted
    /\ canOpen
    /\ ~LossLimitReached
    /\ Projected(o) < 0 => AllowShort
    /\ Magnitude(Projected(o)) * quotes[o.sym].last * 100 <= Equity * MaxPositionPct
    /\ IsFlat(o.sym) => Cardinality(OpenSymbols) < MaxConcurrent

\* Mutant: checked against the raw quote.
AffordableAtQuote(o) == o.side = "buy" => o.qty * quotes[o.sym].last <= cash

Affordable(o) ==
    o.side = "buy" =>
        o.qty * quotes[o.sym].last * (BpScale + BufferBp) <= cash * BpScale

Tradeable(s) == quotes[s] # NoQuote /\ ~quotes[s].stale

\* Mutant: the clock and the halt stand above the bypass for reductions.
AcceptsUnlessHalted(o, canOpen, isHalted) ==
    /\ ~killed
    /\ o.qty > 0
    /\ Tradeable(o.sym)
    /\ canOpen /\ ~isHalted
    /\ Reducing(o) \/ MayIncrease(o, canOpen, isHalted)
    /\ Affordable(o)

Accepts(o, canOpen, isHalted) ==
    /\ ~killed
    /\ o.qty > 0
    /\ Tradeable(o.sym)
    /\ Reducing(o) \/ MayIncrease(o, canOpen, isHalted)
    /\ Affordable(o)

-----------------------------------------------------------------------------
(* simulate_fill(): the price a market order gets. *)

CrossesBook(q) == QuotesTier /\ q.book

FillPrice(side, q) ==
    LET base == IF ~CrossesBook(q) THEN q.last
                ELSE IF side = "buy" THEN q.ask ELSE q.bid
        slip == IF CrossesBook(q) THEN QuoteSlipBp ELSE AssumedSlipBp
    IN  (base * (IF side = "buy" THEN BpScale + slip ELSE BpScale - slip)) \div BpScale

(* Book.apply(): the position after a signed quantity trades at price. *)

Opened(p, signed, price) ==
    [qty |-> signed, cost |-> signed * price, realized |-> p.realized]

Added(p, signed, price) ==
    [qty |-> p.qty + signed, cost |-> p.cost + signed * price, realized |-> p.realized]

\* The cost basis of the closed part; partial closes round to a tick.
Released(p, signed) ==
    IF Magnitude(signed) >= Magnitude(p.qty) THEN p.cost
    ELSE (p.cost * Magnitude(signed)) \div Magnitude(p.qty)

\* The signed quantity that is closed: at most what is held.
Closed(p, signed) ==
    IF Magnitude(signed) >= Magnitude(p.qty) THEN -p.qty ELSE signed

\* Reducing or reversing: what is left after a reversal is carried at price.
\* Mutant: P&L is realised on the whole order, not on the part that closed.
ReducedUncapped(p, signed, price) ==
    [qty |-> p.qty + signed,
     cost |-> p.cost - Released(p, signed) + (signed - Closed(p, signed)) * price,
     realized |-> p.realized - signed * price - Released(p, signed)]

Reduced(p, signed, price) ==
    [qty |-> p.qty + signed,
     cost |-> p.cost - Released(p, signed) + (signed - Closed(p, signed)) * price,
     realized |-> p.realized - Closed(p, signed) * price - Released(p, signed)]

\* Mutant: every fill averages in.
AppliedAlwaysAveraged(p, signed, price) ==
    IF p.qty = 0 THEN Opened(p, signed, price) ELSE Added(p, signed, price)

Applied(p, signed, price) ==
    IF p.qty = 0 THEN Opened(p, signed, price)
    ELSE IF (p.qty > 0 <=> signed > 0) THEN Added(p, signed, price)
    ELSE Reduced(p, signed, price)

-----------------------------------------------------------------------------
(* The three rows of one fill commit together or not at all. *)

\* Mutant: the cash row is written before the object's cash has moved.
CommitRowsStaleCash(s, signed, price) ==
    /\ fills' = [fills EXCEPT ![s] = [qty |-> @.qty + signed,
                                      spent |-> @.spent + signed * price]]
    /\ dbPos' = [dbPos EXCEPT ![s] = pos'[s]]
    /\ dbCash' = cash
    /\ faults' = faults

CommitRows(s, signed, price) ==
    /\ fills' = [fills EXCEPT ![s] = [qty |-> @.qty + signed,
                                      spent |-> @.spent + signed * price]]
    /\ dbPos' = [dbPos EXCEPT ![s] = pos'[s]]
    /\ dbCash' = cash'
    /\ faults' = faults

WriteRaises ==
    /\ faults < MaxFaults
    /\ faults' = faults + 1
    /\ UNCHANGED <<fills, dbPos, dbCash>>

BookFill(o) ==
    LET price == FillPrice(o.side, quotes[o.sym])
    IN  /\ trades < MaxTrades
        /\ trades' = trades + 1
        /\ pos' = [pos EXCEPT ![o.sym] = Applied(@, Signed(o), price)]
        /\ cash' = cash - Signed(o) * price
        /\ CommitRows(o.sym, Signed(o), price) \/ WriteRaises

\* _submit(): a rejected order leaves only its row, which no check reads.
Submit(o, canOpen, isHalted) ==
    /\ Accepts(o, canOpen, isHalted)
    /\ BookFill(o)

-----------------------------------------------------------------------------
(* What happens around the book. *)

\* refresh() in api/main.py: the whole dict is replaced by the newest ticks.
\* A symbol that has ticked once never disappears from it.
Refresh ==
    /\ quotes' \in [Symbols -> QuoteMenu \cup {NoQuote}]
    /\ \A s \in Symbols : quotes[s] # NoQuote => quotes'[s] # NoQuote

Engage  == ~killed /\ killed' = TRUE
Release == killed /\ killed' = FALSE

BookInit ==
    /\ cash = Capital
    /\ pos = [s \in Symbols |-> Flat]
    /\ fills = [s \in Symbols |-> [qty |-> 0, spent |-> 0]]
    /\ dbPos = pos
    /\ dbCash = Capital
    /\ quotes \in [Symbols -> QuoteMenu \cup {NoQuote}]
    /\ killed = FALSE
    /\ trades = 0
    /\ faults = 0

SubmitAny ==
    /\ \E s \in Symbols, side \in Sides, q \in Qtys, canOpen, isHalted \in BOOLEAN :
          Submit([sym |-> s, side |-> side, qty |-> q], canOpen, isHalted)
    /\ UNCHANGED <<quotes, killed>>

BookNext ==
    \/ SubmitAny
    \/ Refresh /\ UNCHANGED <<bookVars, killed>>
    \/ (Engage \/ Release) /\ UNCHANGED <<bookVars, quotes>>

BookSpec == BookInit /\ [][BookNext]_vars

-----------------------------------------------------------------------------
(* Safety. *)

(* The session never spends money it does not have: the 1% buffer of the   *)
(* cash check covers the slippage simulate_fill adds to the quote.         *)
CashNonNegative == cash >= 0

(* Cash flow and cost basis agree: what a symbol's fills paid in or out is *)
(* exactly its open cost less its realised P&L, through averaging in,      *)
(* partial closes and reversals.  This is what makes `realized` P&L.       *)
PnlIdentity ==
    faults = 0 => \A s \in Symbols :
        /\ fills[s].qty = pos[s].qty
        /\ fills[s].spent = pos[s].cost - pos[s].realized

(* eval/pnl.py rebuilds cash from the fills and will not score a session   *)
(* whose sessions.cash disagrees (discrepancy); with no failed write it    *)
(* never does, and the Book object agrees with both.                       *)
CashFromFills == Capital - SumFunction([s \in Symbols |-> fills[s].spent])
CashReconciles == faults = 0 => dbCash = CashFromFills /\ cash = dbCash

(* The concurrency cap holds of the book, not only of single orders: fills *)
(* that average in, reduce or reverse never take a session past it.        *)
WithinConcurrentCap == Cardinality(OpenSymbols) <= MaxConcurrent

(* With shorting off a flat symbol never goes short, and a short never     *)
(* grows: the only way below zero is a sell larger than the long it cuts.  *)
ShortsOnlyByOverselling ==
    [][AllowShort \/ \A s \in Symbols :
          pos'[s].qty < 0 =>
              \/ pos'[s] = pos[s]
              \/ Magnitude(pos'[s].qty) < Magnitude(pos[s].qty)]_pos

(* The book object is a ledger: every step of it, whether its transaction   *)
(* commits or raises, is one funded trade with room for it.                 *)
FillPrices == {FillPrice(side, q) : side \in Sides, q \in QuoteMenu}
Account == INSTANCE Ledger WITH
    holdings <- [s \in Symbols |-> pos[s].qty], money <- cash,
    Lots <- Qtys, Prices <- FillPrices, Stake <- Capital, Room <- MaxConcurrent
BookIsALedger == Account!Spec

(* README, limits table: "Shorting | off | Order rejected". *)
NoShortPosition == AllowShort \/ \A s \in Symbols : pos[s].qty >= 0
=============================================================================
