---------------------------- MODULE TradesProofs ----------------------------
(* The tape is a history: it watches the book and does not restrain it, so *)
(* what BookProofs says of the book holds of the book the evaluation reads. *)
EXTENDS Trades, BookProofs

(* Recording the fills neither adds to nor takes from what _submit, the     *)
(* refresher and the kill switch do: with the tape hidden, every behaviour  *)
(* of Trades is one of Book.                                                *)
THEOREM TapeOnlyWatches == TradesSpec => BookSpec
  <1>1. TradesInit => BookInit
    BY DEF TradesInit
  <1>2. [TradesNext]_tradesVars => [BookNext]_vars
    <2> SUFFICES ASSUME [TradesNext]_tradesVars PROVE [BookNext]_vars
      OBVIOUS
    <2>1. CASE \E s \in Symbols, side \in Sides, q \in Qtys, canOpen, isHalted \in BOOLEAN :
                  Traded([sym |-> s, side |-> side, qty |-> q], canOpen, isHalted)
      <3>1. SubmitAny
        BY <2>1, Zenon DEF Traded, SubmitAny
      <3> QED BY <3>1 DEF BookNext
    <2>2. CASE Refresh /\ UNCHANGED <<bookVars, killed, tape>>
      BY <2>2 DEF BookNext
    <2>3. CASE (Engage \/ Release) /\ UNCHANGED <<bookVars, quotes, tape>>
      BY <2>3 DEF BookNext
    <2>4. CASE UNCHANGED tradesVars
      BY <2>4 DEF tradesVars
    <2> QED BY <2>1, <2>2, <2>3, <2>4 DEF TradesNext
  <1> QED BY <1>1, <1>2, PTL DEF TradesSpec, BookSpec

(* Every fill the evaluation finds on the tape was paid for with money the  *)
(* session had, and the sums it reads agree with the book it came from.     *)
THEOREM TapeOfASoundBook ==
    ~QuotesTier => (TradesSpec => [](CashNonNegative /\ PnlIdentity /\ WithinConcurrentCap))
  <1> SUFFICES ASSUME ~QuotesTier
               PROVE  TradesSpec => [](CashNonNegative /\ PnlIdentity /\ WithinConcurrentCap)
    OBVIOUS
  <1>1. BookSpec => []CashNonNegative
    BY Solvent
  <1> QED BY <1>1, TapeOnlyWatches, PnlIsCashFlow, CapHolds, PTL

-----------------------------------------------------------------------------
(* The tape and the sums Book keeps of the fills table.                     *)

SignedOf(s) == [f \in FillType |-> IF f.sym = s THEN f.signed ELSE 0]
PaidFor == [f \in FillType |-> f.signed * f.price]
CostOf == [f \in FillType |-> f.cost]

\* What Submit does to the object, with a row of the tape or with none.
Recorded(row) ==
    /\ OrderBooked(row.sym, row.signed, row.price)
    /\ CommitRows(row.sym, row.signed, row.price)
    /\ tape' = Append(tape, row)
    /\ UNCHANGED <<quotes, killed>>

Unrecorded(s, signed, price) ==
    /\ OrderBooked(s, signed, price)
    /\ WriteRaises
    /\ UNCHANGED <<tape, quotes, killed>>

LEMMA ColumnTypes ==
    /\ \A s \in Symbols : SignedOf(s) \in [FillType -> Int]
    /\ PaidFor \in [FillType -> Int] /\ CostOf \in [FillType -> Int]
  BY DEF SignedOf, PaidFor, CostOf, FillType

(* The sums of the evaluation are those of the columns.                     *)
LEMMA ColumnSums ==
    ASSUME tape \in Seq(FillType)
    PROVE  /\ \A s \in Symbols : OpenFromFills(s) = RowTotal(SignedOf(s), tape)
           /\ TapeCash = Capital - RowTotal(PaidFor, tape)
           /\ TapeCosts = RowTotal(CostOf, tape)
  <1>1. \A i \in DOMAIN tape : tape[i] \in FillType
    BY ElementOfSeq, LenProperties
  <1>2. ASSUME NEW s \in Symbols
        PROVE  OpenFromFills(s) = RowTotal(SignedOf(s), tape)
    <2>1. [i \in DOMAIN tape |-> IF tape[i].sym = s THEN tape[i].signed ELSE 0]
            = [i \in DOMAIN tape |-> SignedOf(s)[tape[i]]]
      BY <1>1 DEF SignedOf
    <2> QED BY <2>1 DEF OpenFromFills, TapeSum, RowTotal
  <1>3. [i \in DOMAIN tape |-> tape[i].signed * tape[i].price]
          = [i \in DOMAIN tape |-> PaidFor[tape[i]]]
    BY <1>1 DEF PaidFor
  <1>4. [i \in DOMAIN tape |-> tape[i].cost] = [i \in DOMAIN tape |-> CostOf[tape[i]]]
    BY <1>1 DEF CostOf
  <1> QED BY <1>2, <1>3, <1>4 DEF TapeCash, TapeCosts, TapeSum, RowTotal

(* A step of the session is a fill with its row, a fill without one, or     *)
(* nothing to the book and its tables.                                      *)
LEMMA TapeStep ==
    ASSUME BookTypeOK, [TradesNext]_tradesVars
    PROVE  \/ \E row \in FillType : Recorded(row)
           \/ \E s \in Symbols, signed \in Int \ {0}, price \in Nat :
                 Unrecorded(s, signed, price)
           \/ UNCHANGED <<bookVars, tape>>
  <1>1. CASE \E s \in Symbols, side \in Sides, q \in Qtys, canOpen, isHalted \in BOOLEAN :
                Traded([sym |-> s, side |-> side, qty |-> q], canOpen, isHalted)
    <2>1. PICK s \in Symbols, side \in Sides, q \in Qtys,
               canOpen \in BOOLEAN, isHalted \in BOOLEAN :
             Traded([sym |-> s, side |-> side, qty |-> q], canOpen, isHalted)
      BY <1>1
    <2> DEFINE o     == [sym |-> s, side |-> side, qty |-> q]
               price == FillPrice(side, quotes[s])
               row   == FillRow(o)
    <2>2. q \in Nat \ {0}
      BY BookAssumption
    <2>3. Submit(o, canOpen, isHalted) /\ UNCHANGED <<quotes, killed>>
      BY <2>1 DEF Traded
    <2>4. /\ quotes[s] \in QuoteMenu
          /\ price \in Nat
          /\ Signed(o) \in Int \ {0}
          /\ OrderBooked(s, Signed(o), price)
      BY <2>2, <2>3, AnOrderIsBooked
    <2>5. row = [sym |-> s, signed |-> Signed(o), price |-> price,
                 cost |-> Magnitude(price - quotes[s].last) * q]
      BY DEF FillRow
    <2>6. Magnitude(price - quotes[s].last) * q \in Nat
      <3>1. quotes[s].last \in Nat
        BY <2>4, BookAssumption DEF QuoteType
      <3>2. Magnitude(price - quotes[s].last) \in Nat
        BY <2>4, <3>1 DEF Magnitude
      <3> QED BY <2>2, <3>2
    <2>7. row \in FillType /\ row.sym = s /\ row.signed = Signed(o) /\ row.price = price
      BY <2>4, <2>5, <2>6 DEF FillType
    <2>8. tape' = IF faults' = faults THEN Append(tape, row) ELSE tape
      BY <2>1 DEF Traded
    <2>9. CommitRows(s, Signed(o), price) \/ WriteRaises
      BY <2>3 DEF Submit, BookFill
    <2> HIDE DEF o, price, row
    <2>10. CASE CommitRows(s, Signed(o), price)
      <3>1. faults' = faults
        BY <2>10 DEF CommitRows
      <3> QED BY <2>3, <2>4, <2>7, <2>8, <2>10, <3>1 DEF Recorded
    <2>11. CASE WriteRaises
      <3>1. faults' # faults
        BY <2>11 DEF WriteRaises, BookTypeOK
      <3> QED BY <2>3, <2>4, <2>8, <2>11, <3>1 DEF Unrecorded
    <2> QED BY <2>9, <2>10, <2>11
  <1>2. CASE ~\E s \in Symbols, side \in Sides, q \in Qtys, canOpen, isHalted \in BOOLEAN :
                Traded([sym |-> s, side |-> side, qty |-> q], canOpen, isHalted)
    BY <1>2 DEF TradesNext, tradesVars, vars, bookVars, Engage, Release
  <1> QED BY <1>1, <1>2

\* The tape and the fills table tell the same of each symbol and of the cash.
TapeMatches ==
    /\ tape \in Seq(FillType)
    /\ \A s \in Symbols : RowTotal(SignedOf(s), tape) = fills[s].qty
    /\ Capital - RowTotal(PaidFor, tape) = CashFromFills

LEMMA TapeMatchesInit == TradesInit => TapeMatches
  <1> SUFFICES ASSUME TradesInit PROVE TapeMatches
    OBVIOUS
  <1>1. tape = <<>>
    BY DEF TradesInit
  <1>2. /\ \A s \in Symbols : RowTotal(SignedOf(s), tape) = 0
        /\ RowTotal(PaidFor, tape) = 0
    BY <1>1, RowTotalOfNone
  <1>3. BookInit
    BY DEF TradesInit
  <1>4. CashFromFills = Capital
    <2>1. [s \in Symbols |-> fills[s].spent] = [s \in Symbols |-> 0]
      BY <1>3 DEF BookInit
    <2> QED BY <2>1, SumOfZeroes, BookAssumption DEF CashFromFills
  <1>5. \A s \in Symbols : fills[s].qty = 0
    BY <1>3 DEF BookInit
  <1> QED BY <1>1, <1>2, <1>4, <1>5, BookAssumption DEF TapeMatches

LEMMA TapeMatchesStep ==
    ASSUME BookTypeOK, TapeMatches, [TradesNext]_tradesVars
    PROVE  TapeMatches'
  <1>1. CASE \E row \in FillType : Recorded(row)
    <2>1. PICK row \in FillType : Recorded(row)
      BY <1>1
    <2>2. row.sym \in Symbols /\ row.signed \in Int \ {0} /\ row.price \in Nat
      BY DEF FillType
    <2>3. tape \in Seq(FillType) /\ tape' = Append(tape, row)
      BY <2>1 DEF TapeMatches, Recorded
    <2>4. tape' \in Seq(FillType)
      BY <2>3, AppendProperties
    <2>5. ASSUME NEW s \in Symbols
          PROVE  RowTotal(SignedOf(s), tape') = fills'[s].qty
      <3>1. /\ RowTotal(SignedOf(s), tape) \in Int
            /\ RowTotal(SignedOf(s), tape')
                 = RowTotal(SignedOf(s), tape) + SignedOf(s)[row]
        BY <2>3, ColumnTypes, RowTotalAppended
      <3>2. SignedOf(s)[row] = IF row.sym = s THEN row.signed ELSE 0
        BY DEF SignedOf
      <3>3. fills'[s].qty = IF row.sym = s THEN fills[s].qty + row.signed ELSE fills[s].qty
        BY <2>1, <2>2 DEF Recorded, CommitRows, BookTypeOK, FillSums
      <3>4. RowTotal(SignedOf(s), tape) = fills[s].qty
        BY DEF TapeMatches
      <3> QED BY <2>2, <3>1, <3>2, <3>3, <3>4
    <2>6. Capital - RowTotal(PaidFor, tape') = CashFromFills'
      <3>1. /\ RowTotal(PaidFor, tape) \in Int
            /\ RowTotal(PaidFor, tape') = RowTotal(PaidFor, tape) + PaidFor[row]
        BY <2>3, ColumnTypes, RowTotalAppended
      <3>2. PaidFor[row] = row.signed * row.price /\ PaidFor[row] \in Int
        BY <2>2 DEF PaidFor
      <3>3. CashFromFills \in Int /\ CashFromFills' = CashFromFills - row.signed * row.price
        BY <2>1, <2>2, SpentMoves DEF Recorded
      <3>4. Capital - RowTotal(PaidFor, tape) = CashFromFills /\ Capital \in Int
        BY BookAssumption DEF TapeMatches
      <3> QED BY <3>1, <3>2, <3>3, <3>4
    <2> QED BY <2>4, <2>5, <2>6 DEF TapeMatches
  <1>2. CASE \E s \in Symbols, signed \in Int \ {0}, price \in Nat :
                Unrecorded(s, signed, price)
    <2>1. UNCHANGED <<tape, fills>>
      BY <1>2 DEF Unrecorded, WriteRaises
    <2> QED BY <2>1 DEF TapeMatches, CashFromFills
  <1>3. CASE UNCHANGED <<bookVars, tape>>
    BY <1>3 DEF TapeMatches, CashFromFills, bookVars
  <1> QED BY <1>1, <1>2, <1>3, TapeStep

-----------------------------------------------------------------------------
(* The P&L of the evaluation, and the fill it never hears of.               *)

\* What the object holds and the tables do not is what was lost on the way:
\* nothing, or after one lost fill exactly that fill's quantity.
LossShows ==
    /\ faults = 0 => \A s \in Symbols : pos[s].qty = fills[s].qty /\ dbPos[s] = pos[s]
    /\ faults = 1 => \E s \in Symbols : pos[s].qty # fills[s].qty

MoneyInv == BookTypeOK /\ TapeMatches /\ LossShows /\ CashReconciles /\ PnlIdentity

LEMMA LossShowsInit == TradesInit => LossShows
  BY DEF TradesInit, BookInit, LossShows, Flat

LEMMA LossShowsStep ==
    ASSUME BookTypeOK, LossShows, [TradesNext]_tradesVars
    PROVE  LossShows'
  <1>1. CASE \E row \in FillType : Recorded(row)
    <2>1. PICK row \in FillType : Recorded(row)
      BY <1>1
    <2>2. row.sym \in Symbols /\ row.signed \in Int \ {0} /\ row.price \in Nat
      BY DEF FillType
    <2>3. /\ pos'[row.sym].qty = pos[row.sym].qty + row.signed
          /\ \A t \in Symbols \ {row.sym} : pos'[t] = pos[t]
          /\ pos' \in [Symbols -> PositionType]
      BY <2>1, <2>2, OrderMovesOne DEF Recorded
    <2>4. /\ fills'[row.sym].qty = fills[row.sym].qty + row.signed
          /\ \A t \in Symbols \ {row.sym} : fills'[t] = fills[t]
          /\ dbPos' = [dbPos EXCEPT ![row.sym] = pos'[row.sym]]
          /\ faults' = faults
      BY <2>1, <2>2 DEF Recorded, CommitRows, BookTypeOK, FillSums
    <2>5. \A t \in Symbols : pos[t].qty \in Int /\ fills[t].qty \in Int
      BY DEF BookTypeOK, PositionType, FillSums
    <2>6. faults' = 0 => \A t \in Symbols : pos'[t].qty = fills'[t].qty
      BY <2>2, <2>3, <2>4, <2>5 DEF LossShows
    <2>7. faults' = 0 => \A t \in Symbols : dbPos'[t] = pos'[t]
      BY <2>2, <2>3, <2>4 DEF LossShows, BookTypeOK
    <2>8. faults' = 1 => \E t \in Symbols : pos'[t].qty # fills'[t].qty
      <3> SUFFICES ASSUME faults' = 1 PROVE \E t \in Symbols : pos'[t].qty # fills'[t].qty
        OBVIOUS
      <3>1. PICK t \in Symbols : pos[t].qty # fills[t].qty
        BY <2>4 DEF LossShows
      <3>2. CASE t = row.sym
        BY <2>2, <2>3, <2>4, <2>5, <3>1, <3>2
      <3>3. CASE t # row.sym
        BY <2>3, <2>4, <3>1, <3>3
      <3> QED BY <3>2, <3>3
    <2> QED BY <2>6, <2>7, <2>8 DEF LossShows
  <1>2. CASE \E s \in Symbols, signed \in Int \ {0}, price \in Nat :
                Unrecorded(s, signed, price)
    <2>1. PICK s \in Symbols, signed \in Int \ {0}, price \in Nat :
             Unrecorded(s, signed, price)
      BY <1>2
    <2>2. pos'[s].qty = pos[s].qty + signed
      BY <2>1, OrderMovesOne DEF Unrecorded
    <2>3. fills' = fills /\ faults' = faults + 1 /\ faults \in Nat
      BY <2>1 DEF Unrecorded, WriteRaises, BookTypeOK
    <2>4. pos[s].qty \in Int
      BY DEF BookTypeOK, PositionType
    <2>5. faults' = 1 => pos'[s].qty # fills'[s].qty
      BY <2>2, <2>3, <2>4 DEF LossShows
    <2> QED BY <2>3, <2>5 DEF LossShows
  <1>3. CASE UNCHANGED <<bookVars, tape>>
    BY <1>3 DEF LossShows, bookVars
  <1> QED BY <1>1, <1>2, <1>3, TapeStep

LEMMA MoneyInvariant == TradesSpec => []MoneyInv
  <1>1. MoneyInv /\ [TradesNext]_tradesVars => (TapeMatches /\ LossShows)'
    BY TapeMatchesStep, LossShowsStep DEF MoneyInv
  <1>2. TradesInit => TapeMatches /\ LossShows
    BY TapeMatchesInit, LossShowsInit
  <1>3. TradesSpec => [](BookTypeOK /\ CashReconciles /\ PnlIdentity)
    BY TapeOnlyWatches, TypeCorrect, CashIsReconciled, PnlIsCashFlow, PTL
  <1>4. BookTypeOK /\ CashReconciles /\ PnlIdentity /\ TapeMatches /\ LossShows <=> MoneyInv
    BY DEF MoneyInv
  <1> QED BY <1>1, <1>2, <1>3, <1>4, PTL DEF TradesSpec

(* What is open on the tape is what the object holds, and worth the same.   *)
LEMMA HeldIsMarked ==
    ASSUME MoneyInv, faults = 0, Unmarkable = {}
    PROVE  /\ Held = SumFunction([s \in Symbols |-> MarkedValue(s)])
           /\ Held \in Int
  <1> DEFINE marked == [s \in Symbols |-> MarkedValue(s)]
             held   == [s \in OpenOnTape \ Unmarkable |-> OpenFromFills(s) * quotes[s].last]
             E      == OpenOnTape \ Unmarkable
  <1>1. IsFiniteSet(Symbols) /\ E \in SUBSET Symbols
    BY BookAssumption DEF OpenOnTape
  <1>2. \A s \in Symbols : OpenFromFills(s) = pos[s].qty
    BY ColumnSums DEF MoneyInv, TapeMatches, LossShows
  <1>3. ASSUME NEW s \in Symbols
        PROVE  /\ MarkedValue(s) \in Int
               /\ s \in E => MarkedValue(s) = OpenFromFills(s) * quotes[s].last
               /\ s \notin E => MarkedValue(s) = 0
    <2>1. /\ pos[s].qty \in Int /\ pos[s].cost \in Int
          /\ pos[s].qty = 0 => pos[s].cost = 0
          /\ quotes[s] # NoQuote => quotes[s].last \in Nat
      BY BookAssumption DEF MoneyInv, BookTypeOK, PositionType, QuoteType
    <2>2. MarkedValue(s) \in Int
      BY <2>1 DEF MarkedValue
    <2>3. s \in E => MarkedValue(s) = OpenFromFills(s) * quotes[s].last
      BY <1>2 DEF MarkedValue, OpenOnTape, Unmarkable
    <2>4. s \notin E => MarkedValue(s) = 0
      <3>1. s \notin E => pos[s].qty = 0
        BY <1>2 DEF OpenOnTape
      <3> QED BY <2>1, <3>1 DEF MarkedValue
    <2> QED BY <2>2, <2>3, <2>4
  <1>4. /\ marked \in [Symbols -> Int] /\ held \in [E -> Int]
        /\ \A s \in E : held[s] = marked[s]
        /\ \A s \in Symbols \ E : marked[s] = 0
    <2>1. \A s \in E : s \in Symbols
      BY <1>1
    <2> HIDE DEF E
    <2>2. held = [s \in E |-> OpenFromFills(s) * quotes[s].last]
      BY DEF E
    <2> HIDE DEF held
    <2> QED BY <1>3, <2>1, <2>2
  <1>5. SumFunction(held) = SumFunction(marked)
    <2> HIDE DEF E, held, marked
    <2> QED BY <1>1, <1>4, SumOfSupport
  <1>6. SumFunction(marked) \in Int
    <2> HIDE DEF E, held, marked
    <2> QED BY <1>1, <1>4, SumType
  <1> QED BY <1>5, <1>6 DEF Held

(* The P&L a session is scored on is the one it traded on.                  *)
THEOREM ScoredOnWhatItTraded == TradesSpec => []PnlIsBookPnl
  <1>1. MoneyInv => PnlIsBookPnl
    <2> SUFFICES ASSUME MoneyInv, faults = 0, Unmarkable = {}
                 PROVE  SessionPnL = Equity - Capital
      BY DEF PnlIsBookPnl
    <2>1. TapeCash = cash
      BY ColumnSums DEF MoneyInv, TapeMatches, CashReconciles
    <2> DEFINE worth == SumFunction([s \in Symbols |-> MarkedValue(s)])
    <2>2. Held = worth /\ Held \in Int
      BY HeldIsMarked
    <2>3. Equity = cash + worth
      BY DEF Equity
    <2>4. cash \in Int /\ Capital \in Int
      BY BookAssumption DEF MoneyInv, BookTypeOK
    <2> HIDE DEF worth
    <2> QED BY ONLY <2>1, <2>2, <2>3, <2>4 DEF SessionPnL
  <1> QED BY <1>1, MoneyInvariant, PTL

(* One lost fill cannot be scored: the book is not flat, or the fills say   *)
(* it is not, or the money agrees.                                          *)
THEOREM NoLostFillIsScored == TradesSpec => []OneLostFillIsCaught
  <1>1. MoneyInv => OneLostFillIsCaught
    <2> SUFFICES ASSUME MoneyInv, faults <= 1, MayBeDone, Excluded = {}
                 PROVE  TapeCash = cash
      BY DEF OneLostFillIsCaught
    <2>1. faults = 0 \/ faults = 1
      BY DEF MoneyInv, BookTypeOK
    <2>2. \A s \in Symbols : pos[s].qty = 0
      BY DEF MayBeDone, OpenSymbols, IsFlat
    <2>3. OpenOnTape = {}
      BY DEF Excluded
    <2>4. \A s \in Symbols : fills[s].qty = 0
      BY <2>3, ColumnSums DEF OpenOnTape, MoneyInv, TapeMatches
    <2>5. faults = 0
      BY <2>1, <2>2, <2>4 DEF MoneyInv, LossShows
    <2> QED BY <2>5, ColumnSums DEF MoneyInv, TapeMatches, CashReconciles
  <1> QED BY <1>1, MoneyInvariant, PTL

-----------------------------------------------------------------------------
(* The fold of episodes(), fill by fill.                                    *)

\* What the fold carries, and the record of an episode the fill has just closed.
AccType == [out: Seq(EpisodeType), current: RunType \cup {None}]
Running == [long: BOOLEAN, qty: Int, peak: Nat \ {0}, legs: Nat \ {0}, net: Int,
            costs: Nat, entryQty: Nat \ {0}, entryNotional: Nat]

NextRun(acc, f) ==
    IF acc.current = None THEN StartEpisode(f) ELSE JoinEpisode(acc.current, f)

CurrentQty(acc) == IF acc.current = None THEN 0 ELSE acc.current.qty

\* A column of the episodes, with the open one as if it had closed.
Booked(v, acc) ==
    RowTotal(v, acc.out)
      + (IF acc.current = None THEN 0 ELSE v[FinishEpisode(acc.current, TRUE)])

NetOf == [e \in EpisodeType |-> e.net]
LegsOf == [e \in EpisodeType |-> e.legs]
CostsOf == [e \in EpisodeType |-> e.costs]

LEMMA EpisodeColumns ==
    /\ NetOf \in [EpisodeType -> Int]
    /\ LegsOf \in [EpisodeType -> Int]
    /\ CostsOf \in [EpisodeType -> Int]
  BY DEF NetOf, LegsOf, CostsOf, EpisodeType

LEMMA FinishType ==
    ASSUME NEW e \in Running, NEW closed \in BOOLEAN
    PROVE  FinishEpisode(e, closed) \in EpisodeType
  BY DEF Running, FinishEpisode, EpisodeType

LEMMA NothingIsTyped == NothingFolded \in AccType
  <1>1. <<>> \in Seq(EpisodeType)
    BY EmptySeq
  <1> QED BY <1>1 DEF NothingFolded, AccType

(* A leg moves the quantity, the cash, the legs and the costs by its own.   *)
LEMMA NextRunMoves ==
    ASSUME NEW acc \in AccType, NEW f \in FillType
    PROVE  LET e == NextRun(acc, f)
           IN  /\ e \in Running
               /\ e.qty = CurrentQty(acc) + f.signed
               /\ acc.current = None =>
                     /\ e.qty # 0
                     /\ e.net = -(f.signed * f.price) /\ e.legs = 1 /\ e.costs = f.cost
               /\ acc.current # None =>
                     /\ e.net = acc.current.net - f.signed * f.price
                     /\ e.legs = acc.current.legs + 1
                     /\ e.costs = acc.current.costs + f.cost
  <1> DEFINE e == NextRun(acc, f)
             c == acc.current
  <1>1. f.signed \in Int \ {0} /\ f.price \in Nat /\ f.cost \in Nat
    BY DEF FillType
  <1>2. Magnitude(f.signed) \in Nat \ {0}
    BY <1>1 DEF Magnitude
  <1>3. Magnitude(f.signed) * f.price \in Nat /\ f.signed * f.price \in Int
    BY <1>1, <1>2
  <1>4. -f.signed * f.price = -(f.signed * f.price)
    BY <1>1
  <1>5. CASE c = None
    <2>1. e = StartEpisode(f)
      BY <1>5 DEF NextRun
    <2>2. e = [long |-> f.signed > 0, qty |-> f.signed, peak |-> Magnitude(f.signed),
               legs |-> 1, net |-> -f.signed * f.price, costs |-> f.cost,
               entryQty |-> Magnitude(f.signed),
               entryNotional |-> Magnitude(f.signed) * f.price]
      BY <2>1 DEF StartEpisode
    <2> HIDE DEF e
    <2>3. e \in Running
      BY <1>1, <1>2, <1>3, <1>4, <2>2 DEF Running
    <2> QED BY <1>1, <1>4, <1>5, <2>2, <2>3 DEF e, CurrentQty
  <1>6. CASE c # None
    <2>1. e = JoinEpisode(c, f)
      BY <1>6 DEF NextRun
    <2>2. c \in RunType
      BY <1>6 DEF AccType
    <2> HIDE DEF c, e
    <2>3. /\ c.long \in BOOLEAN /\ c.qty \in Int \ {0} /\ c.peak \in Nat \ {0}
          /\ c.legs \in Nat \ {0} /\ c.net \in Int /\ c.costs \in Nat
          /\ c.entryQty \in Nat \ {0} /\ c.entryNotional \in Nat
      BY <2>2 DEF RunType
    <2> DEFINE lot == IF (c.qty > 0) = (f.signed > 0) THEN Magnitude(f.signed) ELSE 0
               now == c.qty + f.signed
               top == IF Magnitude(now) > c.peak THEN Magnitude(now) ELSE c.peak
    <2>4. /\ lot \in Nat /\ lot * f.price \in Nat /\ now \in Int /\ top \in Nat \ {0}
      <3>1. lot \in Nat
        BY <1>2
      <3>2. now \in Int
        BY <1>1, <2>3
      <3>3. Magnitude(now) \in Nat
        BY <3>2, MagnitudeFacts
      <3>4. top \in Nat \ {0}
        BY <3>3, <2>3
      <3>5. lot * f.price \in Nat
        <4> HIDE DEF lot
        <4> QED BY <3>1, <1>1
      <3> QED BY <3>1, <3>2, <3>4, <3>5
    <2>5. e = [long |-> c.long, qty |-> now, peak |-> top, legs |-> c.legs + 1,
               net |-> c.net - f.signed * f.price, costs |-> c.costs + f.cost,
               entryQty |-> c.entryQty + lot,
               entryNotional |-> c.entryNotional + lot * f.price]
      BY <2>1, <2>2 DEF JoinEpisode, RunType
    <2> HIDE DEF lot, top
    <2>6. e \in Running
      BY <1>1, <1>3, <2>3, <2>4, <2>5 DEF Running
    <2>7. /\ e.qty = now /\ e.net = c.net - f.signed * f.price
          /\ e.legs = c.legs + 1 /\ e.costs = c.costs + f.cost
      BY <2>5
    <2>8. CurrentQty(acc) = c.qty
      BY <1>6 DEF CurrentQty, c
    <2> QED BY <1>6, <2>6, <2>7, <2>8 DEF e, c
  <1> QED BY <1>5, <1>6

LEMMA FoldFillBooks ==
    ASSUME NEW acc \in AccType, NEW f \in FillType
    PROVE  /\ FoldFill(acc, f) \in AccType
           /\ CurrentQty(FoldFill(acc, f)) = CurrentQty(acc) + f.signed
           /\ \A v \in [EpisodeType -> Int] :
                 /\ RowTotal(v, acc.out) \in Int
                 /\ Booked(v, FoldFill(acc, f))
                      = RowTotal(v, acc.out) + v[FinishEpisode(NextRun(acc, f), TRUE)]
  <1> DEFINE e   == NextRun(acc, f)
             row == FinishEpisode(e, TRUE)
             new == FoldFill(acc, f)
  <1>1. e \in Running /\ e.qty = CurrentQty(acc) + f.signed
    BY NextRunMoves
  <1>2. row \in EpisodeType
    BY <1>1, FinishType
  <1>3. acc.out \in Seq(EpisodeType)
    BY DEF AccType
  <1>4. \A v \in [EpisodeType -> Int] :
           /\ RowTotal(v, acc.out) \in Int
           /\ RowTotal(v, Append(acc.out, row)) = RowTotal(v, acc.out) + v[row]
    <2> HIDE DEF row
    <2> QED BY <1>2, <1>3, RowTotalAppended
  <1>5. CASE e.qty = 0
    <2>1. new = [out |-> Append(acc.out, row), current |-> None]
      BY <1>5 DEF FoldFill, NextRun
    <2>2. Append(acc.out, row) \in Seq(EpisodeType)
      BY <1>2, <1>3, AppendProperties
    <2> HIDE DEF e, row, new
    <2>3. new \in AccType /\ new.current = None /\ new.out = Append(acc.out, row)
      BY <2>1, <2>2 DEF AccType
    <2>4. CurrentQty(new) = 0
      BY <2>3 DEF CurrentQty
    <2>5. \A v \in [EpisodeType -> Int] : Booked(v, new) = RowTotal(v, acc.out) + v[row]
      <3> SUFFICES ASSUME NEW v \in [EpisodeType -> Int]
                   PROVE  Booked(v, new) = RowTotal(v, acc.out) + v[row]
        OBVIOUS
      <3>1. RowTotal(v, acc.out) \in Int /\ v[row] \in Int
        BY <1>2, <1>4
      <3> QED BY <1>4, <2>3, <3>1 DEF Booked
    <2> QED BY <1>1, <1>4, <1>5, <2>3, <2>4, <2>5 DEF e, row, new
  <1>6. CASE e.qty # 0
    <2>1. new = [acc EXCEPT !.current = e]
      BY <1>6 DEF FoldFill, NextRun
    <2>2. e \in RunType
      BY <1>1, <1>6 DEF Running, RunType
    <2> HIDE DEF e, row, new
    <2>3. new \in AccType /\ new.current = e /\ new.out = acc.out
      BY <2>1, <2>2 DEF AccType
    <2>4. e # None
      BY <2>2, TradesAssumption
    <2>5. CurrentQty(new) = e.qty
      BY <2>3, <2>4 DEF CurrentQty
    <2>6. \A v \in [EpisodeType -> Int] : Booked(v, new) = RowTotal(v, acc.out) + v[row]
      BY <2>3, <2>4 DEF Booked, row
    <2> QED BY <1>1, <1>4, <2>3, <2>5, <2>6 DEF e, row, new
  <1> QED BY <1>5, <1>6

(* So each fill adds one leg, its cost and its cash, closed or not.         *)
LEMMA FoldFillAdds ==
    ASSUME NEW acc \in AccType, NEW f \in FillType
    PROVE  /\ Booked(NetOf, FoldFill(acc, f)) = Booked(NetOf, acc) - f.signed * f.price
           /\ Booked(LegsOf, FoldFill(acc, f)) = Booked(LegsOf, acc) + 1
           /\ Booked(CostsOf, FoldFill(acc, f)) = Booked(CostsOf, acc) + f.cost
  <1> DEFINE e == NextRun(acc, f)
             c == acc.current
  <1>1. f.signed * f.price \in Int /\ f.cost \in Int
    BY DEF FillType
  <1>2. \A r \in Running :
           LET d == FinishEpisode(r, TRUE)
           IN  /\ NetOf[d] = r.net /\ r.net \in Int
               /\ LegsOf[d] = r.legs /\ r.legs \in Int
               /\ CostsOf[d] = r.costs /\ r.costs \in Int
    <2> SUFFICES ASSUME NEW r \in Running
                 PROVE  LET d == FinishEpisode(r, TRUE)
                        IN  /\ NetOf[d] = r.net /\ r.net \in Int
                            /\ LegsOf[d] = r.legs /\ r.legs \in Int
                            /\ CostsOf[d] = r.costs /\ r.costs \in Int
      OBVIOUS
    <2>1. FinishEpisode(r, TRUE) \in EpisodeType
      BY FinishType
    <2>2. /\ FinishEpisode(r, TRUE).net = r.net /\ FinishEpisode(r, TRUE).legs = r.legs
          /\ FinishEpisode(r, TRUE).costs = r.costs
      BY DEF FinishEpisode
    <2>3. r.net \in Int /\ r.legs \in Int /\ r.costs \in Int
      BY DEF Running
    <2> QED BY <2>1, <2>2, <2>3 DEF NetOf, LegsOf, CostsOf
  <1>3. /\ e \in Running
        /\ c = None => e.net = -(f.signed * f.price) /\ e.legs = 1 /\ e.costs = f.cost
        /\ c # None => /\ e.net = c.net - f.signed * f.price
                       /\ e.legs = c.legs + 1 /\ e.costs = c.costs + f.cost
    BY NextRunMoves
  <1>4. c # None => c \in Running
    BY DEF AccType, RunType, Running
  <1>5. \A v \in [EpisodeType -> Int] :
           /\ RowTotal(v, acc.out) \in Int
           /\ Booked(v, FoldFill(acc, f)) = RowTotal(v, acc.out) + v[FinishEpisode(e, TRUE)]
           /\ c = None => Booked(v, acc) = RowTotal(v, acc.out)
           /\ c # None => Booked(v, acc) = RowTotal(v, acc.out) + v[FinishEpisode(c, TRUE)]
    <2>1. \A v \in [EpisodeType -> Int] :
             /\ RowTotal(v, acc.out) \in Int
             /\ Booked(v, FoldFill(acc, f)) = RowTotal(v, acc.out) + v[FinishEpisode(e, TRUE)]
      BY FoldFillBooks
    <2>2. ASSUME NEW v \in [EpisodeType -> Int]
          PROVE  /\ c = None => Booked(v, acc) = RowTotal(v, acc.out)
                 /\ c # None =>
                       Booked(v, acc) = RowTotal(v, acc.out) + v[FinishEpisode(c, TRUE)]
      <3>1. RowTotal(v, acc.out) \in Int
        BY <2>1
      <3>2. Booked(v, acc) = RowTotal(v, acc.out)
                               + (IF c = None THEN 0 ELSE v[FinishEpisode(c, TRUE)])
        BY DEF Booked
      <3> DEFINE total == RowTotal(v, acc.out)
                 open  == v[FinishEpisode(c, TRUE)]
      <3> HIDE DEF c, total, open
      <3>4. c = None => Booked(v, acc) = total
        <4>1. c = None => Booked(v, acc) = total + 0
          BY <3>2 DEF total
        <4> QED BY <4>1, <3>1 DEF total
      <3>5. c # None => Booked(v, acc) = total + open
        BY <3>2 DEF total, open
      <3> QED BY <3>4, <3>5 DEF total, open
    <2> HIDE DEF e, c
    <2> QED BY <2>1, <2>2
  <1> HIDE DEF e, c
  <1> DEFINE new == FoldFill(acc, f)
             ended == FinishEpisode(e, TRUE)
             was == FinishEpisode(c, TRUE)
  <1>6. /\ NetOf[ended] = e.net /\ LegsOf[ended] = e.legs /\ CostsOf[ended] = e.costs
        /\ c # None => /\ NetOf[was] = c.net /\ c.net \in Int
                       /\ LegsOf[was] = c.legs /\ c.legs \in Int
                       /\ CostsOf[was] = c.costs /\ c.costs \in Int
    BY <1>2, <1>3, <1>4
  <1> HIDE DEF new, ended, was
  <1>7. Booked(NetOf, new) = Booked(NetOf, acc) - f.signed * f.price
    <2>1. /\ RowTotal(NetOf, acc.out) \in Int
          /\ Booked(NetOf, new) = RowTotal(NetOf, acc.out) + NetOf[ended]
          /\ c = None => Booked(NetOf, acc) = RowTotal(NetOf, acc.out)
          /\ c # None => Booked(NetOf, acc) = RowTotal(NetOf, acc.out) + NetOf[was]
      BY <1>5, EpisodeColumns DEF new, ended, was
    <2> QED BY <1>1, <1>3, <1>6, <2>1
  <1>8. Booked(LegsOf, new) = Booked(LegsOf, acc) + 1
    <2>1. /\ RowTotal(LegsOf, acc.out) \in Int
          /\ Booked(LegsOf, new) = RowTotal(LegsOf, acc.out) + LegsOf[ended]
          /\ c = None => Booked(LegsOf, acc) = RowTotal(LegsOf, acc.out)
          /\ c # None => Booked(LegsOf, acc) = RowTotal(LegsOf, acc.out) + LegsOf[was]
      BY <1>5, EpisodeColumns DEF new, ended, was
    <2> QED BY <1>3, <1>6, <2>1
  <1>9. Booked(CostsOf, new) = Booked(CostsOf, acc) + f.cost
    <2>1. /\ RowTotal(CostsOf, acc.out) \in Int
          /\ Booked(CostsOf, new) = RowTotal(CostsOf, acc.out) + CostsOf[ended]
          /\ c = None => Booked(CostsOf, acc) = RowTotal(CostsOf, acc.out)
          /\ c # None => Booked(CostsOf, acc) = RowTotal(CostsOf, acc.out) + CostsOf[was]
      BY <1>5, EpisodeColumns DEF new, ended, was
    <2> QED BY <1>1, <1>3, <1>6, <2>1
  <1> QED BY <1>7, <1>8, <1>9 DEF new

-----------------------------------------------------------------------------
(* Folded(s) over a tape, one fill longer at a time.                        *)

FoldStep(s) ==
    [af \in AccType \X FillType |-> IF af[2].sym = s THEN FoldFill(af[1], af[2]) ELSE af[1]]

\* The equation of the recursive function that Folded(s) is, of a tape t.
FoldEquation(g, s, t) ==
    g = [u \in SUBSET (DOMAIN t) |->
            IF u = {} THEN NothingFolded
            ELSE IF t[Max(u)].sym = s
                 THEN FoldFill(g[u \ {Max(u)}], t[Max(u)])
                 ELSE g[u \ {Max(u)}]]

FoldOf(s, t) == (CHOOSE g : FoldEquation(g, s, t))[DOMAIN t]

LEMMA FoldedIsFoldOf ==
    \A s \in Symbols : Folded(s) = FoldOf(s, tape)
  BY DEF Folded, FoldOf, FoldEquation, FoldLeft, MapThenFoldSet

LEMMA FoldStepType ==
    ASSUME NEW s \in Symbols
    PROVE  FoldStep(s) \in [AccType \X FillType -> AccType]
  <1>1. \A acc \in AccType, f \in FillType : FoldFill(acc, f) \in AccType
    BY FoldFillBooks
  <1> QED BY <1>1 DEF FoldStep

LEMMA FoldUnfolds ==
    ASSUME NEW s \in Symbols, NEW t \in Seq(FillType)
    PROVE  \E g : /\ SeqFold(g, NothingFolded, FoldStep(s), t, AccType)
                  /\ FoldOf(s, t) = g[DOMAIN t]
  <1> DEFINE D == DOMAIN t
             g == CHOOSE h : FoldEquation(h, s, t)
  <1>1. D = 1..Len(t) /\ Len(t) \in Nat /\ \A i \in D : t[i] \in FillType
    BY LenProperties, ElementOfSeq
  <1>2. \A u \in SUBSET D : u # {} => Max(u) \in u /\ t[Max(u)] \in FillType
    BY <1>1, LastIsMax
  <1>3. \A acc \in AccType, f \in FillType :
           FoldStep(s)[<<acc, f>>] = IF f.sym = s THEN FoldFill(acc, f) ELSE acc
    BY DEF FoldStep
  <1>4. FoldStep(s) \in [AccType \X FillType -> AccType]
    BY FoldStepType
  <1>5. PICK h : SeqFold(h, NothingFolded, FoldStep(s), t, AccType)
    BY <1>4, NothingIsTyped, SeqFoldExists
  <1>6. FoldEquation(h, s, t)
    <2>1. /\ h \in [SUBSET D -> AccType]
          /\ \A u \in SUBSET D :
                h[u] = IF u = {} THEN NothingFolded
                       ELSE FoldStep(s)[<<h[u \ {Max(u)}], t[Max(u)]>>]
      BY <1>5 DEF SeqFold
    <2>2. ASSUME NEW u \in SUBSET D, u # {}
          PROVE  h[u] = IF t[Max(u)].sym = s
                        THEN FoldFill(h[u \ {Max(u)}], t[Max(u)])
                        ELSE h[u \ {Max(u)}]
      <3>1. h[u \ {Max(u)}] \in AccType /\ t[Max(u)] \in FillType
        BY <1>2, <2>1, <2>2
      <3>2. h[u] = FoldStep(s)[<<h[u \ {Max(u)}], t[Max(u)]>>]
        BY <2>1, <2>2
      <3> QED BY <1>3, <3>1, <3>2
    <2> QED BY <2>1, <2>2 DEF FoldEquation
  <1>7. FoldEquation(g, s, t)
    BY <1>6
  <1> HIDE DEF g
  <1>8. \A u \in SUBSET D :
           /\ u = {} => g[u] = NothingFolded
           /\ u # {} => g[u] = IF t[Max(u)].sym = s
                               THEN FoldFill(g[u \ {Max(u)}], t[Max(u)])
                               ELSE g[u \ {Max(u)}]
    BY <1>7 DEF FoldEquation
  <1> DEFINE Good == {u \in SUBSET D : g[u] \in AccType}
  <1>9. ASSUME NEW u \in SUBSET D, \A v \in SUBSET u : v # u => v \in Good
        PROVE  u \in Good
    <2>1. CASE u = {}
      BY <2>1, <1>8, NothingIsTyped
    <2>2. CASE u # {}
      <3>1. u \ {Max(u)} \in Good /\ t[Max(u)] \in FillType
        BY <1>2, <1>9, <2>2
      <3>2. g[u \ {Max(u)}] \in AccType
        BY <3>1
      <3>3. FoldFill(g[u \ {Max(u)}], t[Max(u)]) \in AccType
        BY <3>1, <3>2, FoldFillBooks
      <3> QED BY <1>8, <2>2, <3>2, <3>3
    <2> QED BY <2>1, <2>2
  <1>10. \A u \in SUBSET D : g[u] \in AccType
    <2>1. IsFiniteSet(D)
      BY <1>1, FS_Interval
    <2>2. SUBSET D \subseteq Good
      <3> HIDE DEF Good, D
      <3> QED BY ONLY <1>9, <2>1, SubsetInduction
    <2> QED BY <2>2
  <1>11. SeqFold(g, NothingFolded, FoldStep(s), t, AccType)
    <2>1. g \in [SUBSET D -> AccType]
      BY <1>7, <1>10 DEF FoldEquation
    <2>2. ASSUME NEW u \in SUBSET D, u # {}
          PROVE  g[u] = FoldStep(s)[<<g[u \ {Max(u)}], t[Max(u)]>>]
      <3>1. g[u \ {Max(u)}] \in AccType /\ t[Max(u)] \in FillType
        BY <1>2, <1>10, <2>2
      <3> QED BY <1>3, <1>8, <2>2, <3>1
    <2> QED BY <1>8, <2>1, <2>2 DEF SeqFold
  <1>12. FoldOf(s, t) = g[D]
    BY DEF FoldOf, g
  <1> QED BY <1>11, <1>12

(* A new fill is folded into its own symbol's book and no other.            *)
LEMMA FoldGrows ==
    ASSUME NEW s \in Symbols, NEW t \in Seq(FillType), NEW f \in FillType,
           NEW r, r = Append(t, f)
    PROVE  /\ FoldOf(s, t) \in AccType
           /\ FoldOf(s, r) = IF f.sym = s THEN FoldFill(FoldOf(s, t), f) ELSE FoldOf(s, t)
  <1>1. r \in Seq(FillType)
    BY AppendProperties
  <1>2. PICK g : /\ SeqFold(g, NothingFolded, FoldStep(s), t, AccType)
                 /\ FoldOf(s, t) = g[DOMAIN t]
    BY FoldUnfolds
  <1>3. PICK h : /\ SeqFold(h, NothingFolded, FoldStep(s), r, AccType)
                 /\ FoldOf(s, r) = h[DOMAIN r]
    BY <1>1, FoldUnfolds
  <1>4. g[DOMAIN t] \in AccType /\ h[DOMAIN r] = FoldStep(s)[<<g[DOMAIN t], f>>]
    <2> DEFINE step == FoldStep(s)
               base == NothingFolded
    <2>1. Folding(base, step, AccType, FillType)
      BY FoldStepType, NothingIsTyped DEF Folding
    <2>2. SeqFold(g, base, step, t, AccType) /\ SeqFold(h, base, step, r, AccType)
      BY <1>2, <1>3
    <2> HIDE DEF step, base
    <2>3. g[DOMAIN t] \in AccType /\ FoldsOneMore(h, g, step, t, f)
      BY ONLY <2>1, <2>2, t \in Seq(FillType), f \in FillType, r = Append(t, f),
              SeqFoldAppends
    <2> QED BY <2>3 DEF step, FoldsOneMore
  <1> QED BY <1>2, <1>3, <1>4 DEF FoldStep

LEMMA FoldOfNothing ==
    \A s \in Symbols : FoldOf(s, <<>>) = NothingFolded
  <1> SUFFICES ASSUME NEW s \in Symbols PROVE FoldOf(s, <<>>) = NothingFolded
    OBVIOUS
  <1>1. <<>> \in Seq(FillType) /\ DOMAIN <<>> = {}
    BY EmptySeq
  <1>2. PICK g : /\ SeqFold(g, NothingFolded, FoldStep(s), <<>>, AccType)
                 /\ FoldOf(s, <<>>) = g[DOMAIN <<>>]
    BY <1>1, FoldUnfolds
  <1> QED BY <1>1, <1>2 DEF SeqFold

-----------------------------------------------------------------------------
(* The episodes and the book.                                               *)

\* What the fold carries of a symbol is what its fills add up to.
FoldOfSymbol(s) ==
    LET acc == FoldOf(s, tape)
    IN  /\ acc \in AccType
        /\ CurrentQty(acc) = fills[s].qty
        /\ Booked(NetOf, acc) = -fills[s].spent

OverSymbols(v) == SumFunction([s \in Symbols |-> Booked(v, FoldOf(s, tape))])

EpisodesMatch ==
    /\ \A s \in Symbols : FoldOfSymbol(s)
    /\ OverSymbols(LegsOf) = Len(tape)
    /\ OverSymbols(CostsOf) = RowTotal(CostOf, tape)

LEMMA BookedType ==
    ASSUME NEW acc \in AccType, NEW v \in [EpisodeType -> Int]
    PROVE  Booked(v, acc) \in Int
  <1>1. acc.out \in Seq(EpisodeType)
    BY DEF AccType
  <1>2. EpisodeType # {}
    <2>1. [long |-> TRUE, legs |-> 1, peak |-> 1, costs |-> 0, entryQty |-> 1,
           entryNotional |-> 0, net |-> 0, openAtEnd |-> TRUE] \in EpisodeType
      BY DEF EpisodeType
    <2> QED BY <2>1
  <1>3. PICK e \in EpisodeType : TRUE
    BY <1>2
  <1>4. RowTotal(v, acc.out) \in Int
    BY <1>1, <1>3, RowTotalAppended
  <1>5. acc.current # None => FinishEpisode(acc.current, TRUE) \in EpisodeType
    <2>1. acc.current # None => acc.current \in Running
      BY DEF AccType, RunType, Running
    <2> QED BY <2>1, FinishType
  <1> DEFINE total == RowTotal(v, acc.out)
             last  == FinishEpisode(acc.current, TRUE)
  <1>6. Booked(v, acc) = total + (IF acc.current = None THEN 0 ELSE v[last])
    BY DEF Booked
  <1>7. acc.current # None => last \in EpisodeType
    BY <1>5
  <1>8. total \in Int
    BY <1>4
  <1> HIDE DEF total, last
  <1>9. CASE acc.current = None
    <2>1. Booked(v, acc) = total + 0
      BY <1>6, <1>9
    <2> QED BY <2>1, <1>8
  <1>10. CASE acc.current # None
    <2>1. Booked(v, acc) = total + v[last] /\ v[last] \in Int
      BY <1>6, <1>7, <1>10
    <2> QED BY <2>1, <1>8
  <1> QED BY <1>9, <1>10

LEMMA EpisodesMatchInit == TradesInit => EpisodesMatch
  <1> SUFFICES ASSUME TradesInit PROVE EpisodesMatch
    OBVIOUS
  <1>1. tape = <<>> /\ BookInit
    BY DEF TradesInit
  <1>2. \A s \in Symbols : FoldOf(s, tape) = NothingFolded
    BY <1>1, FoldOfNothing
  <1>3. \A v : Booked(v, NothingFolded) = 0
    BY RowTotalOfNone DEF Booked, NothingFolded
  <1>4. CurrentQty(NothingFolded) = 0
    BY DEF CurrentQty, NothingFolded
  <1>5. \A s \in Symbols : fills[s].qty = 0 /\ fills[s].spent = 0
    BY <1>1 DEF BookInit
  <1>6. \A s \in Symbols : FoldOfSymbol(s)
    BY <1>2, <1>3, <1>4, <1>5, NothingIsTyped DEF FoldOfSymbol
  <1>7. \A v : OverSymbols(v) = 0
    <2> SUFFICES ASSUME NEW v PROVE OverSymbols(v) = 0
      OBVIOUS
    <2>1. [s \in Symbols |-> Booked(v, FoldOf(s, tape))] = [s \in Symbols |-> 0]
      BY <1>2, <1>3
    <2> QED BY <2>1, SumOfZeroes, BookAssumption DEF OverSymbols
  <1>8. Len(tape) = 0 /\ RowTotal(CostOf, tape) = 0
    BY <1>1, RowTotalOfNone
  <1> QED BY <1>6, <1>7, <1>8 DEF EpisodesMatch

\* A row moves a column's sum by what it adds to its own symbol's episodes.
LEMMA SymbolsMove ==
    ASSUME NEW v \in [EpisodeType -> Int], NEW row \in FillType, NEW delta \in Int,
           TapeMatches, EpisodesMatch, tape' = Append(tape, row),
           \A acc \in AccType : Booked(v, FoldFill(acc, row)) = Booked(v, acc) + delta
    PROVE  OverSymbols(v) \in Int /\ OverSymbols(v)' = OverSymbols(v) + delta
  <1> DEFINE old == [s \in Symbols |-> Booked(v, FoldOf(s, tape))]
             new == [s \in Symbols |-> Booked(v, FoldOf(s, tape'))]
             x   == row.sym
  <1>1. x \in Symbols /\ IsFiniteSet(Symbols)
    BY BookAssumption DEF FillType
  <1>2. ASSUME NEW s \in Symbols
        PROVE  /\ FoldOf(s, tape) \in AccType
               /\ FoldOf(s, tape') \in AccType
               /\ FoldOf(s, tape') = IF x = s THEN FoldFill(FoldOf(s, tape), row)
                                     ELSE FoldOf(s, tape)
    <2>1. /\ FoldOf(s, tape) \in AccType
          /\ FoldOf(s, tape') = IF x = s THEN FoldFill(FoldOf(s, tape), row)
                                ELSE FoldOf(s, tape)
      BY FoldGrows DEF TapeMatches
    <2> QED BY <2>1, FoldFillBooks
  <1>3. old \in [Symbols -> Int] /\ new \in [Symbols -> Int]
    BY <1>2, BookedType
  <1>4. new[x] = old[x] + delta /\ \A s \in Symbols \ {x} : new[s] = old[s]
    BY <1>1, <1>2
  <1>5. SumFunction(old) \in Int /\ SumFunction(new) = SumFunction(old) - old[x] + new[x]
    <2> HIDE DEF old, new, x
    <2> QED BY <1>1, <1>3, <1>4, SumMoves
  <1>6. SumFunction(new) = SumFunction(old) + delta
    <2>1. old[x] \in Int
      BY <1>1, <1>3
    <2> HIDE DEF old, new, x
    <2> QED BY <1>4, <1>5, <2>1
  <1> QED BY <1>5, <1>6 DEF OverSymbols

LEMMA EpisodesMatchStep ==
    ASSUME BookTypeOK, TapeMatches, EpisodesMatch, [TradesNext]_tradesVars
    PROVE  EpisodesMatch'
  <1>1. CASE \E row \in FillType : Recorded(row)
    <2>1. PICK row \in FillType : Recorded(row)
      BY <1>1
    <2>2. row.sym \in Symbols /\ row.signed \in Int \ {0} /\ row.price \in Nat /\ row.cost \in Nat
      BY DEF FillType
    <2>3. tape \in Seq(FillType) /\ tape' = Append(tape, row)
      BY <2>1 DEF TapeMatches, Recorded
    <2>4. ASSUME NEW s \in Symbols
          PROVE  FoldOfSymbol(s)'
      <3> DEFINE acc == FoldOf(s, tape)
                 new == FoldOf(s, tape')
      <3>1. new = IF row.sym = s THEN FoldFill(acc, row) ELSE acc
        BY <2>3, FoldGrows
      <3>2. /\ acc \in AccType
            /\ CurrentQty(acc) = fills[s].qty
            /\ Booked(NetOf, acc) = -fills[s].spent
        BY DEF EpisodesMatch, FoldOfSymbol
      <3>3. /\ fills[s].qty \in Int /\ fills[s].spent \in Int
            /\ row.sym = s => /\ fills'[s].qty = fills[s].qty + row.signed
                              /\ fills'[s].spent = fills[s].spent + row.signed * row.price
            /\ row.sym # s => fills'[s] = fills[s]
        BY <2>1, <2>2 DEF Recorded, CommitRows, BookTypeOK, FillSums
      <3> HIDE DEF acc
      <3>4. CASE row.sym = s
        <4>1. /\ FoldFill(acc, row) \in AccType
              /\ CurrentQty(FoldFill(acc, row)) = CurrentQty(acc) + row.signed
              /\ Booked(NetOf, FoldFill(acc, row)) = Booked(NetOf, acc) - row.signed * row.price
          BY <3>2, FoldFillBooks, FoldFillAdds
        <4>2. new = FoldFill(acc, row)
          BY <3>1, <3>4
        <4> HIDE DEF new
        <4>3. new \in AccType /\ CurrentQty(new) = fills'[s].qty
          BY <3>2, <3>3, <3>4, <4>1, <4>2
        <4>4. row.signed * row.price \in Int
          BY <2>2
        <4>5. Booked(NetOf, new) = -fills'[s].spent
          BY <3>2, <3>3, <3>4, <4>1, <4>2, <4>4
        <4> QED BY <4>3, <4>5 DEF FoldOfSymbol, new
      <3>5. CASE row.sym # s
        BY <3>1, <3>2, <3>3, <3>5 DEF FoldOfSymbol
      <3> QED BY <3>4, <3>5
    <2>5. OverSymbols(LegsOf)' = Len(tape')
      <3>1. OverSymbols(LegsOf) \in Int /\ OverSymbols(LegsOf)' = OverSymbols(LegsOf) + 1
        <4> DEFINE one == 1
        <4>1. \A acc \in AccType :
                 Booked(LegsOf, FoldFill(acc, row)) = Booked(LegsOf, acc) + one
          BY FoldFillAdds
        <4>2. one \in Int
          OBVIOUS
        <4> HIDE DEF one
        <4>3. OverSymbols(LegsOf) \in Int /\ OverSymbols(LegsOf)' = OverSymbols(LegsOf) + one
          BY <2>3, <4>1, <4>2, EpisodeColumns, SymbolsMove
        <4> QED BY <4>3 DEF one
      <3>2. Len(tape') = Len(tape) + 1
        BY <2>3, AppendProperties
      <3> QED BY <3>1, <3>2 DEF EpisodesMatch
    <2>6. OverSymbols(CostsOf)' = RowTotal(CostOf, tape')
      <3>1. /\ OverSymbols(CostsOf) \in Int
            /\ OverSymbols(CostsOf)' = OverSymbols(CostsOf) + row.cost
        <4>1. \A acc \in AccType :
                 Booked(CostsOf, FoldFill(acc, row)) = Booked(CostsOf, acc) + row.cost
          BY FoldFillAdds
        <4>2. row.cost \in Int
          BY <2>2
        <4> QED BY <2>3, <4>1, <4>2, EpisodeColumns, SymbolsMove
      <3>2. RowTotal(CostOf, tape') = RowTotal(CostOf, tape) + CostOf[row]
        BY <2>3, ColumnTypes, RowTotalAppended
      <3>3. CostOf[row] = row.cost
        BY DEF CostOf
      <3> QED BY <3>1, <3>2, <3>3 DEF EpisodesMatch
    <2> QED BY <2>4, <2>5, <2>6 DEF EpisodesMatch
  <1>2. CASE \E s \in Symbols, signed \in Int \ {0}, price \in Nat :
                Unrecorded(s, signed, price)
    <2>1. UNCHANGED <<tape, fills>>
      BY <1>2 DEF Unrecorded, WriteRaises
    <2> QED BY <2>1 DEF EpisodesMatch, FoldOfSymbol, OverSymbols
  <1>3. CASE UNCHANGED <<bookVars, tape>>
    BY <1>3 DEF EpisodesMatch, FoldOfSymbol, OverSymbols, bookVars
  <1> QED BY <1>1, <1>2, <1>3, TapeStep

LEMMA EpisodesMatchAlways == TradesSpec => [](MoneyInv /\ EpisodesMatch)
  <1>1. MoneyInv /\ EpisodesMatch /\ [TradesNext]_tradesVars => EpisodesMatch'
    BY EpisodesMatchStep DEF MoneyInv
  <1> QED BY <1>1, EpisodesMatchInit, MoneyInvariant, PTL DEF TradesSpec

\* The episodes of a symbol, with the one still open at the end.
LEMMA EpisodesOfFold ==
    ASSUME NEW s \in Symbols, FoldOf(s, tape) \in AccType
    PROVE  LET acc == FoldOf(s, tape)
           IN  /\ Episodes(s) \in Seq(EpisodeType)
               /\ acc.current = None => Episodes(s) = acc.out
               /\ acc.current # None =>
                     /\ acc.current \in Running
                     /\ Episodes(s) = Append(acc.out, FinishEpisode(acc.current, FALSE))
  <1> DEFINE acc == FoldOf(s, tape)
  <1>1. Folded(s) = acc
    BY FoldedIsFoldOf
  <1>2. /\ acc.out \in Seq(EpisodeType)
        /\ acc.current # None => acc.current \in Running
    BY DEF AccType, RunType, Running
  <1>3. /\ acc.current = None => Episodes(s) = acc.out
        /\ acc.current # None =>
              Episodes(s) = Append(acc.out, FinishEpisode(acc.current, FALSE))
    BY <1>1 DEF Episodes
  <1> HIDE DEF acc
  <1>4. acc.current # None => FinishEpisode(acc.current, FALSE) \in EpisodeType
    BY <1>2, FinishType
  <1>5. Episodes(s) \in Seq(EpisodeType)
    BY <1>2, <1>3, <1>4, AppendProperties
  <1> QED BY <1>2, <1>3, <1>5 DEF acc

\* An open episode counts its legs and costs; only its cash is not reported.
LEMMA TotalsOfFold ==
    ASSUME NEW s \in Symbols, FoldOf(s, tape) \in AccType
    PROVE  LET acc == FoldOf(s, tape)
           IN  /\ RowTotal(LegsOf, Episodes(s)) = Booked(LegsOf, acc)
               /\ RowTotal(CostsOf, Episodes(s)) = Booked(CostsOf, acc)
               /\ acc.current = None => RowTotal(NetOf, Episodes(s)) = Booked(NetOf, acc)
  <1> DEFINE acc   == FoldOf(s, tape)
             last  == FinishEpisode(acc.current, FALSE)
             whole == FinishEpisode(acc.current, TRUE)
  <1>1. /\ acc.out \in Seq(EpisodeType) /\ Episodes(s) \in Seq(EpisodeType)
        /\ acc.current = None => Episodes(s) = acc.out
        /\ acc.current # None => acc.current \in Running /\ Episodes(s) = Append(acc.out, last)
    BY EpisodesOfFold DEF AccType
  <1>2. acc.current # None =>
           /\ last \in EpisodeType /\ whole \in EpisodeType
           /\ last.legs = whole.legs /\ last.costs = whole.costs
    <2>1. acc.current # None => last \in EpisodeType /\ whole \in EpisodeType
      BY <1>1, FinishType
    <2> QED BY <2>1 DEF FinishEpisode
  <1>3. acc \in AccType
    OBVIOUS
  <1>4. ASSUME NEW v \in [EpisodeType -> Int],
               acc.current # None => v[last] = v[whole]
        PROVE  RowTotal(v, Episodes(s)) = Booked(v, acc)
    <2>1. CASE acc.current = None
      <3>1. Booked(v, acc) \in Int
        BY <1>3, <1>4, BookedType
      <3>2. RowTotal(v, Episodes(s)) \in Int
        <4>1. [long |-> TRUE, legs |-> 1, peak |-> 1, costs |-> 0, entryQty |-> 1,
               entryNotional |-> 0, net |-> 0, openAtEnd |-> TRUE] \in EpisodeType
          BY DEF EpisodeType
        <4>2. PICK e \in EpisodeType : TRUE
          BY <4>1
        <4> HIDE DEF acc
        <4> QED BY <1>1, <1>4, <4>2, RowTotalAppended
      <3>3. Booked(v, acc) = RowTotal(v, acc.out) + 0
        BY <2>1 DEF Booked
      <3> HIDE DEF acc
      <3> QED BY <1>1, <2>1, <3>1, <3>2, <3>3
    <2>2. CASE acc.current # None
      <3>1. Booked(v, acc) = RowTotal(v, acc.out) + v[whole]
        BY <2>2 DEF Booked
      <3> HIDE DEF acc, last, whole
      <3>2. RowTotal(v, Episodes(s)) = RowTotal(v, acc.out) + v[last]
        BY <1>1, <1>2, <1>4, <2>2, RowTotalAppended
      <3> QED BY <1>4, <2>2, <3>1, <3>2
    <2> QED BY <2>1, <2>2
  <1>5. RowTotal(LegsOf, Episodes(s)) = Booked(LegsOf, acc)
    <2>1. acc.current # None => LegsOf[last] = LegsOf[whole]
      BY <1>2 DEF LegsOf
    <2> HIDE DEF acc, last, whole
    <2> QED BY <1>4, <2>1, EpisodeColumns
  <1>6. RowTotal(CostsOf, Episodes(s)) = Booked(CostsOf, acc)
    <2>1. acc.current # None => CostsOf[last] = CostsOf[whole]
      BY <1>2 DEF CostsOf
    <2> HIDE DEF acc, last, whole
    <2> QED BY <1>4, <2>1, EpisodeColumns
  <1>7. acc.current = None => RowTotal(NetOf, Episodes(s)) = Booked(NetOf, acc)
    <2> HIDE DEF acc, last, whole
    <2> QED BY <1>4, EpisodeColumns
  <1> QED BY <1>5, <1>6, <1>7

(* The totals the properties are stated with are those of the columns.      *)
LEMMA EpisodeTotals ==
    ASSUME NEW s \in Symbols, FoldOf(s, tape) \in AccType
    PROVE  /\ EpisodeTotal(s, LAMBDA e : e.net) = RowTotal(NetOf, Episodes(s))
           /\ EpisodeTotal(s, LAMBDA e : e.legs) = RowTotal(LegsOf, Episodes(s))
           /\ EpisodeTotal(s, LAMBDA e : e.costs) = RowTotal(CostsOf, Episodes(s))
  <1> DEFINE rows == Episodes(s)
  <1>1. rows \in Seq(EpisodeType)
    BY EpisodesOfFold
  <1> HIDE DEF rows
  <1>2. \A i \in DOMAIN rows : rows[i] \in EpisodeType
    BY <1>1, ElementOfSeq, LenProperties
  <1>3. /\ [i \in DOMAIN rows |-> rows[i].net] = [i \in DOMAIN rows |-> NetOf[rows[i]]]
        /\ [i \in DOMAIN rows |-> rows[i].legs] = [i \in DOMAIN rows |-> LegsOf[rows[i]]]
        /\ [i \in DOMAIN rows |-> rows[i].costs] = [i \in DOMAIN rows |-> CostsOf[rows[i]]]
    BY <1>2 DEF NetOf, LegsOf, CostsOf
  <1> QED BY <1>3 DEF EpisodeTotal, RowTotal, rows

(* The tape is typed, and tells of each symbol and of the cash what Book's  *)
(* own sums of the fills table tell.                                        *)
THEOREM TapeIsTyped == TradesSpec => []TradesTypeOK
  <1>1. MoneyInv /\ EpisodesMatch => TradesTypeOK
    <2> SUFFICES ASSUME MoneyInv, EpisodesMatch PROVE TradesTypeOK
      OBVIOUS
    <2>1. tape \in Seq(FillType)
      BY DEF MoneyInv, TapeMatches
    <2>2. \A s \in Symbols : Episodes(s) \in Seq(EpisodeType)
      BY EpisodesOfFold DEF EpisodesMatch, FoldOfSymbol
    <2>3. /\ \A s \in Symbols : OpenFromFills(s) = fills[s].qty
          /\ TapeCash = CashFromFills
      BY <2>1, ColumnSums DEF MoneyInv, TapeMatches
    <2> QED BY <2>1, <2>2, <2>3 DEF TradesTypeOK
  <1> QED BY <1>1, EpisodesMatchAlways, PTL

(* The fold matches Book.apply: a flat symbol's episodes made what the book *)
(* realised, and every fill is a leg of one episode.                        *)
THEOREM EpisodesTellTheMoney == TradesSpec => []EpisodesAccountForTape
  <1>1. MoneyInv /\ EpisodesMatch => EpisodesAccountForTape
    <2> SUFFICES ASSUME MoneyInv, EpisodesMatch PROVE EpisodesAccountForTape
      OBVIOUS
    <2>1. \A s \in Symbols :
             /\ FoldOf(s, tape) \in AccType
             /\ CurrentQty(FoldOf(s, tape)) = fills[s].qty
             /\ Booked(NetOf, FoldOf(s, tape)) = -fills[s].spent
      BY DEF EpisodesMatch, FoldOfSymbol
    <2>2. \A s \in Symbols :
             /\ EpisodeTotal(s, LAMBDA e : e.legs) = Booked(LegsOf, FoldOf(s, tape))
             /\ EpisodeTotal(s, LAMBDA e : e.costs) = Booked(CostsOf, FoldOf(s, tape))
      BY <2>1, EpisodeTotals, TotalsOfFold
    <2>3. ASSUME faults = 0, NEW s \in Symbols, IsFlat(s)
          PROVE  EpisodeTotal(s, LAMBDA e : e.net) = dbPos[s].realized
      <3> DEFINE acc == FoldOf(s, tape)
      <3>1. acc \in AccType /\ CurrentQty(acc) = fills[s].qty
            /\ Booked(NetOf, acc) = -fills[s].spent
        BY <2>1
      <3>2. pos[s].qty = 0 /\ pos[s].cost = 0 /\ fills[s].qty = 0 /\ dbPos[s] = pos[s]
        BY <2>3 DEF IsFlat, MoneyInv, LossShows, BookTypeOK
      <3>3. acc.current = None
        <4>1. acc.current # None => acc.current \in RunType
          BY <3>1 DEF AccType
        <4> HIDE DEF acc
        <4> QED BY <3>1, <3>2, <4>1 DEF CurrentQty, RunType
      <3>4. EpisodeTotal(s, LAMBDA e : e.net) = Booked(NetOf, acc)
        BY <3>1, <3>3, EpisodeTotals, TotalsOfFold
      <3>5. fills[s].spent = pos[s].cost - pos[s].realized /\ pos[s].realized \in Int
        BY <2>3 DEF MoneyInv, PnlIdentity, BookTypeOK, PositionType
      <3> QED BY <3>1, <3>2, <3>4, <3>5
    <2>4. SumFunction([s \in Symbols |-> EpisodeTotal(s, LAMBDA e : e.legs)]) = Len(tape)
      <3>1. [s \in Symbols |-> EpisodeTotal(s, LAMBDA e : e.legs)]
              = [s \in Symbols |-> Booked(LegsOf, FoldOf(s, tape))]
        BY <2>2
      <3> QED BY <3>1 DEF EpisodesMatch, OverSymbols
    <2>5. SumFunction([s \in Symbols |-> EpisodeTotal(s, LAMBDA e : e.costs)]) = TapeCosts
      <3>1. [s \in Symbols |-> EpisodeTotal(s, LAMBDA e : e.costs)]
              = [s \in Symbols |-> Booked(CostsOf, FoldOf(s, tape))]
        BY <2>2
      <3>2. TapeCosts = RowTotal(CostOf, tape)
        BY ColumnSums DEF MoneyInv, TapeMatches
      <3> QED BY <3>1, <3>2 DEF EpisodesMatch, OverSymbols
    <2> QED BY <2>3, <2>4, <2>5 DEF EpisodesAccountForTape
  <1> QED BY <1>1, EpisodesMatchAlways, PTL
=============================================================================
