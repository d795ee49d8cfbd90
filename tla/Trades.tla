------------------------------- MODULE Trades -------------------------------
(***************************************************************************)
(* What the evaluation reads out of one session's fills: eval/trades.py    *)
(* (episodes), eval/pnl.py (session_pnl) and the exclusions of             *)
(* eval/cohort.py (meta), over the book of module Book.                    *)
(*                                                                         *)
(* The evaluation never sees the Book object.  It has the fills table,     *)
(* here the sequence tape of the committed fills in the order of their     *)
(* ids, and the positions and sessions rows; a fill whose transaction      *)
(* raised is on no table although the object has traded it.  Everything    *)
(* below the actions is a query: it changes nothing.                       *)
(***************************************************************************)
EXTENDS Book, SequencesExt

VARIABLE tape    \* the fills table, in id order

tradesVars == <<vars, tape>>

FillType == [sym: Symbols, signed: Int \ {0}, price: Nat, cost: Nat]

FillRow(o) ==
    LET q     == quotes[o.sym]
        price == FillPrice(o.side, q)
    IN  [sym |-> o.sym, signed |-> Signed(o), price |-> price,
         cost |-> Magnitude(price - q.last) * o.qty]

\* Mutant: the row survives the transaction that raised.
TradedRegardless(o, canOpen, isHalted) ==
    /\ Submit(o, canOpen, isHalted)
    /\ tape' = Append(tape, FillRow(o))
    /\ UNCHANGED <<quotes, killed>>

\* The row commits with the position and the cash, or none of the three does.
Traded(o, canOpen, isHalted) ==
    /\ Submit(o, canOpen, isHalted)
    /\ tape' = IF faults' = faults THEN Append(tape, FillRow(o)) ELSE tape
    /\ UNCHANGED <<quotes, killed>>

TradesInit == BookInit /\ tape = <<>>

TradesNext ==
    \/ \E s \in Symbols, side \in Sides, q \in Qtys, canOpen, isHalted \in BOOLEAN :
          Traded([sym |-> s, side |-> side, qty |-> q], canOpen, isHalted)
    \/ Refresh /\ UNCHANGED <<bookVars, killed, tape>>
    \/ (Engage \/ Release) /\ UNCHANGED <<bookVars, quotes, tape>>

TradesSpec == TradesInit /\ [][TradesNext]_tradesVars

-----------------------------------------------------------------------------
(* episodes(): one symbol's fills folded into flat-to-flat positions.      *)

EpisodeType ==
    [long: BOOLEAN, legs: Nat \ {0}, peak: Nat \ {0}, costs: Nat,
     entryQty: Nat \ {0}, entryNotional: Nat, net: Int, openAtEnd: BOOLEAN]

\* An episode not yet flat: the dict the fold carries from fill to fill.
RunType ==
    [long: BOOLEAN, qty: Int \ {0}, peak: Nat \ {0}, legs: Nat \ {0}, net: Int,
     costs: Nat, entryQty: Nat \ {0}, entryNotional: Nat]

ASSUME TradesAssumption == None \notin RunType

StartEpisode(f) ==
    [long |-> f.signed > 0, qty |-> f.signed, peak |-> Magnitude(f.signed),
     legs |-> 1, net |-> -f.signed * f.price, costs |-> f.cost,
     entryQty |-> Magnitude(f.signed), entryNotional |-> Magnitude(f.signed) * f.price]

\* A fill in the direction of the running quantity is an opening leg.
JoinEpisode(e, f) ==
    LET opening == (e.qty > 0) = (f.signed > 0)
        lot     == IF opening THEN Magnitude(f.signed) ELSE 0
        now     == e.qty + f.signed
    IN  [e EXCEPT !.qty = now,
                  !.peak = IF Magnitude(now) > @ THEN Magnitude(now) ELSE @,
                  !.legs = @ + 1,
                  !.net = @ - f.signed * f.price,
                  !.costs = @ + f.cost,
                  !.entryQty = @ + lot,
                  !.entryNotional = @ + lot * f.price]

\* The cash flow of an open episode is not P&L and is reported as zero.
FinishEpisode(e, closed) ==
    [long |-> e.long, legs |-> e.legs, peak |-> e.peak, costs |-> e.costs,
     entryQty |-> e.entryQty, entryNotional |-> e.entryNotional,
     net |-> IF closed THEN e.net ELSE 0, openAtEnd |-> ~closed]

NothingFolded == [out |-> <<>>, current |-> None]

\* Mutant: the fill that closes an episode is also left open for the next.
FoldFillKeepsCurrent(acc, f) ==
    LET e == IF acc.current = None THEN StartEpisode(f) ELSE JoinEpisode(acc.current, f)
    IN  IF e.qty = 0
        THEN [out |-> Append(acc.out, FinishEpisode(e, TRUE)), current |-> e]
        ELSE [acc EXCEPT !.current = e]

\* A fresh episode is never flat: only a later leg can close it.
FoldFill(acc, f) ==
    LET e == IF acc.current = None THEN StartEpisode(f) ELSE JoinEpisode(acc.current, f)
    IN  IF e.qty = 0
        THEN [out |-> Append(acc.out, FinishEpisode(e, TRUE)), current |-> None]
        ELSE [acc EXCEPT !.current = e]

\* Symbols are independent books.
Folded(s) ==
    FoldLeft(LAMBDA acc, f : IF f.sym = s THEN FoldFill(acc, f) ELSE acc,
             NothingFolded, tape)

\* Mutant: what is still open when the fills run out is dropped.
ClosedEpisodesOnly(s) == Folded(s).out

Episodes(s) ==
    LET end == Folded(s)
    IN  IF end.current = None THEN end.out
        ELSE Append(end.out, FinishEpisode(end.current, FALSE))

EpisodeTotal(s, Field(_)) ==
    LET rows == Episodes(s) IN SumFunction([i \in DOMAIN rows |-> Field(rows[i])])

-----------------------------------------------------------------------------
(* session_pnl(): rebuilt from the fills, never from the caches.           *)

TapeSum(Field(_)) == SumFunction([i \in DOMAIN tape |-> Field(tape[i])])

OpenFromFills(s) == TapeSum(LAMBDA f : IF f.sym = s THEN f.signed ELSE 0)
OpenOnTape == {s \in Symbols : OpenFromFills(s) # 0}

\* Mutant: the slippage, already inside the prices, is charged again.
TapeCashLessCosts == Capital - TapeSum(LAMBDA f : f.signed * f.price + f.cost)

TapeCash == Capital - TapeSum(LAMBDA f : f.signed * f.price)

TapeCosts == TapeSum(LAMBDA f : f.cost)

\* mark_at() at the instant of the newest ticks: the live view of a session.
Unmarkable == {s \in OpenOnTape : quotes[s] = NoQuote}
Held == SumFunction([s \in OpenOnTape \ Unmarkable |->
                        OpenFromFills(s) * quotes[s].last])
SessionPnL == TapeCash + Held - Capital
Discrepancy == TapeCash - dbCash

(* meta(): the reasons not to score a session whose row says 'done'.  Those *)
(* about its arm, tiers and blinding say nothing of the money.              *)

\* Mutant: only the cash is held against the fills.
ExcludedByCash ==
    {r \in {"no_fills", "cash_mismatch"} :
        \/ r = "no_fills" /\ tape = <<>>
        \/ r = "cash_mismatch" /\ Discrepancy # 0}

Excluded ==
    {r \in {"no_fills", "unmarkable", "cash_mismatch", "done_but_holding"} :
        \/ r = "no_fills" /\ tape = <<>>
        \/ r = "unmarkable" /\ Unmarkable # {}
        \/ r = "cash_mismatch" /\ Discrepancy # 0
        \/ r = "done_but_holding" /\ OpenOnTape # {}}

\* _finish() writes 'done' only over a flat Book object.
MayBeDone == OpenSymbols = {}

-----------------------------------------------------------------------------
(* Safety. *)

(* The tape is a sequence of fills and folds into well-formed episodes; it  *)
(* and the per-symbol sums that Book keeps of the table move together, also *)
(* when a transaction raises.                                               *)
TradesTypeOK ==
    /\ tape \in Seq(FillType)
    /\ \A s \in Symbols : Episodes(s) \in Seq(EpisodeType)
    /\ \A s \in Symbols : OpenFromFills(s) = fills[s].qty
    /\ TapeCash = CashFromFills

(* trades.py: the fold "has to match Book.apply exactly".  When a symbol   *)
(* is flat, what its episodes made is what Book.apply booked as realised,  *)
(* through averaging in, partial closes and reversals; and every fill is a *)
(* leg of exactly one episode, so that legs and costs add up to those of   *)
(* the session, whatever stayed open.                                      *)
EpisodesAccountForTape ==
    /\ faults = 0 => \A s \in Symbols :
           IsFlat(s) => EpisodeTotal(s, LAMBDA e : e.net) = dbPos[s].realized
    /\ SumFunction([s \in Symbols |-> EpisodeTotal(s, LAMBDA e : e.legs)]) = Len(tape)
    /\ SumFunction([s \in Symbols |-> EpisodeTotal(s, LAMBDA e : e.costs)]) = TapeCosts

(* The one P&L of eval/pnl.py, rebuilt from the fills, is the one the       *)
(* session trades on, Book.equity() against the capital, at the same marks. *)
PnlIsBookPnl ==
    faults = 0 /\ Unmarkable = {} => SessionPnL = Equity - Capital

(* A fill whose transaction raised is on no table, and no table says so.   *)
(* If a session lost at most one, and its book ended flat, then it is      *)
(* either excluded or scored on exactly the money its book ended with.     *)
OneLostFillIsCaught ==
    faults <= 1 /\ MayBeDone /\ Excluded = {} => TapeCash = cash
=============================================================================
