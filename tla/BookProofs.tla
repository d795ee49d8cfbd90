----------------------------- MODULE BookProofs -----------------------------
(***************************************************************************)
(* What holds of Book for every universe, capital, fill menu and limit.    *)
(*                                                                         *)
(* Every step that is not a quote refresh or a touch of the KILL file      *)
(* books one accepted fill, so each invariant is shown to survive BookFill *)
(* and the rest is a stutter of the book's variables.                      *)
(***************************************************************************)
EXTENDS Book, DataInduction, TLAPS

(* The two facts about rounding down that the model's prices rest on.      *)
LEMMA RoundingDown ==
    ASSUME NEW a \in Nat, NEW b \in Nat \ {0}
    PROVE  /\ a \div b \in Nat
           /\ b * (a \div b) <= a
  OBVIOUS

LEMMA RoundingInt ==
    ASSUME NEW a \in Int, NEW b \in Nat \ {0}
    PROVE  a \div b \in Int
  OBVIOUS

LEMMA MagnitudeFacts ==
    ASSUME NEW n \in Int
    PROVE  /\ Magnitude(n) \in Nat
           /\ Magnitude(n) = 0 <=> n = 0
           /\ Magnitude(n) = n \/ Magnitude(n) = -n
  BY DEF Magnitude

(* A fill price is a whole number of ticks.                                *)
LEMMA FillPriceType ==
    ASSUME NEW side \in Sides, NEW q \in QuoteMenu
    PROVE  FillPrice(side, q) \in Nat
  <1>1. q.last \in Nat \ {0} /\ q.bid \in Nat \ {0} /\ q.ask \in Nat \ {0}
    BY BookAssumption DEF QuoteType
  <1> DEFINE base == IF ~CrossesBook(q) THEN q.last
                     ELSE IF side = "buy" THEN q.ask ELSE q.bid
             slip == IF CrossesBook(q) THEN QuoteSlipBp ELSE AssumedSlipBp
             rate == IF side = "buy" THEN BpScale + slip ELSE BpScale - slip
  <1>2. base \in Nat
    BY <1>1
  <1>3. slip \in Nat /\ slip <= BpScale
    BY BookAssumption, LevelsAssumption
  <1>4. rate \in Nat /\ BpScale \in Nat \ {0}
    BY <1>3, LevelsAssumption
  <1>5. base * rate \in Nat
    <2> HIDE DEF base, rate
    <2> QED BY <1>2, <1>4
  <1>6. (base * rate) \div BpScale \in Nat
    <2> HIDE DEF base, rate
    <2> QED BY <1>4, <1>5, RoundingDown
  <1> QED BY <1>6 DEF FillPrice

(* Applied keeps positions well-formed, and a flat one carries no cost.    *)
LEMMA AppliedType ==
    ASSUME NEW p \in PositionType, NEW signed \in Int \ {0}, NEW price \in Nat,
           p.qty = 0 => p.cost = 0
    PROVE  /\ Applied(p, signed, price) \in PositionType
           /\ Applied(p, signed, price).qty = p.qty + signed
           /\ Applied(p, signed, price).qty = 0 => Applied(p, signed, price).cost = 0
           /\ signed * price = (Applied(p, signed, price).cost - p.cost)
                                - (Applied(p, signed, price).realized - p.realized)
  <1>1. p.qty \in Int /\ p.cost \in Int /\ p.realized \in Int
    BY DEF PositionType
  <1>2. signed * price \in Int
    OBVIOUS
  <1>3. CASE p.qty = 0
    <2>1. Applied(p, signed, price) = Opened(p, signed, price)
      BY <1>3 DEF Applied
    <2> QED BY <2>1, <1>1, <1>2, <1>3 DEF Opened, PositionType
  <1>4. CASE p.qty # 0 /\ (p.qty > 0 <=> signed > 0)
    <2>1. Applied(p, signed, price) = Added(p, signed, price)
      BY <1>4 DEF Applied
    <2>2. p.qty + signed # 0
      BY <1>1, <1>4
    <2> QED BY <2>1, <2>2, <1>1, <1>2 DEF Added, PositionType
  <1>5. CASE p.qty # 0 /\ ~(p.qty > 0 <=> signed > 0)
    <2>1. Applied(p, signed, price) = Reduced(p, signed, price)
      BY <1>5 DEF Applied
    <2> DEFINE r == Released(p, signed)
               c == Closed(p, signed)
    <2>2. c \in Int
      BY <1>1 DEF Closed
    <2>3. r \in Int
      <3>1. Magnitude(p.qty) \in Nat \ {0} /\ Magnitude(signed) \in Nat
        BY <1>1, <1>5, MagnitudeFacts
      <3>2. p.cost * Magnitude(signed) \in Int
        BY <1>1, <3>1
      <3>3. (p.cost * Magnitude(signed)) \div Magnitude(p.qty) \in Int
        BY <3>1, <3>2, RoundingInt
      <3> QED BY <1>1, <3>3 DEF Released
    <2>4. /\ c * price \in Int /\ (signed - c) * price \in Int
          /\ (signed - c) * price = signed * price - c * price
      <3> HIDE DEF c
      <3> QED BY <2>2
    <2>5. p.qty + signed = 0 => r = p.cost /\ c = signed
      BY <1>1, <1>5 DEF Released, Closed, Magnitude
    <2>6. Reduced(p, signed, price) =
             [qty |-> p.qty + signed, cost |-> p.cost - r + (signed - c) * price,
              realized |-> p.realized - c * price - r]
      BY DEF Reduced
    <2>7. p.qty + signed = 0 => (signed - c) * price = 0
      <3> HIDE DEF c
      <3> QED BY <2>2, <2>5
    <2> HIDE DEF r, c
    <2> DEFINE x == c * price
               y == (signed - c) * price
               z == signed * price
    <2>8. x \in Int /\ y \in Int /\ z \in Int /\ y = z - x
      BY <2>4, <1>2
    <2>9. p.qty + signed = 0 => y = 0
      BY <2>7
    <2>10. Applied(p, signed, price) =
             [qty |-> p.qty + signed, cost |-> p.cost - r + y,
              realized |-> p.realized - x - r]
      BY <2>1, <2>6
    <2> HIDE DEF x, y
    <2>11. z = (p.cost - r + y - p.cost) - (p.realized - x - r - p.realized)
      BY <1>1, <2>3, <2>8
    <2> HIDE DEF z
    <2>12. /\ Applied(p, signed, price) \in PositionType
           /\ Applied(p, signed, price).qty = p.qty + signed
           /\ Applied(p, signed, price).qty = 0 => Applied(p, signed, price).cost = 0
           /\ z = (Applied(p, signed, price).cost - p.cost)
                   - (Applied(p, signed, price).realized - p.realized)
      BY <2>3, <2>5, <2>8, <2>9, <2>10, <2>11, <1>1 DEF PositionType
    <2> QED BY <2>12 DEF z
  <1> QED BY <1>3, <1>4, <1>5

-----------------------------------------------------------------------------
(* What one accepted order does, in the terms the invariants are stated in. *)

(* The lemmas are about a book that whoever drives it may ask to trade any *)
(* quantity: SubmitAny is the case of Qtys, and the fast loop closes with  *)
(* the size of the position.                                               *)
Deal ==
    /\ \E s \in Symbols, side \in Sides, q \in Nat \ {0}, canOpen, isHalted \in BOOLEAN :
          Submit([sym |-> s, side |-> side, qty |-> q], canOpen, isHalted)
    /\ UNCHANGED <<quotes, killed>>

BookStep ==
    \/ Deal
    \/ Refresh /\ UNCHANGED <<bookVars, killed>>
    \/ (Engage \/ Release) /\ UNCHANGED <<bookVars, quotes>>

LEMMA NextIsStep == [BookNext]_vars => [BookStep]_vars
  <1>1. SubmitAny => Deal
    BY BookAssumption DEF SubmitAny, Deal
  <1> QED BY <1>1 DEF BookNext, BookStep

OrderBooked(s, signed, price) ==
    /\ pos' = [pos EXCEPT ![s] = Applied(@, signed, price)]
    /\ cash' = cash - signed * price
    /\ trades' = trades + 1 /\ trades' \in 0..MaxTrades
    /\ CommitRows(s, signed, price) \/ WriteRaises
    /\ UNCHANGED <<quotes, killed>>

LEMMA AnOrderIsBooked ==
    ASSUME BookTypeOK,
           NEW s \in Symbols, NEW side \in Sides, NEW q \in Nat \ {0},
           NEW canOpen \in BOOLEAN, NEW isHalted \in BOOLEAN,
           Submit([sym |-> s, side |-> side, qty |-> q], canOpen, isHalted),
           UNCHANGED <<quotes, killed>>
    PROVE  LET o == [sym |-> s, side |-> side, qty |-> q]
           IN  /\ Accepts(o, canOpen, isHalted)
               /\ quotes[s] \in QuoteMenu
               /\ FillPrice(side, quotes[s]) \in Nat
               /\ Signed(o) \in Int \ {0}
               /\ OrderBooked(s, Signed(o), FillPrice(side, quotes[s]))
  <1> DEFINE o == [sym |-> s, side |-> side, qty |-> q]
  <1>1. o.sym = s /\ o.side = side /\ o.qty = q
    OBVIOUS
  <1>2. Accepts(o, canOpen, isHalted) /\ BookFill(o)
    BY DEF Submit
  <1>3. quotes[s] \in QuoteMenu
    BY <1>1, <1>2 DEF Accepts, Tradeable, BookTypeOK
  <1>4. FillPrice(side, quotes[s]) \in Nat
    BY <1>3, FillPriceType
  <1>5. Signed(o) \in Int \ {0}
    BY <1>1, BookAssumption DEF Signed
  <1>6. OrderBooked(s, Signed(o), FillPrice(side, quotes[s]))
    BY <1>1, <1>2, BookAssumption DEF BookFill, OrderBooked, BookTypeOK
  <1> QED BY <1>2, <1>3, <1>4, <1>5, <1>6

-----------------------------------------------------------------------------
(* Type correctness. *)

LEMMA TypeInit == BookInit => BookTypeOK
  <1> SUFFICES ASSUME BookInit PROVE BookTypeOK
    OBVIOUS
  <1>1. pos = [s \in Symbols |-> Flat] /\ dbPos = pos /\ Flat \in PositionType
    BY DEF BookInit, Flat, PositionType
  <1>2. /\ pos \in [Symbols -> PositionType] /\ dbPos \in [Symbols -> PositionType]
        /\ \A s \in Symbols : pos[s].qty = 0 => pos[s].cost = 0
    BY <1>1 DEF Flat
  <1>3. fills \in [Symbols -> FillSums]
    BY DEF BookInit, FillSums
  <1>4. killed \in BOOLEAN
    BY DEF BookInit
  <1>5. cash \in Int /\ dbCash \in Int /\ trades \in 0..MaxTrades /\ faults \in 0..MaxFaults
    BY BookAssumption DEF BookInit
  <1> QED BY <1>2, <1>3, <1>4, <1>5 DEF BookInit, BookTypeOK

LEMMA TypeStep == BookTypeOK /\ [BookStep]_vars => BookTypeOK'
  <1> SUFFICES ASSUME BookTypeOK, [BookStep]_vars PROVE BookTypeOK'
    OBVIOUS
  <1>1. CASE Deal
    <2>1. PICK s \in Symbols, side \in Sides, q \in Nat \ {0},
               canOpen \in BOOLEAN, isHalted \in BOOLEAN :
             Submit([sym |-> s, side |-> side, qty |-> q], canOpen, isHalted)
      BY <1>1 DEF Deal
    <2> DEFINE signed == Signed([sym |-> s, side |-> side, qty |-> q])
               price == FillPrice(side, quotes[s])
    <2>2. /\ price \in Nat /\ signed \in Int \ {0}
          /\ OrderBooked(s, signed, price)
      BY <1>1, <2>1, AnOrderIsBooked DEF Deal
    <2> HIDE DEF signed, price
    <2>3. /\ pos[s] \in PositionType
          /\ pos[s].qty = 0 => pos[s].cost = 0
      BY DEF BookTypeOK
    <2>4. /\ Applied(pos[s], signed, price) \in PositionType
          /\ Applied(pos[s], signed, price).qty = 0
               => Applied(pos[s], signed, price).cost = 0
      BY <2>2, <2>3, AppliedType
    <2>5. /\ pos' \in [Symbols -> PositionType]
          /\ \A t \in Symbols : pos'[t].qty = 0 => pos'[t].cost = 0
      BY <2>2, <2>4 DEF BookTypeOK, OrderBooked
    <2>6. signed * price \in Int
      BY <2>2
    <2>7. cash' \in Int
      BY <2>2, <2>6 DEF BookTypeOK, OrderBooked
    <2>8. CASE CommitRows(s, signed, price)
      <3>1. dbPos' \in [Symbols -> PositionType] /\ dbCash' \in Int
        BY <2>5, <2>7, <2>8 DEF CommitRows, BookTypeOK
      <3>2. fills' \in [Symbols -> FillSums]
        BY <2>2, <2>6, <2>8 DEF CommitRows, BookTypeOK, FillSums
      <3> QED BY <2>2, <2>5, <2>7, <2>8, <3>1, <3>2
              DEF CommitRows, BookTypeOK, OrderBooked
    <2>9. CASE WriteRaises
      BY <2>2, <2>5, <2>7, <2>9, BookAssumption DEF WriteRaises, BookTypeOK, OrderBooked
    <2> QED BY <2>2, <2>8, <2>9 DEF OrderBooked
  <1>2. CASE Refresh /\ UNCHANGED <<bookVars, killed>>
    BY <1>2 DEF Refresh, BookTypeOK, bookVars
  <1>3. CASE (Engage \/ Release) /\ UNCHANGED <<bookVars, quotes>>
    BY <1>3 DEF Engage, Release, BookTypeOK, bookVars
  <1>4. CASE UNCHANGED vars
    BY <1>4 DEF BookTypeOK, vars, bookVars
  <1> QED BY <1>1, <1>2, <1>3, <1>4 DEF BookStep

(* The book stays well-typed, and no flat symbol ever carries a cost.      *)
THEOREM TypeCorrect == BookSpec => []BookTypeOK
  <1> QED BY TypeInit, TypeStep, NextIsStep, PTL DEF BookSpec

-----------------------------------------------------------------------------
(* The cash check's buffer covers the slippage of the fill.                *)

LEMMA BufferCoversSlippage ==
    ASSUME NEW q \in Nat, NEW last \in Nat, NEW money \in Int,
           q * last * (BpScale + BufferBp) <= money * BpScale
    PROVE  q * ((last * (BpScale + AssumedSlipBp)) \div BpScale) <= money
  <1> DEFINE raised == last * (BpScale + AssumedSlipBp)
             price == raised \div BpScale
  <1>1. /\ BpScale \in Nat \ {0} /\ AssumedSlipBp \in Nat /\ BufferBp \in Nat
        /\ AssumedSlipBp <= BufferBp
    BY LevelsAssumption, BookAssumption
  <1>2. raised \in Nat
    BY <1>1
  <1>3. price \in Nat /\ BpScale * price <= raised
    <2> HIDE DEF raised
    <2> QED BY <1>1, <1>2, RoundingDown
  <1>4. raised <= last * (BpScale + BufferBp)
    BY <1>1
  <1>5. BpScale * price <= last * (BpScale + BufferBp)
    <2> HIDE DEF price, raised
    <2> DEFINE wide == last * (BpScale + BufferBp)
    <2>1. wide \in Nat
      BY <1>1
    <2> HIDE DEF wide
    <2>2. BpScale * price <= raised /\ raised <= wide /\ BpScale * price \in Int
      BY <1>1, <1>3, <1>4 DEF wide
    <2>3. BpScale * price <= wide
      BY <1>2, <2>1, <2>2
    <2> QED BY <2>3 DEF wide
  <1>6. q * (BpScale * price) <= q * (last * (BpScale + BufferBp))
    <2> HIDE DEF price
    <2> DEFINE a == BpScale * price
               b == last * (BpScale + BufferBp)
    <2>1. a \in Nat /\ b \in Nat /\ a <= b
      BY <1>1, <1>3, <1>5
    <2> HIDE DEF a, b
    <2>2. q * a <= q * b
      BY <2>1
    <2> QED BY <2>2 DEF a, b
  <1>7. (q * price) * BpScale <= money * BpScale
    <2> HIDE DEF price
    <2>1. q * (BpScale * price) = (q * price) * BpScale
      BY <1>1, <1>3
    <2>2. q * (last * (BpScale + BufferBp)) = q * last * (BpScale + BufferBp)
      BY <1>1
    <2>3. q * (last * (BpScale + BufferBp)) <= money * BpScale
      BY <2>2
    <2>4. q * (BpScale * price) \in Int /\ q * (last * (BpScale + BufferBp)) \in Int
          /\ money * BpScale \in Int
      BY <1>1, <1>3
    <2> QED BY <1>6, <2>1, <2>3, <2>4
  <1>8. q * price <= money
    <2> HIDE DEF price
    <2> DEFINE spent == q * price
    <2>1. spent \in Nat
      BY <1>3
    <2>2. spent * BpScale <= money * BpScale
      BY <1>7
    <2> HIDE DEF spent
    <2>3. spent <= money
      BY <1>1, <2>1, <2>2
    <2> QED BY <2>3 DEF spent
  <1> QED BY <1>8 DEF price, raised

(* Without a quote book to cross, what an accepted order pays is in hand.  *)
LEMMA AcceptedIsFunded ==
    ASSUME BookTypeOK, ~QuotesTier,
           NEW s \in Symbols, NEW q \in Nat \ {0},
           NEW canOpen \in BOOLEAN, NEW isHalted \in BOOLEAN,
           Accepts([sym |-> s, side |-> "buy", qty |-> q], canOpen, isHalted)
    PROVE  q * FillPrice("buy", quotes[s]) <= cash
  <1> DEFINE o == [sym |-> s, side |-> "buy", qty |-> q]
  <1>1. o.sym = s /\ o.side = "buy" /\ o.qty = q
    OBVIOUS
  <1>2. q * quotes[s].last * (BpScale + BufferBp) <= cash * BpScale
    BY <1>1 DEF Accepts, Affordable
  <1>3. quotes[s] \in QuoteMenu
    BY <1>1 DEF Accepts, Tradeable, BookTypeOK
  <1>4. quotes[s].last \in Nat /\ q \in Nat /\ cash \in Int
    BY <1>3, BookAssumption DEF QuoteType, BookTypeOK
  <1>5. FillPrice("buy", quotes[s])
          = (quotes[s].last * (BpScale + AssumedSlipBp)) \div BpScale
    BY DEF FillPrice, CrossesBook
  <1> HIDE DEF o
  <1> QED BY <1>2, <1>4, <1>5, BufferCoversSlippage

LEMMA SolventStep ==
    ASSUME ~QuotesTier, BookTypeOK, CashNonNegative, [BookStep]_vars
    PROVE  CashNonNegative'
  <1>1. CASE Deal
    <2>1. PICK s \in Symbols, side \in Sides, q \in Nat \ {0},
               canOpen \in BOOLEAN, isHalted \in BOOLEAN :
             Submit([sym |-> s, side |-> side, qty |-> q], canOpen, isHalted)
      BY <1>1 DEF Deal
    <2> DEFINE o == [sym |-> s, side |-> side, qty |-> q]
               price == FillPrice(side, quotes[s])
    <2>2. /\ Accepts(o, canOpen, isHalted)
          /\ price \in Nat
          /\ OrderBooked(s, Signed(o), price)
      BY <1>1, <2>1, AnOrderIsBooked DEF Deal
    <2>3. cash' = cash - Signed(o) * price
      BY <2>2 DEF OrderBooked
    <2>4. q \in Nat /\ cash \in Int
      BY BookAssumption DEF BookTypeOK
    <2>5. CASE side = "buy"
      <3>1. Signed(o) = q
        BY <2>5 DEF Signed
      <3>2. q * price <= cash
        BY <2>2, <2>5, AcceptedIsFunded
      <3>3. q * price \in Int
        <4> HIDE DEF price
        <4> QED BY <2>2, <2>4
      <3> HIDE DEF o, price
      <3> DEFINE paid == q * price
      <3>4. cash' = cash - paid /\ paid <= cash /\ paid \in Int
        BY <2>3, <3>1, <3>2, <3>3
      <3> HIDE DEF paid
      <3> QED BY <2>4, <3>4 DEF CashNonNegative
    <2>6. CASE side = "sell"
      <3>1. Signed(o) = -q
        BY <2>6 DEF Signed
      <3> HIDE DEF o, price
      <3> DEFINE paid == q * price
      <3>2. paid \in Nat /\ (-q) * price = -paid
        BY <2>2, <2>4
      <3>3. cash' = cash + paid
        <4> HIDE DEF paid
        <4> QED BY <2>3, <2>4, <3>1, <3>2
      <3> HIDE DEF paid
      <3> QED BY <2>4, <3>2, <3>3 DEF CashNonNegative
    <2> QED BY <2>5, <2>6 DEF Sides
  <1>2. CASE UNCHANGED cash
    BY <1>2 DEF CashNonNegative
  <1> QED BY <1>1, <1>2 DEF BookStep, vars, bookVars

(* Without a quote book to cross, the session never spends money it does   *)
(* not have, whatever its limits, quotes and faults.                       *)
THEOREM Solvent == ~QuotesTier => (BookSpec => []CashNonNegative)
  <1> SUFFICES ASSUME ~QuotesTier PROVE BookSpec => []CashNonNegative
    OBVIOUS
  <1>1. BookInit => CashNonNegative
    BY BookAssumption DEF BookInit, CashNonNegative
  <1>2. BookTypeOK /\ CashNonNegative /\ [BookStep]_vars => CashNonNegative'
    BY SolventStep
  <1> QED BY <1>1, <1>2, TypeCorrect, NextIsStep, PTL DEF BookSpec

-----------------------------------------------------------------------------
(* Cash flow, cost basis and realised P&L.                                 *)

LEMMA PnlStep ==
    ASSUME BookTypeOK, PnlIdentity, [BookStep]_vars
    PROVE  PnlIdentity'
  <1>1. CASE Deal
    <2>1. PICK s \in Symbols, side \in Sides, q \in Nat \ {0},
               canOpen \in BOOLEAN, isHalted \in BOOLEAN :
             Submit([sym |-> s, side |-> side, qty |-> q], canOpen, isHalted)
      BY <1>1 DEF Deal
    <2> DEFINE signed == Signed([sym |-> s, side |-> side, qty |-> q])
               price == FillPrice(side, quotes[s])
               new == Applied(pos[s], signed, price)
    <2>2. /\ price \in Nat /\ signed \in Int \ {0}
          /\ OrderBooked(s, signed, price)
      BY <1>1, <2>1, AnOrderIsBooked DEF Deal
    <2> HIDE DEF signed, price
    <2> SUFFICES ASSUME faults' = 0, NEW t \in Symbols
                 PROVE  /\ fills'[t].qty = pos'[t].qty
                        /\ fills'[t].spent = pos'[t].cost - pos'[t].realized
      BY DEF PnlIdentity
    <2>3. CommitRows(s, signed, price) /\ faults = 0
      BY <2>2 DEF OrderBooked, WriteRaises, CommitRows, BookTypeOK
    <2>4. /\ fills[t].qty = pos[t].qty
          /\ fills[t].spent = pos[t].cost - pos[t].realized
      BY <2>3 DEF PnlIdentity
    <2>5. CASE t # s
      BY <2>2, <2>3, <2>4, <2>5 DEF OrderBooked, CommitRows, BookTypeOK
    <2>6. CASE t = s
      <3>1. pos[s] \in PositionType /\ (pos[s].qty = 0 => pos[s].cost = 0)
        BY DEF BookTypeOK
      <3>2. /\ new \in PositionType
            /\ new.qty = pos[s].qty + signed
            /\ signed * price = (new.cost - pos[s].cost) - (new.realized - pos[s].realized)
        BY <2>2, <3>1, AppliedType
      <3>3. pos'[s] = new
        BY <2>2 DEF OrderBooked, BookTypeOK
      <3>4. /\ fills'[s].qty = fills[s].qty + signed
            /\ fills'[s].spent = fills[s].spent + signed * price
        BY <2>3 DEF CommitRows, BookTypeOK, FillSums
      <3> DEFINE paid == signed * price
      <3>5. paid = (new.cost - pos[s].cost) - (new.realized - pos[s].realized)
        BY <3>2
      <3>6. fills'[s].spent = fills[s].spent + paid
        BY <3>4
      <3> HIDE DEF new, paid
      <3>7. /\ pos[s].cost \in Int /\ pos[s].realized \in Int
            /\ new.cost \in Int /\ new.realized \in Int
        BY <3>1, <3>2 DEF PositionType
      <3>8. fills'[s].spent = new.cost - new.realized
        BY <2>4, <2>6, <3>5, <3>6, <3>7
      <3> QED BY <2>4, <2>6, <3>2, <3>3, <3>4, <3>8
    <2> QED BY <2>5, <2>6
  <1>2. CASE UNCHANGED <<pos, fills, faults>>
    BY <1>2 DEF PnlIdentity
  <1> QED BY <1>1, <1>2 DEF BookStep, vars, bookVars

LEMMA PnlInit == BookInit => PnlIdentity
  BY DEF BookInit, PnlIdentity, Flat

(* Until a write fails, what every symbol's fills paid is its open cost    *)
(* less its realised P&L: the book's P&L is its cash flow.                 *)
THEOREM PnlIsCashFlow == BookSpec => []PnlIdentity
  <1>1. BookTypeOK /\ PnlIdentity /\ [BookStep]_vars => PnlIdentity'
    BY PnlStep
  <1> QED BY <1>1, PnlInit, TypeCorrect, NextIsStep, PTL DEF BookSpec

-----------------------------------------------------------------------------
(* The cash is the capital less what the fills table says was spent: the   *)
(* sum over the symbols moves with the one whose fill commits.             *)

Spent == [s \in Symbols |-> fills[s].spent]

LEMMA SpentMoves ==
    ASSUME BookTypeOK, NEW s \in Symbols, NEW signed \in Int, NEW price \in Nat,
           CommitRows(s, signed, price)
    PROVE  /\ CashFromFills \in Int
           /\ CashFromFills' = CashFromFills - signed * price
  <1> DEFINE paid == signed * price
  <1>1. paid \in Int
    OBVIOUS
  <1>2. fills' = [fills EXCEPT ![s] = [qty |-> @.qty + signed, spent |-> @.spent + paid]]
    BY DEF CommitRows
  <1> HIDE DEF paid
  <1>3. /\ Spent \in [Symbols -> Int] /\ Spent' \in [Symbols -> Int]
        /\ Spent'[s] = Spent[s] + paid
        /\ \A t \in Symbols \ {s} : Spent'[t] = Spent[t]
    BY <1>1, <1>2 DEF Spent, BookTypeOK, FillSums
  <1>4. SumFunction(Spent) \in Int /\ SumFunction(Spent') = SumFunction(Spent) + paid
    <2>1. /\ SumFunction(Spent) \in Int
          /\ SumFunction(Spent') = SumFunction(Spent) - Spent[s] + Spent'[s]
      BY ONLY <1>3, BookAssumption, s \in Symbols, SumMoves
    <2> QED BY <1>1, <1>3, <2>1
  <1>5. /\ CashFromFills = Capital - SumFunction(Spent)
        /\ CashFromFills' = Capital - SumFunction(Spent')
    BY DEF CashFromFills, Spent
  <1> QED BY <1>1, <1>4, <1>5, BookAssumption DEF paid

LEMMA CashInit == BookInit => CashReconciles
  <1> SUFFICES ASSUME BookInit PROVE CashReconciles
    OBVIOUS
  <1>1. [s \in Symbols |-> fills[s].spent] = [s \in Symbols |-> 0]
    BY DEF BookInit
  <1>2. SumFunction([s \in Symbols |-> 0]) = 0
    BY SumOfZeroes, BookAssumption
  <1>3. CashFromFills = Capital
    BY <1>1, <1>2, BookAssumption DEF CashFromFills
  <1> QED BY <1>3 DEF CashReconciles, BookInit

LEMMA CashStep ==
    ASSUME BookTypeOK, CashReconciles, [BookStep]_vars
    PROVE  CashReconciles'
  <1>1. CASE Deal
    <2>1. PICK s \in Symbols, side \in Sides, q \in Nat \ {0},
               canOpen \in BOOLEAN, isHalted \in BOOLEAN :
             Submit([sym |-> s, side |-> side, qty |-> q], canOpen, isHalted)
      BY <1>1 DEF Deal
    <2> DEFINE signed == Signed([sym |-> s, side |-> side, qty |-> q])
               price == FillPrice(side, quotes[s])
    <2>2. price \in Nat /\ signed \in Int \ {0} /\ OrderBooked(s, signed, price)
      BY <1>1, <2>1, AnOrderIsBooked DEF Deal
    <2> HIDE DEF signed, price
    <2>3. CASE CommitRows(s, signed, price)
      <3>1. CashFromFills' = CashFromFills - signed * price
        BY <2>2, <2>3, SpentMoves
      <3>2. cash' = cash - signed * price /\ dbCash' = cash' /\ faults' = faults
        BY <2>2, <2>3 DEF OrderBooked, CommitRows
      <3> QED BY <3>1, <3>2 DEF CashReconciles
    <2>4. CASE WriteRaises
      BY <2>4 DEF WriteRaises, CashReconciles, BookTypeOK
    <2> QED BY <2>2, <2>3, <2>4 DEF OrderBooked
  <1>2. CASE UNCHANGED <<fills, dbCash, cash, faults>>
    BY <1>2 DEF CashReconciles, CashFromFills
  <1> QED BY <1>1, <1>2 DEF BookStep, vars, bookVars

(* Until a write fails, the cash of the Book object, the sessions row and   *)
(* the cash rebuilt from the fills table are one number, over any universe: *)
(* eval/pnl.py never has a discrepancy to exclude such a session for.       *)
THEOREM CashIsReconciled == BookSpec => []CashReconciles
  <1>1. BookTypeOK /\ CashReconciles /\ [BookStep]_vars => CashReconciles'
    BY CashStep
  <1> QED BY <1>1, CashInit, TypeCorrect, NextIsStep, PTL DEF BookSpec

-----------------------------------------------------------------------------
(* The concurrency cap, and shorting while it is off.                      *)

(* What check() guarantees of an accepted order: room if the symbol was    *)
(* flat, and no short grown or opened unless shorting is on.               *)
LEMMA AcceptedIsAllowed ==
    ASSUME BookTypeOK,
           NEW s \in Symbols, NEW side \in Sides, NEW q \in Nat \ {0},
           NEW canOpen \in BOOLEAN, NEW isHalted \in BOOLEAN,
           Accepts([sym |-> s, side |-> side, qty |-> q], canOpen, isHalted)
    PROVE  LET o == [sym |-> s, side |-> side, qty |-> q]
           IN  /\ pos[s].qty = 0 => Cardinality(OpenSymbols) < MaxConcurrent
               /\ \/ Magnitude(Projected(o)) < Magnitude(pos[s].qty)
                  \/ AllowShort \/ Projected(o) >= 0
               /\ Projected(o) = pos[s].qty + Signed(o)
  <1> DEFINE o == [sym |-> s, side |-> side, qty |-> q]
  <1>1. o.sym = s /\ pos[s].qty \in Int
    BY DEF BookTypeOK, PositionType
  <1>2. Signed(o) \in Int
    BY BookAssumption DEF Signed
  <1>3. Projected(o) = pos[s].qty + Signed(o) /\ Projected(o) \in Int
    BY <1>1, <1>2 DEF Projected
  <1>4. Reducing(o) => Magnitude(Projected(o)) < Magnitude(pos[s].qty)
    BY <1>1 DEF Reducing
  <1>5. pos[s].qty = 0 => ~Reducing(o)
    BY <1>1, <1>3 DEF Reducing, Magnitude
  <1>6. Reducing(o) \/ MayIncrease(o, canOpen, isHalted)
    BY DEF Accepts
  <1>7. MayIncrease(o, canOpen, isHalted) =>
          /\ Projected(o) < 0 => AllowShort
          /\ pos[s].qty = 0 => Cardinality(OpenSymbols) < MaxConcurrent
    BY <1>1 DEF MayIncrease, IsFlat
  <1>8. pos[s].qty = 0 => Cardinality(OpenSymbols) < MaxConcurrent
    BY <1>5, <1>6, <1>7
  <1>9. \/ Magnitude(Projected(o)) < Magnitude(pos[s].qty)
        \/ AllowShort \/ Projected(o) >= 0
    BY <1>3, <1>4, <1>6, <1>7
  <1> QED BY <1>3, <1>8, <1>9

(* An order touches one position, and moves it by its signed quantity.     *)
LEMMA OrderMovesOne ==
    ASSUME BookTypeOK, NEW s \in Symbols, NEW signed \in Int \ {0}, NEW price \in Nat,
           OrderBooked(s, signed, price)
    PROVE  /\ pos'[s].qty = pos[s].qty + signed
           /\ \A t \in Symbols \ {s} : pos'[t] = pos[t]
           /\ [t \in Symbols |-> pos'[t].qty]
                = [[t \in Symbols |-> pos[t].qty] EXCEPT ![s] = @ + signed]
           /\ pos' \in [Symbols -> PositionType]
  <1>1. pos[s] \in PositionType /\ (pos[s].qty = 0 => pos[s].cost = 0)
    BY DEF BookTypeOK
  <1>2. Applied(pos[s], signed, price).qty = pos[s].qty + signed
        /\ Applied(pos[s], signed, price) \in PositionType
    BY <1>1, AppliedType
  <1>3. pos' = [pos EXCEPT ![s] = Applied(pos[s], signed, price)]
    BY DEF OrderBooked
  <1>4. /\ pos'[s].qty = pos[s].qty + signed
        /\ \A t \in Symbols \ {s} : pos'[t] = pos[t]
        /\ pos' \in [Symbols -> PositionType]
    BY <1>2, <1>3 DEF BookTypeOK
  <1> QED BY <1>4

LEMMA CapStep ==
    ASSUME BookTypeOK, WithinConcurrentCap, [BookStep]_vars
    PROVE  WithinConcurrentCap'
  <1>1. CASE Deal
    <2>1. PICK s \in Symbols, side \in Sides, q \in Nat \ {0},
               canOpen \in BOOLEAN, isHalted \in BOOLEAN :
             Submit([sym |-> s, side |-> side, qty |-> q], canOpen, isHalted)
      BY <1>1 DEF Deal
    <2> DEFINE o == [sym |-> s, side |-> side, qty |-> q]
               price == FillPrice(side, quotes[s])
    <2>2. /\ Accepts(o, canOpen, isHalted)
          /\ price \in Nat /\ Signed(o) \in Int \ {0}
          /\ OrderBooked(s, Signed(o), price)
      BY <1>1, <2>1, AnOrderIsBooked DEF Deal
    <2>3. pos[s].qty = 0 => Cardinality(OpenSymbols) < MaxConcurrent
      BY <2>2, AcceptedIsAllowed
    <2> HIDE DEF o, price
    <2>4. \A t \in Symbols \ {s} : pos'[t] = pos[t]
      BY <2>2, OrderMovesOne
    <2>5. IsFiniteSet(OpenSymbols) /\ Cardinality(OpenSymbols) \in Nat
      BY BookAssumption, FS_Subset, FS_CardinalityType DEF OpenSymbols
    <2>6. CASE pos[s].qty = 0
      <3>1. OpenSymbols' \subseteq OpenSymbols \cup {s}
        BY <2>4 DEF OpenSymbols, IsFlat
      <3>2. /\ IsFiniteSet(OpenSymbols \cup {s})
            /\ Cardinality(OpenSymbols \cup {s}) <= Cardinality(OpenSymbols) + 1
        <4> DEFINE card == Cardinality(OpenSymbols)
        <4>1. /\ IsFiniteSet(OpenSymbols \cup {s})
              /\ \/ Cardinality(OpenSymbols \cup {s}) = card
                 \/ Cardinality(OpenSymbols \cup {s}) = card + 1
          BY <2>5, FS_AddElement
        <4> HIDE DEF card
        <4>2. card \in Nat
          BY <2>5 DEF card
        <4>3. Cardinality(OpenSymbols \cup {s}) <= card + 1
          BY <4>1, <4>2
        <4> QED BY <4>1, <4>3 DEF card
      <3>3. Cardinality(OpenSymbols') <= Cardinality(OpenSymbols \cup {s})
        BY <3>1, <3>2, FS_Subset
      <3>4. /\ Cardinality(OpenSymbols') \in Nat
            /\ Cardinality(OpenSymbols \cup {s}) \in Nat
        BY <3>1, <3>2, FS_Subset, FS_CardinalityType
      <3> QED BY <2>3, <2>5, <2>6, <3>2, <3>3, <3>4, BookAssumption DEF WithinConcurrentCap
    <2>7. CASE pos[s].qty # 0
      <3>1. OpenSymbols' \subseteq OpenSymbols
        BY <2>4, <2>7 DEF OpenSymbols, IsFlat
      <3>2. /\ Cardinality(OpenSymbols') <= Cardinality(OpenSymbols)
            /\ Cardinality(OpenSymbols') \in Nat
        BY <2>5, <3>1, FS_Subset, FS_CardinalityType
      <3> QED BY <2>5, <3>2, BookAssumption DEF WithinConcurrentCap
    <2> QED BY <2>6, <2>7
  <1>2. CASE UNCHANGED pos
    BY <1>2 DEF WithinConcurrentCap, OpenSymbols, IsFlat
  <1> QED BY <1>1, <1>2 DEF BookStep, vars, bookVars

LEMMA CapInit == BookInit => WithinConcurrentCap
  <1> SUFFICES ASSUME BookInit PROVE WithinConcurrentCap
    OBVIOUS
  <1>1. OpenSymbols = {}
    BY DEF BookInit, OpenSymbols, IsFlat, Flat
  <1> QED BY <1>1, FS_EmptySet, BookAssumption DEF WithinConcurrentCap

(* No sequence of fills, reversals included, takes the book past the cap.  *)
THEOREM CapHolds == BookSpec => []WithinConcurrentCap
  <1>1. BookTypeOK /\ WithinConcurrentCap /\ [BookStep]_vars => WithinConcurrentCap'
    BY CapStep
  <1> QED BY <1>1, CapInit, TypeCorrect, NextIsStep, PTL DEF BookSpec

(* With shorting off, check() lets no order open a short or grow one.      *)
ShortsKept ==
    AllowShort \/ \A s \in Symbols :
        pos'[s].qty < 0 =>
            \/ pos'[s] = pos[s]
            \/ Magnitude(pos'[s].qty) < Magnitude(pos[s].qty)

LEMMA ShortsStep ==
    ASSUME BookTypeOK, [BookStep]_vars
    PROVE  [ShortsKept]_pos
  <1>1. CASE Deal
    <2>1. PICK s \in Symbols, side \in Sides, q \in Nat \ {0},
               canOpen \in BOOLEAN, isHalted \in BOOLEAN :
             Submit([sym |-> s, side |-> side, qty |-> q], canOpen, isHalted)
      BY <1>1 DEF Deal
    <2> DEFINE o == [sym |-> s, side |-> side, qty |-> q]
               price == FillPrice(side, quotes[s])
    <2>2. /\ Accepts(o, canOpen, isHalted)
          /\ price \in Nat /\ Signed(o) \in Int \ {0}
          /\ OrderBooked(s, Signed(o), price)
      BY <1>1, <2>1, AnOrderIsBooked DEF Deal
    <2>3. /\ \/ Magnitude(Projected(o)) < Magnitude(pos[s].qty)
             \/ AllowShort \/ Projected(o) >= 0
          /\ Projected(o) = pos[s].qty + Signed(o)
      BY <2>2, AcceptedIsAllowed
    <2> HIDE DEF o, price
    <2>4. /\ pos'[s].qty = pos[s].qty + Signed(o)
          /\ \A t \in Symbols \ {s} : pos'[t] = pos[t]
          /\ pos'[s].qty \in Int
      BY <2>2, OrderMovesOne DEF PositionType
    <2>5. AllowShort \/ (pos'[s].qty < 0
                            => Magnitude(pos'[s].qty) < Magnitude(pos[s].qty))
      BY <2>3, <2>4
    <2> QED BY <2>4, <2>5 DEF ShortsKept
  <1>2. CASE UNCHANGED pos
    BY <1>2
  <1> QED BY <1>1, <1>2 DEF BookStep, vars, bookVars

(* With shorting off, a position below zero is what a sell larger than the *)
(* long it cut left, or what a later order left of that; it never grows.   *)
THEOREM ShortsNeverGrow == BookSpec => ShortsOnlyByOverselling
  <1>1. BookTypeOK /\ [BookStep]_vars => [ShortsKept]_pos
    BY ShortsStep
  <1>2. ShortsOnlyByOverselling <=> [][ShortsKept]_pos
    BY PTL DEF ShortsOnlyByOverselling, ShortsKept
  <1> QED BY <1>1, <1>2, TypeCorrect, NextIsStep, PTL DEF BookSpec

-----------------------------------------------------------------------------
(* The book implements the ledger.                                         *)

LEMMA AccountStep ==
    ASSUME ~QuotesTier, BookTypeOK, [BookNext]_vars
    PROVE  Account!Next \/ UNCHANGED <<[s \in Symbols |-> pos[s].qty], cash>>
  <1>1. CASE SubmitAny
    <2>1. PICK s \in Symbols, side \in Sides, q \in Qtys,
               canOpen \in BOOLEAN, isHalted \in BOOLEAN :
             Submit([sym |-> s, side |-> side, qty |-> q], canOpen, isHalted)
      BY <1>1 DEF SubmitAny
    <2> DEFINE o == [sym |-> s, side |-> side, qty |-> q]
               price == FillPrice(side, quotes[s])
    <2>2. /\ Accepts(o, canOpen, isHalted)
          /\ quotes[s] \in QuoteMenu /\ price \in Nat /\ Signed(o) \in Int \ {0}
          /\ OrderBooked(s, Signed(o), price)
      BY <1>1, <2>1, AnOrderIsBooked, BookAssumption DEF SubmitAny
    <2>3. price \in FillPrices
      BY <2>2 DEF FillPrices
    <2>4. Account!HasRoom(s)
      <3>1. pos[s].qty = 0 => Cardinality(OpenSymbols) < MaxConcurrent
        BY <2>2, AcceptedIsAllowed, BookAssumption
      <3>2. Account!Held = OpenSymbols
        BY DEF Account!Held, OpenSymbols, IsFlat
      <3>3. Account!Cardinality(OpenSymbols) = Cardinality(OpenSymbols)
        BY DEF Account!Cardinality, Cardinality
      <3> QED BY <3>1, <3>2, <3>3 DEF Account!HasRoom
    <2>5. /\ [t \in Symbols |-> pos'[t].qty]
               = [[t \in Symbols |-> pos[t].qty] EXCEPT ![s] = @ + Signed(o)]
          /\ cash' = cash - Signed(o) * price
      <3> HIDE DEF o, price
      <3> QED BY <2>2, OrderMovesOne DEF OrderBooked
    <2>6. q \in Nat /\ q # 0 /\ cash \in Int /\ pos[s].qty \in Int
      BY BookAssumption DEF BookTypeOK, PositionType
    <2>7. CASE side = "buy"
      <3>1. Signed(o) = q
        BY <2>7 DEF Signed
      <3>2. q * price <= cash
        BY <2>2, <2>7, AcceptedIsFunded, BookAssumption
      <3> HIDE DEF o, price
      <3>3. Account!Buy(s, q, price)
        BY <2>4, <2>5, <3>1, <3>2 DEF Account!Buy
      <3>4. \E t \in Symbols, lot \in Qtys, p \in FillPrices : Account!Buy(t, lot, p)
        BY <2>3, <3>3 DEF Account!Buy
      <3> QED BY <3>4, Zenon DEF Account!Next, Account!Buy
    <2>8. CASE side = "sell"
      <3>1. Signed(o) = -q
        BY <2>8 DEF Signed
      <3>2. AllowShort \/ pos[s].qty > 0
        <4>1. /\ \/ Magnitude(Projected(o)) < Magnitude(pos[s].qty)
                 \/ AllowShort \/ Projected(o) >= 0
              /\ Projected(o) = pos[s].qty - q
          BY <2>2, <2>6, <3>1, AcceptedIsAllowed, BookAssumption
        <4> QED BY <2>6, <4>1 DEF Magnitude
      <3>3. cash' = cash + q * price
        <4> HIDE DEF o, price
        <4> DEFINE paid == q * price
        <4>1. paid \in Int /\ (-q) * price = -paid
          BY <2>2, <2>6
        <4>2. cash' = cash - (-paid)
          BY <2>5, <3>1, <4>1
        <4> HIDE DEF paid
        <4>3. cash' = cash + paid
          BY <2>6, <4>1, <4>2
        <4> QED BY <4>3 DEF paid
      <3>4. [t \in Symbols |-> pos'[t].qty]
              = [[t \in Symbols |-> pos[t].qty] EXCEPT ![s] = @ - q]
        BY <2>5, <2>6, <3>1
      <3> HIDE DEF o, price
      <3>5. Account!Sell(s, q, price)
        BY <2>4, <3>2, <3>3, <3>4 DEF Account!Sell
      <3>6. \E t \in Symbols, lot \in Qtys, p \in FillPrices : Account!Sell(t, lot, p)
        BY <2>3, <3>5 DEF Account!Sell
      <3> QED BY <3>6, Zenon DEF Account!Next, Account!Sell
    <2> QED BY <2>7, <2>8 DEF Sides
  <1>2. CASE UNCHANGED <<pos, cash>>
    BY <1>2
  <1> QED BY <1>1, <1>2 DEF BookNext, vars, bookVars

(* Without a quote book to cross, every behaviour of the book, its quotes, *)
(* tables and failed writes hidden, is a behaviour of the ledger.          *)
THEOREM BookImplementsLedger == ~QuotesTier => (BookSpec => BookIsALedger)
  <1> SUFFICES ASSUME ~QuotesTier PROVE BookSpec => BookIsALedger
    OBVIOUS
  <1>1. BookInit => Account!Init
    BY DEF BookInit, Account!Init, Flat
  <1>2. BookTypeOK /\ [BookNext]_vars
          => [Account!Next]_<<[s \in Symbols |-> pos[s].qty], cash>>
    BY AccountStep
  <1> QED BY <1>1, <1>2, TypeCorrect, PTL DEF BookSpec, BookIsALedger, Account!Spec
=============================================================================
