------------------------------- MODULE Ledger -------------------------------
(***************************************************************************)
(* What a session's book promises, without quotes, orders or tables: an    *)
(* account that moves by one trade at a time, pays for what it buys, has   *)
(* room for what it opens, and with shorting off never sells what is flat  *)
(* or short already.                                                       *)
(***************************************************************************)
EXTENDS Integers, FiniteSets

CONSTANTS Symbols,     \* what may be traded
          Lots,        \* sizes of a trade
          Prices,      \* prices of a trade
          Stake,       \* money at the start
          Room,        \* symbols that may be held at once
          AllowShort   \* may a flat symbol be sold?

VARIABLES holdings, money

Held == {s \in Symbols : holdings[s] # 0}

Init ==
    /\ holdings = [s \in Symbols |-> 0]
    /\ money = Stake

HasRoom(s) == holdings[s] = 0 => Cardinality(Held) < Room

Buy(s, lot, price) ==
    /\ HasRoom(s)
    /\ lot * price <= money
    /\ holdings' = [holdings EXCEPT ![s] = @ + lot]
    /\ money' = money - lot * price

Sell(s, lot, price) ==
    /\ HasRoom(s)
    /\ AllowShort \/ holdings[s] > 0
    /\ holdings' = [holdings EXCEPT ![s] = @ - lot]
    /\ money' = money + lot * price

Next ==
    \E s \in Symbols, lot \in Lots, price \in Prices :
        Buy(s, lot, price) \/ Sell(s, lot, price)

Spec == Init /\ [][Next]_<<holdings, money>>
=============================================================================
