------------------------------ MODULE MCTrades ------------------------------
(* Instances of Trades for TLC: two prices leave room for four fills, which *)
(* is what two episodes of one symbol take.                                 *)
EXTENDS Trades, MCBook

\* A quiet tape, a rising one (and so a falling one), and a dead feed.
MCTwoPrices == {Bar(100), Bar(110), Stale(Bar(100))}
=============================================================================
