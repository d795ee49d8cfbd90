------------------------------- MODULE MCBook -------------------------------
(* Instances of Book for TLC: prices around 100 ticks, 1 bp = 1% of them.   *)
EXTENDS Book, TLC

Bar(p) == [last |-> p, bid |-> p, ask |-> p, book |-> FALSE, stale |-> FALSE]
Stale(q) == [q EXCEPT !.stale = TRUE]

\* A quiet tape, a falling one that reaches the loss limit, and a dead feed.
MCQuotes == {Bar(100), Bar(110), Bar(90), Stale(Bar(100))}

Symmetric == Permutations(Symbols)
=============================================================================
