----------------------------- MODULE MCFastLoop -----------------------------
(* FastLoop with Enforcement, for TLC: prices around 100 ticks, 1 bp = 1%.  *)
EXTENDS Enforcement

Bar(p) == [last |-> p, bid |-> p, ask |-> p, book |-> FALSE, stale |-> FALSE]
Stale(q) == [q EXCEPT !.stale = TRUE]

\* Down through a stop, up past an add and a trail, and a feed that died low.
MCQuotes == {Bar(90), Bar(120), Stale(Bar(90))}

Unstated == [stop_price |-> None, stop_bp |-> None, target_price |-> None,
             target_bp |-> None, trail_bp |-> None, time_stop |-> None,
             trigger_price |-> None, valid |-> None]

MCOpenLevels ==
    {[Unstated EXCEPT !.stop_bp = 6, !.trail_bp = 8, !.time_stop = 1],
     [Unstated EXCEPT !.stop_price = 95, !.trigger_price = 105],
     [Unstated EXCEPT !.stop_bp = 6, !.trigger_price = 105, !.valid = 1]}

MCAmendLevels == {[Unstated EXCEPT !.stop_price = 92, !.target_bp = 19]}

\* An amendment that restates the trail, wider.
MCWiderTrail == {[Unstated EXCEPT !.stop_bp = 6, !.trail_bp = 20]}
=============================================================================
