------------------------------- MODULE Poller -------------------------------
(***************************************************************************)
(* The three polling loops and the health of the two feeds they share:     *)
(* engine/poller.py.                                                       *)
(*                                                                         *)
(* The quote loop and the bar loop poll one price feed and count into one  *)
(* FeedHealth.  A cycle is an await (the fetch) and then a synchronous     *)
(* stretch that writes what came back and notes how it went; only the      *)
(* stretch is an action, so cycles of the loops come in any order.  Any     *)
(* write may find the database busy for longer than its timeout and raise. *)
(* Process says when a loop can run, and what becomes of a loop that died. *)
(***************************************************************************)
EXTENDS Naturals

CONSTANTS DegradeAfter,   \* PollerConfig.degrade_after
          MaxFails,       \* bound: failures counted, above DegradeAfter
          MaxBusy         \* bound: writes that raised

ASSUME PollerAssumption ==
    /\ DegradeAfter \in Nat \ {0}
    /\ MaxFails \in Nat /\ DegradeAfter < MaxFails
    /\ MaxBusy \in Nat

Loops == {"quotes", "bars", "news"}
Feeds == {"price", "edgar"}
FeedOf(l) == IF l = "news" THEN "edgar" ELSE "price"

VARIABLES
    booted,    \* probe_all() has run
    fails,     \* FeedHealth.consecutive_failures
    degraded,  \* FeedHealth.degraded
    last,      \* the newest health event of the feed
    alive,     \* the loops whose task has not ended
    busy       \* writes of an event or of the WAL that raised (bound: MaxBusy)

health == <<fails, degraded>>
pollerVars == <<booted, health, last, alive, busy>>

Outages == {"feed_unavailable", "feed_degraded"}
Kinds == Outages \cup {"none", "feed_ok", "feed_probe_failed", "feed_recovered"}

\* A feed whose failures reached the limit has been declared degraded.
PollerTypeOK ==
    /\ booted \in BOOLEAN
    /\ fails \in [Feeds -> 0..MaxFails]
    /\ degraded \in [Feeds -> BOOLEAN]
    /\ \A f \in Feeds : fails[f] >= DegradeAfter => degraded[f]
    /\ last \in [Feeds -> Kinds]
    /\ alive \subseteq Loops
    /\ busy \in 0..MaxBusy

\* A write finds the database busy.
Raises == busy < MaxBusy /\ busy' = busy + 1
Writes == UNCHANGED busy

-----------------------------------------------------------------------------
(* probe_all(): a feed that does not answer is reported and does not end the boot. *)

ProbeResult(f, kind) ==
    /\ last[f] = "none"
    /\ last' = [last EXCEPT ![f] = kind]
    /\ degraded' = [degraded EXCEPT ![f] = (kind = "feed_unavailable")]

Probe(f) ==
    /\ ~booted
    /\ \E kind \in {"feed_ok", "feed_unavailable", "feed_probe_failed"} : ProbeResult(f, kind)
    /\ UNCHANGED <<booted, fails, alive, busy>>

\* The event of a probe could not be written: it is raised out of the probes.
ProbeRaises(f) ==
    /\ ~booted /\ last[f] = "none"
    /\ Raises
    /\ \E down \in BOOLEAN : degraded' = [degraded EXCEPT ![f] = down]
    /\ UNCHANGED <<booted, fails, last, alive>>

\* run(): one task per loop.
RunLoops ==
    /\ ~booted /\ \A f \in Feeds : last[f] # "none"
    /\ booted' = TRUE /\ alive' = Loops
    /\ UNCHANGED <<health, last, busy>>

-----------------------------------------------------------------------------
(* Noting how a cycle went. *)

Count(f) == IF fails[f] < MaxFails THEN fails[f] + 1 ELSE fails[f]

\* Mutant: the limit is compared with the count before this failure.
DegradesLate(f) == ~degraded[f] /\ fails[f] >= DegradeAfter

Degrades(f) == ~degraded[f] /\ Count(f) >= DegradeAfter

\* _note_failure(): the flag is set before the event is written.
Failed(f) ==
    /\ fails' = [fails EXCEPT ![f] = Count(f)]
    /\ degraded' = [degraded EXCEPT ![f] = @ \/ Degrades(f)]

FailureNoted(f) ==
    /\ Failed(f) /\ Writes
    /\ last' = IF Degrades(f) THEN [last EXCEPT ![f] = "feed_degraded"] ELSE last

FailureRaises(f) == Degrades(f) /\ Failed(f) /\ Raises /\ UNCHANGED last

\* The same inside the loop's try: its handler counts once more, and finds the
\* feed already degraded.
FailureRaisesInside(f) ==
    /\ Degrades(f)
    /\ fails' = [fails EXCEPT ![f] = IF Count(f) < MaxFails THEN Count(f) + 1 ELSE Count(f)]
    /\ degraded' = [degraded EXCEPT ![f] = TRUE]
    /\ Raises /\ UNCHANGED last

\* Mutant: the flag is cleared before it is looked at.
SuccessNotedSilently(f) ==
    /\ fails' = [fails EXCEPT ![f] = 0]
    /\ degraded' = [degraded EXCEPT ![f] = FALSE]
    /\ Writes /\ UNCHANGED last

\* _note_success(): an outage that is over is worth an event.
SuccessNoted(f) ==
    /\ fails' = [fails EXCEPT ![f] = 0]
    /\ degraded' = [degraded EXCEPT ![f] = FALSE]
    /\ Writes
    /\ last' = IF degraded[f] THEN [last EXCEPT ![f] = "feed_recovered"] ELSE last

\* The recovery could not be written: the exception reaches the loop's handler,
\* which counts a first failure.
SuccessRaises(f) ==
    /\ degraded[f]
    /\ fails' = [fails EXCEPT ![f] = 1]
    /\ degraded' = [degraded EXCEPT ![f] = (DegradeAfter <= 1)]
    /\ Raises /\ UNCHANGED last

-----------------------------------------------------------------------------
(* One cycle of a loop. *)

Cycles(l) == booted /\ l \in alive
Survives == UNCHANGED alive

\* Everything came back and was written; only the bar loop notes no success.
CycleOk(l) ==
    /\ Cycles(l)
    /\ IF l = "bars" THEN UNCHANGED <<health, last, busy>>
       ELSE SuccessNoted(FeedOf(l)) \/ SuccessRaises(FeedOf(l))
    /\ Survives
    /\ UNCHANGED booted

\* Nothing usable came back.  A failed bar fetch is an empty batch and not noted.
CycleEmpty(l) ==
    /\ Cycles(l)
    /\ IF l = "bars" THEN UNCHANGED <<health, last, busy>>
       ELSE FailureNoted(FeedOf(l)) \/ FailureRaisesInside(FeedOf(l))
    /\ Survives
    /\ UNCHANGED booted

\* Mutant: an exception out of the fetch ends the loop.
CycleRaisesThrough(l) ==
    /\ Cycles(l)
    /\ \/ FailureNoted(FeedOf(l)) /\ alive' = alive \ {l}
       \/ FailureRaises(FeedOf(l)) /\ alive' = alive \ {l}
    /\ UNCHANGED booted

\* The fetch or the transaction raises: the handler notes the failure, and an
\* exception out of the handler ends the loop.
CycleRaises(l) ==
    /\ Cycles(l)
    /\ \/ FailureNoted(FeedOf(l)) /\ Survives
       \/ FailureRaises(FeedOf(l)) /\ alive' = alive \ {l}
    /\ UNCHANGED booted

-----------------------------------------------------------------------------

PollerInit ==
    /\ booted = FALSE
    /\ fails = [f \in Feeds |-> 0] /\ degraded = [f \in Feeds |-> FALSE]
    /\ last = [f \in Feeds |-> "none"]
    /\ alive = {} /\ busy = 0

\* Tasks that ended: a loop returns only through an exception.
Died == IF booted THEN Loops \ alive ELSE {}

-----------------------------------------------------------------------------
(* Properties. *)

\* The events tell an outage from a blip that is over: as long as no write
\* raised, a feed is degraded exactly when its newest health event says so, although two
\* loops count into one health and the probe set the flag before either.
EventsTellHealth ==
    busy = 0 => \A f \in Feeds : degraded[f] <=> last[f] \in Outages

\* No failure of a provider ends a loop; only the database can, and only in the
\* cycle that declares the feed degraded.
FeedsEndNoLoop ==
    [][\A l \in alive \ alive' :
          busy' > busy /\ degraded'[FeedOf(l)] /\ ~degraded[FeedOf(l)]]_pollerVars
=============================================================================
