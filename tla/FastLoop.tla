------------------------------ MODULE FastLoop ------------------------------
(***************************************************************************)
(* Trading between two model ticks: session/fastloop.py together with the  *)
(* part of the slow loop that shares its tables and its book               *)
(* (SessionRunner._apply_decision, _place, _submit, _stopped).             *)
(*                                                                         *)
(* Both loops are coroutines of one event loop.  A decision being applied  *)
(* and an enforcement pass are synchronous: phase names the handler that   *)
(* runs, and nothing else of this process runs until it is "idle" again.   *)
(* The KILL file belongs to the outside world and may appear or vanish     *)
(* between any two orders of one handler.                                  *)
(***************************************************************************)
EXTENDS Book, Sequences

CONSTANTS OpenLevels,      \* levels a proposed order may state
          AmendLevels,     \* levels an entry of "exits" may state
          NoPlan,          \* no active row in exit_plans
          StopOpening,     \* when the session stops opening positions
          MaxTime,         \* bound: the clock
          MaxEntries,      \* bound: entries armed
          MaxDecisions     \* bound: model decisions applied

ASSUME FastLoopAssumption ==
    /\ OpenLevels \subseteq LevelsType
    /\ AmendLevels \subseteq LevelsType
    /\ NoPlan \notin PlanType
    /\ StopOpening \in Nat /\ MaxTime \in Nat
    /\ MaxEntries \in Nat /\ MaxDecisions \in Nat

VARIABLES
    plans,        \* exit_plans: the active row of each symbol
    entries,      \* pending_entries: the rows still waiting, by id
    armedFills,   \* per entry id, the fills booked with origin "armed"
    now,          \* the clock, in the unit of the levels' deadlines
    halted,       \* SessionRunner._halted is set
    phase,        \* the synchronous handler that is running
    todo,         \* plans or entries the running pass has still to visit
    opened,       \* the opening fill that is being protected
    byHand,       \* symbols reported as open with nothing watching them
    decisions     \* decisions applied so far (bound: MaxDecisions)

loopVars == <<phase, todo, opened, decisions>>
deskVars == <<plans, entries, armedFills, byHand>>
fastVars == <<vars, deskVars, loopVars, now, halted>>

EntryIds == 1..MaxEntries
Orders == [sym: Symbols, side: Sides, qty: Qtys]
NoFill == [sym |-> "none"]

\* An armed entry never waits past the point where the session stops opening.
EntryType == [order: OrderType, trigger: Int, expires: 0..StopOpening,
              levels: OpenLevels, direction: {"at_or_below", "at_or_above"}]
OpenedType == [order: OrderType, price: Int, levels: OpenLevels,
               back: {"orders", "entries"}]
Phases == {"idle", "exits", "orders", "plans", "entries", "protect"}

FastTypeOK ==
    /\ BookTypeOK
    /\ plans \in [Symbols -> PlanType \cup {NoPlan}]
    /\ DOMAIN entries \subseteq EntryIds
    /\ \A i \in DOMAIN entries : entries[i] \in EntryType
    /\ armedFills \in Seq(Nat) /\ Len(armedFills) <= MaxEntries
    /\ now \in 0..MaxTime
    /\ halted \in BOOLEAN
    /\ phase \in Phases
    /\ todo \subseteq Symbols \cup EntryIds
    /\ phase = "protect" <=> opened # NoFill
    /\ phase = "protect" => opened \in OpenedType
    /\ byHand \subseteq Symbols
    /\ decisions \in 0..MaxDecisions

-----------------------------------------------------------------------------
(* Shared by both loops. *)

Watched(s) == plans[s] # NoPlan
Without(f, keys) == [k \in DOMAIN f \ keys |-> f[k]]
AvgPrice(s) == Magnitude(pos[s].cost) \div Magnitude(pos[s].qty)

\* A raising transaction ends the handler.  In the fast loop run() swallows
\* the exception; in the slow loop it ends the session.
Raised == faults' # faults
AbandonPass == phase' = "idle" /\ todo' = {} /\ opened' = NoFill
AbandonDecision == AbandonPass /\ halted' = TRUE

\* Where the running handler goes after a submit that may have raised.
Continue(back, next) ==
    IF ~Raised THEN next /\ UNCHANGED halted
    ELSE IF back = "orders" THEN AbandonDecision
    ELSE AbandonPass /\ UNCHANGED halted

GoOn(p) == phase' = p /\ opened' = NoFill /\ UNCHANGED todo

-----------------------------------------------------------------------------
(* attach() and protect(): exit levels for an opening fill. *)

\* Mutant: the mark and the trail are carried, the ratchet is not applied again.
MergedUnratcheted(prior, plan) ==
    IF prior = NoPlan \/ prior.long # plan.long THEN plan
    ELSE [plan EXCEPT
             !.high = Better(plan.long, prior.high, plan.high),
             !.trail = IF plan.trail # None THEN plan.trail ELSE prior.trail]

\* A prior active plan in the same direction carries its high-water mark and
\* its trail into the new one, and the ratchet is applied again.
Merged(prior, plan) ==
    IF prior = NoPlan \/ prior.long # plan.long THEN plan
    ELSE LET carried == [plan EXCEPT
                 !.high = Better(plan.long, prior.high, plan.high),
                 !.trail = IF plan.trail # None THEN plan.trail ELSE prior.trail]
         IN  Trailed(carried, carried.high)

ProtectEntry == IF IsFlat(opened.order.sym) THEN opened.price ELSE AvgPrice(opened.order.sym)
Protectable == Resolves(opened.levels, opened.order.side = "buy", ProtectEntry)

Attach ==
    LET s == opened.order.sym
        plan == Resolved(opened.levels, opened.order.side = "buy", ProtectEntry, now)
    IN  /\ Protectable
        /\ plans' = [plans EXCEPT ![s] = Merged(plans[s], plan)]
        /\ byHand' = byHand \ {s}
        /\ GoOn(opened.back)
        /\ UNCHANGED <<bookVars, entries, armedFills, halted>>

\* Mutant: a clip that could not be sold back is not reported.
UnwindSilently ==
    LET o == [opened.order EXCEPT !.side = Opposite(@)]
    IN  /\ ~Protectable
        /\ UNCHANGED <<plans, entries, armedFills, byHand>>
        /\ \/ /\ Submit(o, FALSE, halted)
              /\ Continue(opened.back, GoOn(opened.back))
           \/ /\ ~Accepts(o, FALSE, halted)
              /\ GoOn(opened.back)
              /\ UNCHANGED <<bookVars, halted>>

\* The levels do not resolve: sell the clip straight back, or say that nothing
\* watches it.
Unwind ==
    LET o == [opened.order EXCEPT !.side = Opposite(@)]
    IN  /\ ~Protectable
        /\ UNCHANGED <<plans, entries, armedFills>>
        /\ \/ /\ Submit(o, FALSE, halted)
              /\ Continue(opened.back, GoOn(opened.back))
              /\ UNCHANGED byHand
           \/ /\ ~Accepts(o, FALSE, halted)
              /\ byHand' = byHand \cup {o.sym}
              /\ GoOn(opened.back)
              /\ UNCHANGED <<bookVars, halted>>

Protect ==
    /\ phase = "protect"
    /\ Attach \/ Unwind
    /\ UNCHANGED <<quotes, killed, now, decisions>>

\* An accepted opening order is filled and handed to protect().
OpenAndProtect(o, l, back) ==
    /\ Submit(o, TRUE, halted)
    /\ Continue(back, /\ phase' = "protect"
                      /\ opened' = [order |-> o, price |-> FillPrice(o.side, quotes[o.sym]),
                                    levels |-> l, back |-> back]
                      /\ UNCHANGED todo)

-----------------------------------------------------------------------------
(* The slow loop applies one decision: cancellations, exits, orders.       *)

\* cancel_pending() withdraws the waiting entries of the named symbols.
Decide ==
    /\ phase = "idle" /\ ~halted /\ decisions < MaxDecisions
    /\ \E cancelled \in SUBSET Symbols :
          entries' = Without(entries, {i \in DOMAIN entries :
                                          entries[i].order.sym \in cancelled})
    /\ phase' = "exits"
    /\ decisions' = decisions + 1
    /\ UNCHANGED <<vars, plans, armedFills, byHand, todo, opened, now, halted>>

\* amend(): what the amendment does not mention is carried over.
Stated(l, plan) ==
    [l EXCEPT
        !.trail_bp = IF @ # None THEN @ ELSE plan.trail,
        !.stop_price = IF HasStop(l) THEN @ ELSE plan.stop,
        !.target_price = IF @ # None \/ l.target_bp # None THEN @ ELSE plan.target]

Amended(l, plan) ==
    LET new == Resolved(Stated(l, plan), plan.long, plan.entry, now)
        kept == [new EXCEPT
                    !.high = plan.high,
                    !.time_stop = IF l.time_stop # None THEN @ ELSE plan.time_stop]
    IN  Trailed(kept, kept.high)

Amend(s, l) ==
    /\ phase = "exits"
    /\ Watched(s)
    /\ Parses(l)
    /\ Resolves(Stated(l, plans[s]), plans[s].long, plans[s].entry)
    /\ plans' = [plans EXCEPT ![s] = Amended(l, @)]
    /\ UNCHANGED <<vars, entries, armedFills, byHand, loopVars, now, halted>>

EndExits ==
    /\ phase = "exits" /\ GoOn("orders")
    /\ UNCHANGED <<vars, deskVars, decisions, now, halted>>

\* _place(): an order that does not shrink the position opens exposure.
Opens(o) == Magnitude(Projected(o)) >= Magnitude(pos[o.sym].qty)

\* The entry the levels are validated against before anything is filled.
Estimate(o, l) ==
    IF l.trigger_price # None THEN l.trigger_price ELSE FillPrice(o.side, quotes[o.sym])

Placeable(o, l) ==
    /\ phase = "orders" /\ Parses(l) /\ Opens(o) /\ HasStop(l)
    /\ quotes[o.sym] # NoQuote => Resolves(l, o.side = "buy", Estimate(o, l))

\* The trigger has not printed yet, so the entry waits for it.
Waits(o, l) ==
    /\ quotes[o.sym] # NoQuote
    /\ l.trigger_price # None
    /\ ~Triggered(ArmDirection(l.trigger_price, quotes[o.sym].last),
                  l.trigger_price, quotes[o.sym].last)

PlaceReduce(o) ==
    /\ phase = "orders" /\ ~Opens(o)
    /\ Submit(o, FALSE, halted)
    /\ Continue("orders", GoOn("orders"))
    /\ UNCHANGED <<deskVars, quotes, killed, now, decisions>>

PlaceOpen(o, l) ==
    /\ Placeable(o, l) /\ ~Waits(o, l)
    /\ OpenAndProtect(o, l, "orders")
    /\ UNCHANGED <<deskVars, quotes, killed, now, decisions>>

\* Mutant: valid_minutes may outlast the session's clock.
ArmPastClock(o, l) ==
    LET id == Len(armedFills) + 1
        row == [order |-> o, trigger |-> l.trigger_price, levels |-> l,
                direction |-> ArmDirection(l.trigger_price, quotes[o.sym].last),
                expires |-> IF l.valid = None THEN StopOpening ELSE now + l.valid]
    IN  /\ Placeable(o, l) /\ Waits(o, l)
        /\ id <= MaxEntries
        /\ entries' = [k \in DOMAIN entries \cup {id} |->
                          IF k = id THEN row ELSE entries[k]]
        /\ armedFills' = Append(armedFills, 0)
        /\ UNCHANGED <<vars, plans, byHand, loopVars, now, halted>>

\* arm(): a row of pending_entries, never waiting past the session's clock.
Arm(o, l) ==
    LET id == Len(armedFills) + 1
        row == [order |-> o, trigger |-> l.trigger_price, levels |-> l,
                direction |-> ArmDirection(l.trigger_price, quotes[o.sym].last),
                expires |-> IF l.valid = None THEN StopOpening
                            ELSE Lower(StopOpening, now + l.valid)]
    IN  /\ Placeable(o, l) /\ Waits(o, l)
        /\ id <= MaxEntries
        /\ entries' = [k \in DOMAIN entries \cup {id} |->
                          IF k = id THEN row ELSE entries[k]]
        /\ armedFills' = Append(armedFills, 0)
        /\ UNCHANGED <<vars, plans, byHand, loopVars, now, halted>>

EndOrders ==
    /\ phase = "orders" /\ GoOn("idle")
    /\ UNCHANGED <<vars, deskVars, decisions, now, halted>>

\* _stopped(): the kill switch, or a loss limit read off marks that are fresh.
\* The slow loop then leaves; a pass that is still to run sees a halted session.
Stopped == killed \/ (Unpriced = {} /\ LossLimitReached)
Halt ==
    /\ phase = "idle" /\ ~halted
    /\ Stopped
    /\ halted' = TRUE
    /\ UNCHANGED <<vars, deskVars, loopVars, now>>

\* _ask(): a model CLI that cannot be reached halts the session as well.
ModelUnavailable ==
    /\ phase = "idle" /\ ~halted
    /\ halted' = TRUE
    /\ UNCHANGED <<vars, deskVars, loopVars, now>>

-----------------------------------------------------------------------------
(* The fast loop: one enforcement pass visits every active plan, then      *)
(* every waiting entry.                                                    *)

PassBegin ==
    /\ phase = "idle"
    /\ phase' = "plans" /\ todo' = {s \in Symbols : Watched(s)}
    /\ UNCHANGED <<vars, deskVars, opened, decisions, now, halted>>

Visited(x) == todo' = todo \ {x}

\* The position was closed by the model, by the flatten or by an earlier pass.
ClosePlan(s) ==
    /\ IsFlat(s)
    /\ plans' = [plans EXCEPT ![s] = NoPlan]
    /\ Visited(s)
    /\ UNCHANGED <<bookVars, entries, armedFills, byHand, phase, opened, halted>>

CloseOrder(s) ==
    [sym |-> s, side |-> IF plans[s].long THEN "sell" ELSE "buy",
     qty |-> Magnitude(pos[s].qty)]

Enforceable(s) == ~IsFlat(s) /\ Tradeable(s)
BreachedNow(s) == Enforceable(s) /\ Breached(plans[s], quotes[s].last, now)

\* Mutant: the plan counts as fired even when the close is refused.
FireRegardless(s) ==
    /\ BreachedNow(s)
    /\ plans' = [plans EXCEPT ![s] = NoPlan]
    /\ UNCHANGED <<entries, armedFills, byHand>>
    /\ \/ /\ Submit(CloseOrder(s), FALSE, halted)
          /\ Continue("plans", Visited(s) /\ UNCHANGED <<phase, opened>>)
       \/ /\ ~Accepts(CloseOrder(s), FALSE, halted)
          /\ Visited(s)
          /\ UNCHANGED <<bookVars, phase, opened, halted>>

\* Mutant: the close is submitted like an order of the model.
FireMayOpen(s) ==
    /\ BreachedNow(s)
    /\ UNCHANGED <<entries, armedFills, byHand>>
    /\ \/ /\ Submit(CloseOrder(s), TRUE, halted)
          /\ plans' = IF Raised THEN plans ELSE [plans EXCEPT ![s] = NoPlan]
          /\ Continue("plans", Visited(s) /\ UNCHANGED <<phase, opened>>)
       \/ /\ ~Accepts(CloseOrder(s), TRUE, halted)
          /\ Visited(s)
          /\ UNCHANGED <<bookVars, plans, phase, opened, halted>>

\* _fire(): the plan stays active when the close is refused.
Fire(s) ==
    /\ BreachedNow(s)
    /\ UNCHANGED <<entries, armedFills, byHand>>
    /\ \/ /\ Submit(CloseOrder(s), FALSE, halted)
          /\ plans' = IF Raised THEN plans ELSE [plans EXCEPT ![s] = NoPlan]
          /\ Continue("plans", Visited(s) /\ UNCHANGED <<phase, opened>>)
       \/ /\ ~Accepts(CloseOrder(s), FALSE, halted)
          /\ Visited(s)
          /\ UNCHANGED <<bookVars, plans, phase, opened, halted>>

\* No breach at this price: only then is the trail raised.
DragTrail(s) ==
    /\ Enforceable(s) /\ ~BreachedNow(s)
    /\ plans' = [plans EXCEPT ![s] = Trailed(@, quotes[s].last)]
    /\ Visited(s)
    /\ UNCHANGED <<bookVars, entries, armedFills, byHand, phase, opened, halted>>

SkipUnpriced(s) ==
    /\ ~IsFlat(s) /\ ~Tradeable(s)
    /\ Visited(s)
    /\ UNCHANGED <<bookVars, deskVars, phase, opened, halted>>

EnforcePlan ==
    /\ phase = "plans"
    /\ \E s \in todo : ClosePlan(s) \/ Fire(s) \/ DragTrail(s) \/ SkipUnpriced(s)
    /\ UNCHANGED <<quotes, killed, now, decisions>>

PlansDone ==
    /\ phase = "plans" /\ todo = {}
    /\ phase' = "entries" /\ todo' = DOMAIN entries
    /\ UNCHANGED <<vars, deskVars, opened, decisions, now, halted>>

Expired(i) == now >= entries[i].expires
Prints(i) ==
    /\ Tradeable(entries[i].order.sym)
    /\ Triggered(entries[i].direction, entries[i].trigger, quotes[entries[i].order.sym].last)

\* Expired, or refused by the risk check when its level printed.
DropEntry(i) ==
    /\ \/ Expired(i)
       \/ Prints(i) /\ ~Accepts(entries[i].order, TRUE, halted)
    /\ entries' = Without(entries, {i})
    /\ Visited(i)
    /\ UNCHANGED <<bookVars, plans, armedFills, byHand, phase, opened, halted>>

KeepWaiting(i) ==
    /\ ~Expired(i) /\ ~Prints(i)
    /\ Visited(i)
    /\ UNCHANGED <<bookVars, deskVars, phase, opened, halted>>

\* Mutant: the row is left waiting after its fill.
FillArmedUnresolved(i) ==
    /\ ~Expired(i) /\ Prints(i)
    /\ armedFills' = [armedFills EXCEPT ![i] = @ + 1]
    /\ Submit(entries[i].order, TRUE, halted)
    /\ Continue("entries",
          /\ phase' = "protect"
          /\ opened' = [order |-> entries[i].order, levels |-> entries[i].levels,
                        price |-> FillPrice(entries[i].order.side,
                                            quotes[entries[i].order.sym]),
                        back |-> "entries"]
          /\ Visited(i))
    /\ UNCHANGED <<entries, plans, byHand>>

\* _fill_armed(): when the transaction raises, the row is still waiting.
FillArmed(i) ==
    /\ ~Expired(i) /\ Prints(i)
    /\ armedFills' = [armedFills EXCEPT ![i] = @ + 1]
    /\ Submit(entries[i].order, TRUE, halted)
    /\ entries' = IF Raised THEN entries ELSE Without(entries, {i})
    /\ Continue("entries",
          /\ phase' = "protect"
          /\ opened' = [order |-> entries[i].order, levels |-> entries[i].levels,
                        price |-> FillPrice(entries[i].order.side,
                                            quotes[entries[i].order.sym]),
                        back |-> "entries"]
          /\ Visited(i))
    /\ UNCHANGED <<plans, byHand>>

\* Entries are visited in the order they were armed.
CheckEntry ==
    /\ phase = "entries"
    /\ \E i \in todo :
          /\ \A j \in todo : i <= j
          /\ DropEntry(i) \/ KeepWaiting(i) \/ FillArmed(i)
    /\ UNCHANGED <<quotes, killed, now, decisions>>

PassEnd ==
    /\ phase = "entries" /\ todo = {}
    /\ phase' = "idle"
    /\ UNCHANGED <<vars, deskVars, todo, opened, decisions, now, halted>>

-----------------------------------------------------------------------------
(* The rest of the world. *)

Tick ==
    /\ phase = "idle" /\ now < MaxTime
    /\ now' = now + 1
    /\ UNCHANGED <<vars, deskVars, loopVars, halted>>

NewQuotes ==
    /\ phase = "idle" /\ Refresh
    /\ UNCHANGED <<bookVars, killed, deskVars, loopVars, now, halted>>

KillFile ==
    /\ Engage \/ Release
    /\ UNCHANGED <<bookVars, quotes, deskVars, loopVars, now, halted>>

FastInit ==
    /\ BookInit
    /\ plans = [s \in Symbols |-> NoPlan]
    /\ entries = <<>>
    /\ armedFills = <<>>
    /\ now = 0
    /\ halted = FALSE
    /\ phase = "idle" /\ todo = {} /\ opened = NoFill
    /\ byHand = {}
    /\ decisions = 0

Decision ==
    \/ Decide
    \/ \E s \in Symbols, l \in AmendLevels : Amend(s, l)
    \/ EndExits
    \/ \E o \in Orders : PlaceReduce(o) \/ \E l \in OpenLevels : PlaceOpen(o, l) \/ Arm(o, l)
    \/ EndOrders

Pass == PassBegin \/ EnforcePlan \/ PlansDone \/ CheckEntry \/ PassEnd
World == Tick \/ NewQuotes \/ KillFile

FastNext == Decision \/ Protect \/ Halt \/ ModelUnavailable \/ Pass \/ World
FastSpec == FastInit /\ [][FastNext]_fastVars

\* run() wakes every few seconds for as long as the session trades, and a
\* handler that has started runs to its end.
FastFairness == WF_fastVars(Pass \/ Protect \/ EndExits \/ EndOrders)

-----------------------------------------------------------------------------
(* Safety. *)

(* Whenever the event loop is free an open position has an active plan, or   *)
(* the session has said that it must be closed by hand.  protect() and       *)
(* _fire() together maintain it, except across a write that raised.          *)
NothingUnwatched ==
    phase = "idle" => \A s \in OpenSymbols : Watched(s) \/ s \in byHand

WatchedUnlessWriteFailed == faults = 0 => NothingUnwatched

(* A plan stops being active only once its symbol is flat: a refused or     *)
(* raising close leaves it in force, whichever loop closed the position.    *)
PlanOutlivesPosition ==
    [][\A s \in Symbols :
          Watched(s) /\ plans'[s] = NoPlan => pos'[s].qty = 0]_fastVars

\* The stop a plan's trail has dragged it to is the one in force.
OnTrail(p) == p.trail # None /\ p.stop = TrailStop(p.long, p.high, p.trail)
Loosened(p, q) == IF p.long THEN q.stop < p.stop ELSE q.stop > p.stop

(* A stop the trail has tightened never loosens while the trail is the      *)
(* same, through adds, amendments that restate the stop, and passes that    *)
(* interleave with both.                                                    *)
TrailedStopNeverRetreats ==
    [][\A s \in Symbols :
          /\ Watched(s) /\ plans'[s] # NoPlan
          /\ OnTrail(plans[s])
          /\ plans'[s].long = plans[s].long /\ plans'[s].trail = plans[s].trail
          => ~Loosened(plans[s], plans'[s])]_fastVars

(* After the loss limit or the kill switch has halted the session, neither  *)
(* an armed entry that prints nor an unwind ever adds exposure.             *)
HaltedOnlyReduces ==
    [][halted => \A s \in Symbols :
          Magnitude(pos'[s].qty) <= Magnitude(pos[s].qty)]_fastVars

(* The side of a close comes from the plan and its size from the book, and   *)
(* a plan may face away from its position: the slow loop oversells, or an    *)
(* armed sell prints against a long and protect() stores its plan.  Even     *)
(* then enforcement takes a position to flat or leaves it alone, and never   *)
(* adds to it or turns it round.                                             *)
EnforcementOnlyFlattens ==
    [][phase = "plans" =>
          \A s \in Symbols : pos'[s].qty \in {0, pos[s].qty}]_fastVars

(* An armed entry is filled at most once, however passes, decisions and     *)
(* cancellations interleave.                                                *)
EntryFilledOnce ==
    faults = 0 => \A i \in 1..Len(armedFills) :
        armedFills[i] <= 1 /\ (armedFills[i] = 1 => i \notin DOMAIN entries)

-----------------------------------------------------------------------------
(* Liveness. *)

ThroughStop(s) ==
    /\ Watched(s) /\ pos[s].qty > 0 /\ plans[s].long
    /\ Tradeable(s) /\ StopHit(plans[s], quotes[s].last) /\ ~killed

(* A long at or through its stop on a live price does not stay open: the    *)
(* loop closes it unless the price recovers or dies or the kill switch      *)
(* forbids it, whatever the slow loop is doing.                             *)
StopIsHonoured ==
    \A s \in Symbols :
        ThroughStop(s) /\ trades < MaxTrades
            ~> ~ThroughStop(s) \/ trades = MaxTrades

-----------------------------------------------------------------------------
(* What a comment says, and the code does not do; see the README.           *)

(* amend(): "it must not be a way to loosen one back to a level the trail   *)
(* already passed"; 004_levels.sql: the stop "never retreats".              *)
NoAmendmentLoosensTrail ==
    [][\A s \in Symbols :
          phase = "exits" /\ Watched(s) /\ OnTrail(plans[s])
          => ~Loosened(plans[s], plans'[s])]_plans
=============================================================================
