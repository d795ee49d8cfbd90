------------------------------- MODULE Levels -------------------------------
(***************************************************************************)
(* Exit levels: the pure operators of trading/levels.py.                   *)
(*                                                                         *)
(* Prices are integer ticks.  A basis-point distance is a fraction of      *)
(* BpScale (10_000 in the code) rounded down to a tick; comparisons of     *)
(* distances are cross-multiplied and therefore exact.  None stands for    *)
(* Python's None: the level was not stated.                                *)
(***************************************************************************)
EXTENDS Integers

CONSTANTS BpScale,   \* basis points in the whole: 10_000 in the code
          CostBp,    \* the round-trip cost the plan is validated against
          None       \* a level that was not stated

ASSUME LevelsAssumption ==
    /\ BpScale \in Nat \ {0}
    /\ CostBp \in Nat
    /\ None \notin Int

\* MIN_STOP_COST_MULTIPLE
StopCostMultiple == 2

Higher(a, b) == IF a >= b THEN a ELSE b
Lower(a, b)  == IF a <= b THEN a ELSE b
Distance(a, b) == IF a >= b THEN a - b ELSE b - a
BpOf(price, bp) == (price * bp) \div BpScale

Optional(S) == S \cup {None}

-----------------------------------------------------------------------------
(* What the model asks for, and what is enforced. *)

\* A proposal's level fields, unresolved (dataclass Levels).
LevelsType ==
    [stop_price: Optional(Int), stop_bp: Optional(Nat),
     target_price: Optional(Int), target_bp: Optional(Nat),
     trail_bp: Optional(Int), time_stop: Optional(Int),
     trigger_price: Optional(Int), valid: Optional(Int)]

\* Levels resolved against a fill (dataclass ExitPlan).
PlanType ==
    [long: BOOLEAN, entry: Int, stop: Int, target: Optional(Int),
     trail: Optional(Int), time_stop: Optional(Int), high: Int]

HasStop(l) == l.stop_price # None \/ l.stop_bp # None

\* parse(): one form of each level, and every stated distance positive.
Parses(l) ==
    /\ l.stop_price = None \/ l.stop_bp = None
    /\ l.target_price = None \/ l.target_bp = None
    /\ l.trail_bp # None => l.trail_bp > 0
    /\ l.time_stop # None => l.time_stop > 0
    /\ l.trigger_price # None => l.trigger_price > 0
    /\ l.valid # None => l.valid > 0

-----------------------------------------------------------------------------
(* resolve(): stated levels against an entry price. *)

StopOf(l, long, entry) ==
    IF l.stop_price # None THEN l.stop_price
    ELSE IF long THEN entry - BpOf(entry, l.stop_bp) ELSE entry + BpOf(entry, l.stop_bp)

TargetOf(l, long, entry) ==
    IF l.target_price # None THEN l.target_price
    ELSE IF l.target_bp = None THEN None
    ELSE IF long THEN entry + BpOf(entry, l.target_bp) ELSE entry - BpOf(entry, l.target_bp)

\* The stop sits on the losing side, at least twice the round trip away.
StopUsable(stop, long, entry) ==
    /\ stop > 0
    /\ IF long THEN stop < entry ELSE stop > entry
    /\ Distance(entry, stop) * BpScale >= CostBp * StopCostMultiple * entry

\* A target sits on the winning side, at least one round trip away.
TargetUsable(target, long, entry) ==
    target # None =>
        /\ IF long THEN target > entry ELSE target < entry
        /\ Distance(target, entry) * BpScale >= CostBp * entry

Resolves(l, long, entry) ==
    /\ entry > 0
    /\ HasStop(l)
    /\ StopUsable(StopOf(l, long, entry), long, entry)
    /\ TargetUsable(TargetOf(l, long, entry), long, entry)

Resolved(l, long, entry, now) ==
    [long |-> long, entry |-> entry,
     stop |-> StopOf(l, long, entry), target |-> TargetOf(l, long, entry),
     trail |-> l.trail_bp,
     time_stop |-> IF l.time_stop = None THEN None ELSE now + l.time_stop,
     high |-> entry]

-----------------------------------------------------------------------------
(* ExitPlan.trailed(), breached(), triggered(), arm_direction(). *)

\* The better of two prices for a position in this direction.
Better(long, a, b) == IF long THEN Higher(a, b) ELSE Lower(a, b)

\* Where the trail alone would put the stop for a given high-water mark.
TrailStop(long, high, trail) ==
    IF long THEN high - BpOf(high, trail) ELSE high + BpOf(high, trail)

Trailed(plan, price) ==
    IF plan.trail = None THEN plan
    ELSE LET high == Better(plan.long, plan.high, price)
         IN  [plan EXCEPT !.high = high,
                          !.stop = Better(plan.long, plan.stop,
                                          TrailStop(plan.long, high, plan.trail))]

StopHit(plan, price) ==
    IF plan.long THEN price <= plan.stop ELSE price >= plan.stop

TargetHit(plan, price) ==
    /\ plan.target # None
    /\ IF plan.long THEN price >= plan.target ELSE price <= plan.target

TimeHit(plan, now) == plan.time_stop # None /\ now >= plan.time_stop

\* breached(): which of the three fired only names the exit, the close is the same.
Breached(plan, price, now) ==
    StopHit(plan, price) \/ TargetHit(plan, price) \/ TimeHit(plan, now)

ArmDirection(trigger, price) ==
    IF trigger <= price THEN "at_or_below" ELSE "at_or_above"

Triggered(direction, trigger, price) ==
    IF direction = "at_or_below" THEN price <= trigger ELSE price >= trigger
=============================================================================
