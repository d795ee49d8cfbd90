--------------------------- MODULE FastLoopProofs ---------------------------
(***************************************************************************)
(* What holds of the two loops that trade one book, for every universe,    *)
(* menu of levels and feed.                                                *)
(***************************************************************************)
EXTENDS Enforcement, BookProofs, SequenceTheorems

-----------------------------------------------------------------------------
(* Levels. *)

\* What resolve() makes of levels that parse, and trailed() keeps: the prices of a
\* plan are above zero, and so is its trail.
PlanSound(p) ==
    /\ p \in PlanType
    /\ p.entry > 0 /\ p.stop > 0 /\ p.high > 0
    /\ p.trail # None => p.trail > 0

(* A distance in basis points, rounded down to a tick.                     *)
LEMMA BpOfFacts ==
    ASSUME NEW price \in Nat, NEW bp \in Nat
    PROVE  /\ BpOf(price, bp) \in Nat
           /\ BpScale * BpOf(price, bp) <= price * bp
           /\ price * bp < BpScale * (BpOf(price, bp) + 1)
  <1> DEFINE all == price * bp
  <1>1. all \in Nat /\ BpScale \in Nat \ {0}
    BY LevelsAssumption
  <1> HIDE DEF all
  <1>2. /\ all \div BpScale \in Nat
        /\ BpScale * (all \div BpScale) <= all
        /\ all < BpScale * (all \div BpScale + 1)
    BY <1>1
  <1> QED BY <1>2 DEF all, BpOf

(* The trailing stop of a long that is above zero only rises with the      *)
(* high-water mark: its trail is then less than the whole.                 *)
LEMMA LongTrailRises ==
    ASSUME NEW high \in Nat \ {0}, NEW more \in Nat, more >= high, NEW trail \in Nat,
           TrailStop(TRUE, high, trail) > 0
    PROVE  TrailStop(TRUE, more, trail) >= TrailStop(TRUE, high, trail)
  <1> DEFINE a == BpOf(high, trail)
             b == BpOf(more, trail)
             d == more - high
  <1>1. /\ a \in Nat /\ BpScale * a <= high * trail /\ high * trail < BpScale * (a + 1)
        /\ b \in Nat /\ BpScale * b <= more * trail /\ more * trail < BpScale * (b + 1)
    BY BpOfFacts
  <1>2. d \in Nat /\ more = high + d /\ BpScale \in Nat \ {0}
    BY LevelsAssumption
  <1>3. a < high
    BY <1>1 DEF TrailStop
  <1> HIDE DEF a, b, d
  <1>4. trail <= BpScale
    <2> SUFFICES ASSUME trail > BpScale PROVE FALSE
      BY <1>2
    <2>1. high * trail >= high * BpScale
      BY <1>2
    <2>2. a + 1 <= high
      BY <1>1, <1>3
    <2>3. BpScale * (a + 1) <= BpScale * high
      BY <1>1, <1>2, <2>2
    <2> QED BY <1>1, <1>2, <2>1, <2>3
  <1>5. d * trail <= d * BpScale
    BY <1>2, <1>4
  <1>6. more * trail = high * trail + d * trail
    BY <1>2
  <1>7. BpScale * b < BpScale * (a + 1 + d)
    <2>1. BpScale * (a + 1 + d) = BpScale * (a + 1) + d * BpScale
      BY <1>1, <1>2
    <2> QED BY <1>1, <1>2, <1>5, <1>6, <2>1
  <1>8. b < a + 1 + d
    BY <1>1, <1>2, <1>7
  <1>9. more - b >= high - a
    BY <1>1, <1>2, <1>8
  <1> QED BY <1>9 DEF TrailStop, a, b

(* That of a short only falls with its mark.                               *)
LEMMA ShortTrailFalls ==
    ASSUME NEW high \in Nat \ {0}, NEW less \in Nat, less <= high, NEW trail \in Nat
    PROVE  TrailStop(FALSE, less, trail) <= TrailStop(FALSE, high, trail)
  <1> DEFINE a == BpOf(high, trail)
             b == BpOf(less, trail)
  <1>1. /\ a \in Nat /\ BpScale * a <= high * trail /\ high * trail < BpScale * (a + 1)
        /\ b \in Nat /\ BpScale * b <= less * trail /\ less * trail < BpScale * (b + 1)
    BY BpOfFacts
  <1>2. BpScale \in Nat \ {0}
    BY LevelsAssumption
  <1> HIDE DEF a, b
  <1>3. less * trail <= high * trail
    BY ONLY less <= high, less \in Nat, high \in Nat, trail \in Nat
  <1>4. BpScale * b < BpScale * (a + 1)
    BY <1>1, <1>2, <1>3
  <1>5. b < a + 1
    BY <1>1, <1>2, <1>4
  <1> QED BY <1>1, <1>5 DEF TrailStop, a, b

(* trailed() keeps a plan sound and moves its stop only the one way.       *)
LEMMA TrailedSound ==
    ASSUME NEW p, PlanSound(p), NEW price \in Nat \ {0}
    PROVE  /\ PlanSound(Trailed(p, price))
           /\ Trailed(p, price).long = p.long /\ Trailed(p, price).trail = p.trail
           /\ ~Loosened(p, Trailed(p, price))
  <1>1. /\ p \in PlanType /\ p.long \in BOOLEAN
        /\ p.high \in Nat \ {0} /\ p.stop \in Nat \ {0} /\ p.entry \in Nat \ {0}
    BY DEF PlanSound, PlanType
  <1>2. CASE p.trail = None
    BY <1>1, <1>2 DEF Trailed, Loosened
  <1>3. CASE p.trail # None
    <2> DEFINE high == Better(p.long, p.high, price)
               dragged == TrailStop(p.long, high, p.trail)
               stop == Better(p.long, p.stop, dragged)
    <2>1. p.trail \in Nat \ {0}
      BY <1>1, <1>3 DEF PlanSound, PlanType, Optional
    <2>2. high \in Nat \ {0}
      BY <1>1 DEF Better, Higher, Lower
    <2>3. BpOf(high, p.trail) \in Nat
      BY <2>1, <2>2, BpOfFacts
    <2>4. dragged \in Int /\ (~p.long => dragged > 0)
      <3> HIDE DEF high
      <3> QED BY <2>2, <2>3 DEF TrailStop
    <2>5. stop \in Nat \ {0} /\ (IF p.long THEN stop >= p.stop ELSE stop <= p.stop)
      <3> HIDE DEF dragged
      <3> QED BY <1>1, <2>4 DEF Better, Higher, Lower
    <2> HIDE DEF high, dragged, stop
    <2>6. Trailed(p, price) = [p EXCEPT !.high = high, !.stop = stop]
      BY <1>3 DEF Trailed, high, dragged, stop
    <2>7. /\ Trailed(p, price) \in PlanType
          /\ Trailed(p, price).long = p.long /\ Trailed(p, price).trail = p.trail
          /\ Trailed(p, price).entry = p.entry
          /\ Trailed(p, price).high = high /\ Trailed(p, price).stop = stop
      <3>1. high \in Int /\ stop \in Int
        BY <2>2, <2>5
      <3> QED BY ONLY <1>1, <2>6, <3>1 DEF PlanType
    <2> QED BY <1>1, <2>1, <2>2, <2>5, <2>7 DEF PlanSound, Loosened
  <1> QED BY <1>2, <1>3

(* Levels that parse and resolve against a fill make a sound plan.         *)
LEMMA ResolvedSound ==
    ASSUME NEW l \in LevelsType, NEW long \in BOOLEAN, NEW entry \in Int, NEW t \in Nat,
           Resolves(l, long, entry), l.trail_bp # None => l.trail_bp > 0
    PROVE  /\ PlanSound(Resolved(l, long, entry, t))
           /\ Resolved(l, long, entry, t).long = long
           /\ Resolved(l, long, entry, t).trail = l.trail_bp
  <1> DEFINE p == Resolved(l, long, entry, t)
  <1>1. entry \in Nat \ {0} /\ HasStop(l)
    BY DEF Resolves
  <1>2. /\ l.stop_price \in Optional(Int) /\ l.stop_bp \in Optional(Nat)
        /\ l.target_price \in Optional(Int) /\ l.target_bp \in Optional(Nat)
        /\ l.trail_bp \in Optional(Int) /\ l.time_stop \in Optional(Int)
    BY DEF LevelsType
  <1>3. StopOf(l, long, entry) \in Int
    <2>1. l.stop_price = None => BpOf(entry, l.stop_bp) \in Nat
      BY <1>1, <1>2, BpOfFacts DEF HasStop, Optional
    <2> QED BY <1>2, <2>1 DEF StopOf, Optional
  <1>4. TargetOf(l, long, entry) \in Optional(Int)
    <2>1. l.target_bp # None => BpOf(entry, l.target_bp) \in Nat
      BY <1>1, <1>2, BpOfFacts DEF Optional
    <2> QED BY <1>2, <2>1 DEF TargetOf, Optional
  <1>5. StopOf(l, long, entry) > 0
    BY DEF Resolves, StopUsable
  <1>6. (IF l.time_stop = None THEN None ELSE t + l.time_stop) \in Optional(Int)
    BY <1>2 DEF Optional
  <1>7. p \in PlanType
    BY <1>1, <1>2, <1>3, <1>4, <1>6 DEF Resolved, PlanType
  <1>8. /\ p.entry = entry /\ p.high = entry /\ p.stop = StopOf(l, long, entry)
        /\ p.long = long /\ p.trail = l.trail_bp
    BY DEF Resolved
  <1> QED BY <1>1, <1>5, <1>7, <1>8 DEF PlanSound

(* A stop that is on its trail does not loosen when the same trail is      *)
(* applied again from a mark at least as good.                             *)
LEMMA OnTrailHolds ==
    ASSUME NEW p, PlanSound(p), OnTrail(p),
           NEW q, PlanSound(q), q.long = p.long, q.trail = p.trail,
           NEW price \in Nat \ {0},
           IF p.long THEN price >= p.high ELSE price <= p.high,
           q.high = price
    PROVE  ~Loosened(p, Trailed(q, price))
  <1>1. /\ p.long \in BOOLEAN /\ p.high \in Nat \ {0} /\ p.stop \in Nat \ {0}
        /\ p.trail \in Nat \ {0} /\ p.stop = TrailStop(p.long, p.high, p.trail)
        /\ q.stop \in Nat \ {0} /\ q \in PlanType
    BY DEF PlanSound, PlanType, Optional, OnTrail
  <1> DEFINE dragged == TrailStop(p.long, price, p.trail)
  <1>2. dragged \in Int
    <2>1. BpOf(price, p.trail) \in Nat
      BY <1>1, BpOfFacts
    <2> QED BY <2>1 DEF TrailStop
  <1>3. IF p.long THEN dragged >= p.stop ELSE dragged <= p.stop
    <2>1. CASE p.long = TRUE
      <3>1. TrailStop(TRUE, p.high, p.trail) > 0 /\ price >= p.high
        BY <1>1, <2>1 DEF TrailStop
      <3>2. TrailStop(TRUE, price, p.trail) >= TrailStop(TRUE, p.high, p.trail)
        BY <1>1, <3>1, LongTrailRises
      <3> QED BY <1>1, <2>1, <3>2
    <2>2. CASE p.long = FALSE
      BY <1>1, <2>2, ShortTrailFalls
    <2> QED BY <1>1, <2>1, <2>2
  <1> HIDE DEF dragged
  <1>4. Trailed(q, price).stop = Better(q.long, q.stop, dragged)
    <2>1. Better(q.long, q.high, price) = price
      BY DEF Better, Higher, Lower
    <2> QED BY <1>1, <2>1 DEF Trailed, PlanType, OnTrail, dragged
  <1> QED BY <1>1, <1>2, <1>3, <1>4 DEF Better, Higher, Lower, Loosened

(* protect(): a plan merged into the active one keeps its mark and trail,  *)
(* and never loosens a stop that its trail had dragged.                    *)
LEMMA MergedSound ==
    ASSUME NEW prior, prior = NoPlan \/ PlanSound(prior), NEW plan, PlanSound(plan)
    PROVE  /\ PlanSound(Merged(prior, plan))
           /\ prior # NoPlan /\ OnTrail(prior)
              /\ Merged(prior, plan).long = prior.long
              /\ Merged(prior, plan).trail = prior.trail
              => ~Loosened(prior, Merged(prior, plan))
  <1>1. CASE prior = NoPlan \/ prior.long # plan.long
    BY <1>1 DEF Merged
  <1>2. CASE prior # NoPlan /\ prior.long = plan.long
    <2> DEFINE high == Better(plan.long, prior.high, plan.high)
               trail == IF plan.trail # None THEN plan.trail ELSE prior.trail
               carried == [plan EXCEPT !.high = high, !.trail = trail]
    <2>1. /\ PlanSound(prior) /\ prior \in PlanType /\ plan \in PlanType
          /\ prior.high \in Nat \ {0} /\ plan.high \in Nat \ {0}
          /\ plan.long \in BOOLEAN
      BY <1>2 DEF PlanSound, PlanType
    <2>2. /\ high \in Nat \ {0}
          /\ IF prior.long THEN high >= prior.high ELSE high <= prior.high
      BY <1>2, <2>1 DEF Better, Higher, Lower
    <2>3. trail \in Optional(Int) /\ (trail # None => trail > 0)
      BY <2>1 DEF PlanSound, PlanType
    <2> HIDE DEF high, trail
    <2>4. /\ carried \in PlanType
          /\ carried.high = high /\ carried.trail = trail
          /\ carried.long = plan.long /\ carried.entry = plan.entry
          /\ carried.stop = plan.stop
      <3>1. high \in Int
        BY <2>2
      <3> QED BY ONLY <2>1, <2>3, <3>1 DEF PlanType
    <2>5. Merged(prior, plan) = Trailed(carried, carried.high)
      BY <1>2 DEF Merged, high, trail
    <2> HIDE DEF carried
    <2>6. PlanSound(carried)
      BY <2>2, <2>3, <2>4 DEF PlanSound
    <2>7. /\ PlanSound(Trailed(carried, high))
          /\ Trailed(carried, high).trail = trail
      BY <2>2, <2>4, <2>6, TrailedSound
    <2>8. OnTrail(prior) /\ trail = prior.trail => ~Loosened(prior, Trailed(carried, high))
      BY <1>2, <2>1, <2>2, <2>4, <2>6, OnTrailHolds
    <2> QED BY <2>4, <2>5, <2>7, <2>8
  <1> QED BY <1>1, <1>2

(* amend(): likewise for an amendment, which keeps the mark.               *)
LEMMA AmendedSound ==
    ASSUME now \in Nat, NEW plan, PlanSound(plan), NEW l \in LevelsType, Parses(l),
           Resolves(Stated(l, plan), plan.long, plan.entry)
    PROVE  /\ PlanSound(Amended(l, plan))
           /\ OnTrail(plan) /\ Amended(l, plan).trail = plan.trail
              => ~Loosened(plan, Amended(l, plan))
  <1> DEFINE stated == Stated(l, plan)
             new == Resolved(stated, plan.long, plan.entry, now)
             until == IF l.time_stop # None THEN new.time_stop ELSE plan.time_stop
             kept == [new EXCEPT !.high = plan.high, !.time_stop = until]
  <1>1. /\ plan \in PlanType /\ plan.high \in Nat \ {0} /\ plan.long \in BOOLEAN
        /\ plan.entry \in Int /\ plan.stop \in Int /\ plan.target \in Optional(Int)
        /\ plan.trail \in Optional(Int) /\ plan.time_stop \in Optional(Int)
        /\ plan.trail # None => plan.trail > 0
    BY DEF PlanSound, PlanType
  <1>2. /\ stated \in LevelsType
        /\ stated.trail_bp = (IF l.trail_bp # None THEN l.trail_bp ELSE plan.trail)
    <2> DEFINE trail == IF l.trail_bp # None THEN l.trail_bp ELSE plan.trail
               stop == IF HasStop(l) THEN l.stop_price ELSE plan.stop
               target == IF l.target_price # None \/ l.target_bp # None
                         THEN l.target_price ELSE plan.target
    <2>1. trail \in Optional(Int) /\ stop \in Optional(Int) /\ target \in Optional(Int)
      BY <1>1 DEF LevelsType, Optional
    <2>2. stated = [l EXCEPT !.trail_bp = trail, !.stop_price = stop, !.target_price = target]
      BY DEF Stated
    <2> HIDE DEF trail, stop, target, stated
    <2>3. stated \in LevelsType /\ stated.trail_bp = trail
      BY <2>1, <2>2 DEF LevelsType
    <2> QED BY <2>3 DEF trail
  <1>3. stated.trail_bp # None => stated.trail_bp > 0
    BY <1>1, <1>2 DEF Parses
  <1> HIDE DEF stated
  <1>4. /\ PlanSound(new) /\ new \in PlanType
        /\ new.long = plan.long /\ new.trail = stated.trail_bp
    BY <1>1, <1>2, <1>3, ResolvedSound DEF PlanSound, stated
  <1> HIDE DEF new
  <1>5. until \in Optional(Int)
    BY <1>1, <1>4 DEF PlanType
  <1> HIDE DEF until
  <1>6. /\ kept \in PlanType
        /\ kept.high = plan.high /\ kept.long = new.long /\ kept.trail = new.trail
        /\ kept.entry = new.entry /\ kept.stop = new.stop
    BY <1>1, <1>4, <1>5 DEF PlanType
  <1>7. Amended(l, plan) = Trailed(kept, kept.high)
    BY DEF Amended, kept, until, new, stated
  <1> HIDE DEF kept
  <1>8. PlanSound(kept)
    BY <1>1, <1>4, <1>6 DEF PlanSound
  <1>9. /\ PlanSound(Trailed(kept, plan.high))
        /\ Trailed(kept, plan.high).trail = kept.trail
    BY <1>1, <1>8, TrailedSound
  <1>10. OnTrail(plan) /\ kept.trail = plan.trail
            => ~Loosened(plan, Trailed(kept, plan.high))
    BY <1>1, <1>4, <1>6, <1>8, OnTrailHolds
  <1> QED BY <1>6, <1>7, <1>9, <1>10

-----------------------------------------------------------------------------
(* Orders. *)

(* An order of either loop is a step of the book, and moves one position   *)
(* to where the risk check projected it.                                   *)
LEMMA LoopOrder ==
    ASSUME BookTypeOK, NEW o \in OrderType, NEW canOpen \in BOOLEAN,
           NEW isHalted \in BOOLEAN,
           Submit(o, canOpen, isHalted), UNCHANGED <<quotes, killed>>
    PROVE  /\ Deal
           /\ FillPrice(o.side, quotes[o.sym]) \in Nat
           /\ Projected(o) \in Int /\ pos'[o.sym].qty = Projected(o)
           /\ \A t \in Symbols \ {o.sym} : pos'[t] = pos[t]
           /\ faults' = faults \/ faults' > 0
  <1>1. /\ o.sym \in Symbols /\ o.side \in Sides /\ o.qty \in Nat \ {0}
        /\ o = [sym |-> o.sym, side |-> o.side, qty |-> o.qty]
    BY DEF OrderType
  <1>2. Deal
    BY <1>1 DEF Deal
  <1> DEFINE price == FillPrice(o.side, quotes[o.sym])
  <1>3. /\ price \in Nat /\ Signed(o) \in Int \ {0}
        /\ OrderBooked(o.sym, Signed(o), price)
    BY <1>1, AnOrderIsBooked
  <1> HIDE DEF price
  <1>4. /\ pos'[o.sym].qty = pos[o.sym].qty + Signed(o)
        /\ \A t \in Symbols \ {o.sym} : pos'[t] = pos[t]
    BY <1>1, <1>3, OrderMovesOne
  <1>5. pos[o.sym].qty \in Int
    BY <1>1 DEF BookTypeOK, PositionType
  <1>6. faults' = faults \/ faults' > 0
    BY <1>3, BookAssumption DEF OrderBooked, CommitRows, WriteRaises, BookTypeOK
  <1> QED BY <1>2, <1>3, <1>4, <1>5, <1>6 DEF Projected, price

(* An order that may not open, or in a halted session, only reduces.       *)
LEMMA OnlyReduces ==
    ASSUME NEW o, NEW canOpen, NEW isHalted, Accepts(o, canOpen, isHalted),
           ~canOpen \/ isHalted
    PROVE  Magnitude(Projected(o)) < Magnitude(pos[o.sym].qty)
  BY DEF Accepts, MayIncrease, Reducing

(* A close carries the size of the position.  If the plan faces the other  *)
(* way it would double it, and the risk check refuses.                     *)
LEMMA CloseFlattens ==
    ASSUME BookTypeOK, NEW s \in Symbols, ~IsFlat(s)
    PROVE  /\ CloseOrder(s) \in OrderType /\ CloseOrder(s).sym = s
           /\ Accepts(CloseOrder(s), FALSE, halted) => Projected(CloseOrder(s)) = 0
  <1> DEFINE o == CloseOrder(s)
             n == pos[s].qty
  <1>1. n \in Int /\ n # 0
    BY DEF BookTypeOK, PositionType, IsFlat
  <1>2. Magnitude(n) \in Nat \ {0}
    BY <1>1, MagnitudeFacts
  <1>3. o.sym = s /\ o.side \in Sides /\ o.qty = Magnitude(n)
    BY DEF CloseOrder, Sides
  <1>4. o \in OrderType
    BY <1>2, <1>3 DEF OrderType, CloseOrder, Sides
  <1>5. Accepts(o, FALSE, halted) => Magnitude(Projected(o)) < Magnitude(n)
    BY <1>3, OnlyReduces
  <1>6. Projected(o) = n + Magnitude(n) \/ Projected(o) = n - Magnitude(n)
    BY <1>1, <1>2, <1>3 DEF Projected, Signed
  <1> HIDE DEF o
  <1>7. Accepts(o, FALSE, halted) => Projected(o) = 0
    BY <1>1, <1>5, <1>6 DEF Magnitude
  <1> QED BY <1>3, <1>4, <1>7 DEF o

(* Selling a clip back is the same order with the sides exchanged.         *)
LEMMA UnwindOrder ==
    ASSUME NEW o \in OrderType
    PROVE  /\ [o EXCEPT !.side = Opposite(@)] \in OrderType
           /\ [o EXCEPT !.side = Opposite(@)].sym = o.sym
           /\ Signed([o EXCEPT !.side = Opposite(@)]) = -Signed(o)
  BY DEF OrderType, Sides, Opposite, Signed

-----------------------------------------------------------------------------
(* The invariant. *)

\* FastLoop's steps, and the close whose rows are not all written.
LoopStep == FastNext \/ \E s \in Symbols : FireUnrecorded(s)

\* Plans are sound and what is on its way to become one has parsed; a pass has
\* only active plans, or waiting entries, still to visit.
DeskSound ==
    /\ \A s \in Symbols : Watched(s) => PlanSound(plans[s])
    /\ \A i \in DOMAIN entries : Parses(entries[i].levels) /\ i <= Len(armedFills)
    /\ phase = "protect" => Parses(opened.levels)
    /\ phase = "plans" => todo \subseteq {s \in Symbols : Watched(s)}
    /\ phase = "entries" \/ (phase = "protect" /\ opened.back = "entries")
          => todo \subseteq DOMAIN entries

LoopInv == FastTypeOK /\ DeskSound

(* Every step of the loops is a step of the book: none touches it but by   *)
(* an order, and an order of an enforcement pass takes a position to flat. *)
LEMMA LoopDrivesBook ==
    ASSUME LoopInv, [LoopStep]_fastVars
    PROVE  \/ UNCHANGED bookVars /\ [BookStep]_vars
           \/ \E o \in OrderType, canOpen \in BOOLEAN :
                 /\ Submit(o, canOpen, halted) /\ UNCHANGED <<quotes, killed>>
                 /\ phase = "plans" => Projected(o) = 0
  <1> DEFINE Books(o, canOpen) == Submit(o, canOpen, halted) /\ UNCHANGED <<quotes, killed>>
             Goal == \/ UNCHANGED bookVars /\ [BookStep]_vars
                     \/ \E o \in OrderType, canOpen \in BOOLEAN :
                           Books(o, canOpen) /\ (phase = "plans" => Projected(o) = 0)
  <1> SUFFICES Goal
    OBVIOUS
  <1>a. UNCHANGED vars => Goal
    BY DEF vars
  <1>b. ASSUME NEW o \in OrderType, NEW canOpen \in BOOLEAN, Books(o, canOpen),
               phase = "plans" => Projected(o) = 0
        PROVE  Goal
    BY <1>b
  <1> HIDE DEF Goal
  <1>c. Orders \subseteq OrderType
    BY BookAssumption DEF Orders, OrderType
  <1>d. BookTypeOK
    BY DEF LoopInv, FastTypeOK
  <1>e. ASSUME NEW s \in Symbols, ~IsFlat(s), Books(CloseOrder(s), FALSE) PROVE Goal
    <2>1. /\ CloseOrder(s) \in OrderType
          /\ Accepts(CloseOrder(s), FALSE, halted) => Projected(CloseOrder(s)) = 0
      BY <1>d, <1>e, CloseFlattens
    <2> QED BY <1>b, <1>e, <2>1 DEF Submit
  <1>1. CASE \/ Decide \/ (\E s \in Symbols, l \in AmendLevels : Amend(s, l))
             \/ EndExits \/ (\E o \in Orders, l \in OpenLevels : Arm(o, l)) \/ EndOrders
             \/ Halt \/ ModelUnavailable \/ PassBegin \/ PlansDone \/ PassEnd \/ Tick
             \/ UNCHANGED fastVars
    BY <1>1, <1>a DEF Decide, Amend, EndExits, Arm, EndOrders, Halt, ModelUnavailable,
                      PassBegin, PlansDone, PassEnd, Tick, fastVars
  <1>2. ASSUME NEW o \in Orders, PlaceReduce(o) PROVE Goal
    BY <1>b, <1>c, <1>2 DEF PlaceReduce
  <1>3. ASSUME NEW o \in Orders, NEW l \in OpenLevels, PlaceOpen(o, l) PROVE Goal
    BY <1>b, <1>c, <1>3 DEF PlaceOpen, Placeable, OpenAndProtect
  <1>4. CASE Protect
    <2>1. CASE Attach
      BY <1>4, <2>1, <1>a DEF Protect, Attach, vars
    <2>2. CASE Unwind
      <3> DEFINE o == [opened.order EXCEPT !.side = Opposite(@)]
      <3>1. o \in OrderType
        BY <1>4, UnwindOrder DEF Protect, LoopInv, FastTypeOK, OpenedType
      <3>2. Submit(o, FALSE, halted) \/ UNCHANGED bookVars
        BY <2>2 DEF Unwind
      <3> HIDE DEF o
      <3> QED BY <1>4, <1>a, <1>b, <3>1, <3>2 DEF Protect, vars
    <2> QED BY <1>4, <2>1, <2>2 DEF Protect
  <1>5. CASE EnforcePlan
    <2>1. PICK s \in todo : ClosePlan(s) \/ Fire(s) \/ DragTrail(s) \/ SkipUnpriced(s)
      BY <1>5 DEF EnforcePlan
    <2>2. s \in Symbols
      BY <1>5 DEF EnforcePlan, LoopInv, DeskSound
    <2>3. CASE ClosePlan(s) \/ DragTrail(s) \/ SkipUnpriced(s)
      BY <1>5, <2>3, <1>a DEF EnforcePlan, ClosePlan, DragTrail, SkipUnpriced, vars
    <2>4. CASE Fire(s)
      <3>1. Submit(CloseOrder(s), FALSE, halted) \/ UNCHANGED bookVars
        BY <2>4 DEF Fire
      <3> QED BY <1>5, <1>a, <1>e, <2>2, <2>4, <3>1
              DEF EnforcePlan, Fire, BreachedNow, Enforceable, vars
    <2> QED BY <2>1, <2>3, <2>4
  <1>6. CASE CheckEntry
    <2>1. PICK i \in todo : DropEntry(i) \/ KeepWaiting(i) \/ FillArmed(i)
      BY <1>6 DEF CheckEntry
    <2>2. CASE DropEntry(i) \/ KeepWaiting(i)
      BY <1>6, <2>2, <1>a DEF CheckEntry, DropEntry, KeepWaiting, vars
    <2>3. CASE FillArmed(i)
      <3>1. entries[i].order \in OrderType
        BY <1>6 DEF CheckEntry, LoopInv, DeskSound, FastTypeOK, EntryType
      <3> QED BY <1>6, <1>b, <2>3, <3>1 DEF CheckEntry, FillArmed
    <2> QED BY <2>1, <2>2, <2>3
  <1>7. CASE NewQuotes \/ KillFile
    BY <1>7 DEF NewQuotes, KillFile, BookStep, Goal
  <1>8. ASSUME NEW s \in Symbols, FireUnrecorded(s) PROVE Goal
    BY <1>e, <1>8 DEF FireUnrecorded, BreachedNow, Enforceable
  <1> QED
    BY <1>1, <1>2, <1>3, <1>4, <1>5, <1>6, <1>7, <1>8
       DEF LoopStep, FastNext, Decision, Pass, World

LEMMA LoopStepsBook == LoopInv /\ [LoopStep]_fastVars => [BookStep]_vars
  BY LoopDrivesBook, LoopOrder DEF LoopInv, FastTypeOK, BookStep

(* What an order is protected with is a sound plan.                        *)
LEMMA ProtectedSound ==
    ASSUME LoopInv, phase = "protect", Protectable
    PROVE  PlanSound(Resolved(opened.levels, opened.order.side = "buy", ProtectEntry, now))
  <1>1. /\ opened.order.sym \in Symbols /\ opened.price \in Int
        /\ opened.levels \in LevelsType /\ now \in Nat
        /\ Parses(opened.levels)
    BY FastLoopAssumption
       DEF LoopInv, FastTypeOK, DeskSound, OpenedType, OrderType
  <1>2. ProtectEntry \in Int
    <2> DEFINE s == opened.order.sym
    <2>1. ~IsFlat(s) => AvgPrice(s) \in Int
      <3>1. pos[s].cost \in Int /\ pos[s].qty \in Int
        BY <1>1 DEF LoopInv, FastTypeOK, BookTypeOK, PositionType
      <3>2. Magnitude(pos[s].cost) \in Nat
        BY <3>1, MagnitudeFacts
      <3>3. ~IsFlat(s) => Magnitude(pos[s].qty) \in Nat \ {0}
        BY <3>1, MagnitudeFacts DEF IsFlat
      <3> QED BY <3>2, <3>3, RoundingDown DEF AvgPrice
    <2> QED BY <1>1, <2>1 DEF ProtectEntry
  <1>3. (opened.order.side = "buy") \in BOOLEAN
    OBVIOUS
  <1>4. opened.levels.trail_bp # None => opened.levels.trail_bp > 0
    BY <1>1 DEF Parses
  <1> QED BY <1>1, <1>2, <1>3, <1>4, ResolvedSound DEF Protectable

LEMMA PlansStep ==
    ASSUME LoopInv, [LoopStep]_fastVars
    PROVE  /\ plans' \in [Symbols -> PlanType \cup {NoPlan}]
           /\ \A s \in Symbols : plans'[s] # NoPlan => PlanSound(plans'[s])
  <1> DEFINE Kept(f) == /\ f \in [Symbols -> PlanType \cup {NoPlan}]
                        /\ \A s \in Symbols : f[s] # NoPlan => PlanSound(f[s])
  <1>a. Kept(plans)
    BY DEF LoopInv, FastTypeOK, DeskSound, Watched
  <1>b. ASSUME NEW s \in Symbols, NEW p, p = NoPlan \/ PlanSound(p)
        PROVE  Kept([plans EXCEPT ![s] = p])
    <2>1. p \in PlanType \cup {NoPlan}
      BY <1>b DEF PlanSound
    <2> QED BY <1>a, <1>b, <2>1
  <1> SUFFICES Kept(plans')
    OBVIOUS
  <1> HIDE DEF Kept
  <1>1. CASE \/ Decide \/ EndExits \/ (\E o \in Orders : PlaceReduce(o))
             \/ (\E o \in Orders, l \in OpenLevels : PlaceOpen(o, l) \/ Arm(o, l))
             \/ EndOrders \/ Halt \/ ModelUnavailable \/ PassBegin \/ PlansDone
             \/ CheckEntry \/ PassEnd \/ World \/ UNCHANGED fastVars
    BY <1>1, <1>a
       DEF Decide, EndExits, PlaceReduce, PlaceOpen, Arm, EndOrders, Halt,
           ModelUnavailable, PassBegin, PlansDone, CheckEntry, DropEntry, KeepWaiting,
           FillArmed, PassEnd, World, Tick, NewQuotes, KillFile, deskVars, fastVars
  <1>2. ASSUME NEW s \in Symbols, NEW l \in AmendLevels, Amend(s, l)
        PROVE  Kept(plans')
    <2>1. PlanSound(plans[s]) /\ l \in LevelsType /\ now \in Nat
      BY <1>2, FastLoopAssumption DEF Amend, LoopInv, DeskSound, FastTypeOK
    <2>2. PlanSound(Amended(l, plans[s]))
      BY <1>2, <2>1, AmendedSound DEF Amend
    <2> QED BY <1>2, <1>b, <2>2 DEF Amend
  <1>3. CASE Protect
    <2>1. CASE Attach
      <3> DEFINE s == opened.order.sym
                 plan == Resolved(opened.levels, opened.order.side = "buy", ProtectEntry, now)
      <3>1. s \in Symbols /\ (plans[s] = NoPlan \/ PlanSound(plans[s]))
        BY <1>3 DEF Protect, LoopInv, DeskSound, FastTypeOK, OpenedType, OrderType, Watched
      <3>2. PlanSound(plan)
        BY <1>3, <2>1, ProtectedSound DEF Protect, Attach
      <3>3. plans' = [plans EXCEPT ![s] = Merged(plans[s], plan)]
        BY <2>1 DEF Attach
      <3> HIDE DEF s, plan
      <3> QED BY <1>b, <3>1, <3>2, <3>3, MergedSound
    <2>2. CASE Unwind
      BY <1>a, <2>2 DEF Unwind
    <2> QED BY <1>3, <2>1, <2>2 DEF Protect
  <1>4. CASE EnforcePlan
    <2>1. PICK s \in todo : ClosePlan(s) \/ Fire(s) \/ DragTrail(s) \/ SkipUnpriced(s)
      BY <1>4 DEF EnforcePlan
    <2>2. s \in Symbols /\ PlanSound(plans[s])
      BY <1>4 DEF EnforcePlan, LoopInv, DeskSound
    <2>3. CASE DragTrail(s)
      <3>1. quotes[s].last \in Nat \ {0}
        BY <2>2, <2>3, BookAssumption
           DEF DragTrail, Enforceable, Tradeable, LoopInv, FastTypeOK, BookTypeOK, QuoteType
      <3>2. PlanSound(Trailed(plans[s], quotes[s].last))
        BY <2>2, <3>1, TrailedSound
      <3> QED BY <1>b, <2>2, <2>3, <3>2 DEF DragTrail
    <2>4. plans' = plans \/ plans' = [plans EXCEPT ![s] = NoPlan] \/ DragTrail(s)
      BY <2>1 DEF ClosePlan, Fire, SkipUnpriced, deskVars
    <2> QED BY <1>a, <1>b, <2>2, <2>3, <2>4
  <1>5. ASSUME NEW s \in Symbols, FireUnrecorded(s) PROVE Kept(plans')
    BY <1>a, <1>b, <1>5 DEF FireUnrecorded
  <1> QED
    BY <1>1, <1>2, <1>3, <1>4, <1>5 DEF LoopStep, FastNext, Decision, Pass

\* The waiting entries, and the count of fills each has had.
EntriesSound(rows, counts) ==
    /\ DOMAIN rows \subseteq EntryIds
    /\ \A i \in DOMAIN rows : /\ rows[i] \in EntryType /\ Parses(rows[i].levels)
                              /\ i <= Len(counts)
    /\ counts \in Seq(Nat) /\ Len(counts) <= MaxEntries

LEMMA EntriesStep ==
    ASSUME LoopInv, [LoopStep]_fastVars
    PROVE  EntriesSound(entries', armedFills')
  <1>a. EntriesSound(entries, armedFills)
    BY DEF LoopInv, FastTypeOK, DeskSound, EntriesSound
  <1>b. ASSUME NEW keys PROVE EntriesSound(Without(entries, keys), armedFills)
    BY <1>a DEF EntriesSound, Without
  <1>1. CASE Decide
    BY <1>1, <1>b DEF Decide
  <1>2. ASSUME NEW o \in Orders, NEW l \in OpenLevels, Arm(o, l)
        PROVE  EntriesSound(entries', armedFills')
    <2> DEFINE id == Len(armedFills) + 1
               row == [order |-> o, trigger |-> l.trigger_price, levels |-> l,
                       direction |-> ArmDirection(l.trigger_price, quotes[o.sym].last),
                       expires |-> IF l.valid = None THEN StopOpening
                                   ELSE Lower(StopOpening, now + l.valid)]
    <2>1. id \in EntryIds /\ id <= MaxEntries /\ Parses(l)
      BY <1>2, <1>a DEF Arm, EntryIds, Placeable, EntriesSound
    <2>2. row \in EntryType
      <3>1. o \in OrderType
        BY BookAssumption DEF Orders, OrderType
      <3>2. l.trigger_price \in Int /\ l.valid \in Optional(Int)
        BY <1>2, FastLoopAssumption DEF Arm, Waits, LevelsType, Optional
      <3>3. row.expires \in 0..StopOpening
        BY <2>1, <3>2, FastLoopAssumption
           DEF Parses, Lower, LoopInv, FastTypeOK, Optional
      <3>4. row.direction \in {"at_or_below", "at_or_above"}
        BY DEF ArmDirection
      <3> QED BY <3>1, <3>2, <3>3, <3>4 DEF EntryType
    <2>3. /\ entries' = [k \in DOMAIN entries \cup {id} |->
                            IF k = id THEN row ELSE entries[k]]
          /\ armedFills' = Append(armedFills, 0)
      BY <1>2 DEF Arm
    <2>4. /\ armedFills' \in Seq(Nat) /\ Len(armedFills') = id
          /\ Len(armedFills) \in Nat
      BY <1>a, <2>3, AppendProperties, LenProperties DEF EntriesSound
    <2>5. row.levels = l
      OBVIOUS
    <2> HIDE DEF id, row
    <2> QED BY <1>a, <2>1, <2>2, <2>3, <2>4, <2>5 DEF EntriesSound, EntryIds
  <1>3. CASE CheckEntry
    <2>1. PICK i \in todo : DropEntry(i) \/ KeepWaiting(i) \/ FillArmed(i)
      BY <1>3 DEF CheckEntry
    <2>2. CASE DropEntry(i) \/ KeepWaiting(i)
      BY <1>a, <1>b, <2>2 DEF DropEntry, KeepWaiting, deskVars
    <2>3. CASE FillArmed(i)
      <3>1. i \in DOMAIN entries /\ i \in 1..Len(armedFills)
        BY <1>3, <1>a DEF CheckEntry, LoopInv, DeskSound, EntriesSound, EntryIds
      <3>2. armedFills[i] + 1 \in Nat /\ armedFills \in Seq(Nat)
        BY <1>a, <3>1, ElementOfSeq DEF EntriesSound
      <3>3. armedFills' = [armedFills EXCEPT ![i] = armedFills[i] + 1]
        BY <2>3 DEF FillArmed
      <3>4. armedFills' \in Seq(Nat) /\ Len(armedFills') = Len(armedFills)
        BY <3>1, <3>2, <3>3, ExceptSeq
      <3>5. entries' = entries \/ entries' = Without(entries, {i})
        BY <2>3 DEF FillArmed
      <3> QED BY <1>a, <1>b, <3>4, <3>5 DEF EntriesSound
    <2> QED BY <2>1, <2>2, <2>3
  <1>4. CASE UNCHANGED <<entries, armedFills>>
    BY <1>a, <1>4
  <1>5. CASE \/ (\E s \in Symbols, l \in AmendLevels : Amend(s, l)) \/ EndExits \/ EndOrders
             \/ (\E o \in Orders : PlaceReduce(o))
             \/ (\E o \in Orders, l \in OpenLevels : PlaceOpen(o, l))
             \/ Protect \/ Halt \/ ModelUnavailable
             \/ PassBegin \/ EnforcePlan \/ PlansDone \/ PassEnd \/ World
             \/ (\E s \in Symbols : FireUnrecorded(s)) \/ UNCHANGED fastVars
    <2>1. UNCHANGED <<entries, armedFills>>
      BY <1>5
         DEF Amend, EndExits, EndOrders, PlaceReduce, PlaceOpen, Protect, Attach, Unwind,
             Halt, ModelUnavailable, PassBegin, EnforcePlan, ClosePlan, Fire, DragTrail,
             SkipUnpriced, PlansDone, PassEnd, World, Tick, NewQuotes, KillFile,
             FireUnrecorded, deskVars, fastVars
    <2> QED BY <1>4, <2>1
  <1> QED
    BY <1>1, <1>2, <1>3, <1>5 DEF LoopStep, FastNext, Decision, Pass

LEMMA OpenedIsSome == ASSUME NEW x \in OpenedType PROVE x # NoFill
  BY DEF OpenedType, NoFill

\* The handler that runs, and the fill that it has to protect.
HandlerSound(p, fill) ==
    /\ p \in Phases
    /\ p = "protect" <=> fill # NoFill
    /\ p = "protect" => fill \in OpenedType /\ Parses(fill.levels)

LEMMA HandlerStep ==
    ASSUME LoopInv, [LoopStep]_fastVars
    PROVE  HandlerSound(phase', opened')
  <1>a. HandlerSound(phase, opened)
    BY DEF LoopInv, FastTypeOK, DeskSound, HandlerSound
  <1>b. BookTypeOK /\ halted \in BOOLEAN
    BY DEF LoopInv, FastTypeOK
  <1>c. ASSUME NEW p \in Phases \ {"protect"}, phase' = p, opened' = NoFill
        PROVE  HandlerSound(phase', opened')
    BY <1>c DEF HandlerSound
  <1>1. CASE AbandonPass
    BY <1>1, <1>c DEF AbandonPass, Phases
  <1>2. ASSUME NEW p \in {"idle", "orders", "entries"}, GoOn(p)
        PROVE  HandlerSound(phase', opened')
    BY <1>2, <1>c DEF GoOn, Phases
  <1>3. CASE UNCHANGED <<phase, opened>>
    BY <1>3, <1>a
  <1>4. CASE UNCHANGED opened /\ phase # "protect" /\ phase' \in Phases \ {"protect"}
    BY <1>4, <1>a DEF HandlerSound
  <1>5. ASSUME NEW o \in OrderType, NEW price \in Int, NEW l \in OpenLevels, Parses(l),
               NEW back \in {"orders", "entries"}, phase' = "protect",
               opened' = [order |-> o, price |-> price, levels |-> l, back |-> back]
        PROVE  HandlerSound(phase', opened')
    <2>1. opened' \in OpenedType /\ opened'.levels = l
      BY <1>5 DEF OpenedType
    <2> QED BY <1>5, <2>1, OpenedIsSome DEF HandlerSound, Phases
  <1>6. CASE \/ Decide \/ (\E s \in Symbols, l \in AmendLevels : Amend(s, l)) \/ EndExits
             \/ EndOrders \/ (\E o \in Orders, l \in OpenLevels : Arm(o, l))
             \/ Halt \/ ModelUnavailable \/ PassBegin \/ PlansDone \/ PassEnd \/ World
             \/ UNCHANGED fastVars
    BY <1>6, <1>2, <1>3, <1>4
       DEF Decide, Amend, EndExits, EndOrders, Arm, Halt, ModelUnavailable, PassBegin,
           PlansDone, PassEnd, World, Tick, NewQuotes, KillFile, loopVars, fastVars, Phases
  <1>7. ASSUME NEW o \in Orders, PlaceReduce(o) PROVE HandlerSound(phase', opened')
    <2>1. AbandonPass \/ GoOn("orders")
      BY <1>7 DEF PlaceReduce, Continue, AbandonDecision
    <2> QED BY <1>1, <1>2, <2>1
  <1>8. ASSUME NEW o \in Orders, NEW l \in OpenLevels, PlaceOpen(o, l)
        PROVE  HandlerSound(phase', opened')
    <2>1. o \in OrderType /\ Parses(l)
      BY <1>8, BookAssumption DEF Orders, OrderType, PlaceOpen, Placeable
    <2>2. FillPrice(o.side, quotes[o.sym]) \in Int
      <3>1. Submit(o, TRUE, halted) /\ UNCHANGED <<quotes, killed>>
        BY <1>8 DEF PlaceOpen, OpenAndProtect
      <3>2. FillPrice(o.side, quotes[o.sym]) \in Nat
        BY ONLY <1>b, <2>1, <3>1, LoopOrder
      <3> QED BY <3>2
    <2>3. \/ AbandonPass
          \/ /\ phase' = "protect"
             /\ opened' = [order |-> o, price |-> FillPrice(o.side, quotes[o.sym]),
                           levels |-> l, back |-> "orders"]
      BY <1>8 DEF PlaceOpen, OpenAndProtect, Continue, AbandonDecision
    <2> QED BY <1>1, <1>5, <2>1, <2>2, <2>3
  <1>9. CASE Protect
    <2>1. opened.back \in {"orders", "entries"}
      BY <1>9, <1>a DEF Protect, HandlerSound, OpenedType
    <2>2. AbandonPass \/ GoOn(opened.back)
      BY <1>9 DEF Protect, Attach, Unwind, Continue, AbandonDecision
    <2> QED BY <1>1, <1>2, <2>1, <2>2
  <1>10. CASE EnforcePlan
    <2>1. AbandonPass \/ UNCHANGED <<phase, opened>>
      BY <1>10 DEF EnforcePlan, ClosePlan, Fire, DragTrail, SkipUnpriced, Continue
    <2> QED BY <1>1, <1>3, <2>1
  <1>11. CASE CheckEntry
    <2>1. PICK i \in todo : DropEntry(i) \/ KeepWaiting(i) \/ FillArmed(i)
      BY <1>11 DEF CheckEntry
    <2>2. CASE DropEntry(i) \/ KeepWaiting(i)
      BY <1>3, <2>2 DEF DropEntry, KeepWaiting
    <2>3. CASE FillArmed(i)
      <3> DEFINE o == entries[i].order
                 l == entries[i].levels
      <3>1. o \in OrderType /\ l \in OpenLevels /\ Parses(l)
        BY <1>11 DEF CheckEntry, LoopInv, FastTypeOK, DeskSound, EntryType
      <3>2. FillPrice(o.side, quotes[o.sym]) \in Int
        <4>1. Submit(o, TRUE, halted) /\ UNCHANGED <<quotes, killed>>
          BY <1>11, <2>3 DEF CheckEntry, FillArmed
        <4>2. FillPrice(o.side, quotes[o.sym]) \in Nat
          <5> HIDE DEF o
          <5>1. PICK c \in BOOLEAN : Submit(o, c, halted)
            BY <4>1
          <5> QED BY <1>b, <3>1, <4>1, <5>1, LoopOrder
        <4> QED BY <4>2
      <3>3. \/ AbandonPass
            \/ /\ phase' = "protect"
               /\ opened' = [order |-> o, levels |-> l,
                             price |-> FillPrice(o.side, quotes[o.sym]),
                             back |-> "entries"]
        BY <2>3 DEF FillArmed, Continue
      <3> HIDE DEF o, l
      <3> QED BY <1>1, <1>5, <3>1, <3>2, <3>3
    <2> QED BY <2>1, <2>2, <2>3
  <1>12. ASSUME NEW s \in Symbols, FireUnrecorded(s) PROVE HandlerSound(phase', opened')
    BY <1>1, <1>12 DEF FireUnrecorded
  <1> QED
    BY <1>6, <1>7, <1>8, <1>9, <1>10, <1>11, <1>12
       DEF LoopStep, FastNext, Decision, Pass

LEMMA TodoStep ==
    ASSUME LoopInv, [LoopStep]_fastVars
    PROVE  /\ todo' \subseteq Symbols \cup EntryIds
           /\ phase' = "plans" => todo' \subseteq {s \in Symbols : plans'[s] # NoPlan}
           /\ phase' = "entries" \/ (phase' = "protect" /\ opened'.back = "entries")
                => todo' \subseteq DOMAIN entries'
  <1> DEFINE Goal ==
           /\ todo' \subseteq Symbols \cup EntryIds
           /\ phase' = "plans" => todo' \subseteq {s \in Symbols : plans'[s] # NoPlan}
           /\ phase' = "entries" \/ (phase' = "protect" /\ opened'.back = "entries")
                => todo' \subseteq DOMAIN entries'
  <1> SUFFICES Goal
    OBVIOUS
  <1>a. /\ todo \subseteq Symbols \cup EntryIds
        /\ phase = "plans" => todo \subseteq {s \in Symbols : plans[s] # NoPlan}
        /\ phase = "entries" \/ (phase = "protect" /\ opened.back = "entries")
             => todo \subseteq DOMAIN entries
        /\ DOMAIN entries \subseteq EntryIds
        /\ plans \in [Symbols -> PlanType \cup {NoPlan}]
    BY DEF LoopInv, FastTypeOK, DeskSound, Watched
  <1>1. CASE AbandonPass
    BY <1>1 DEF AbandonPass
  <1>2. CASE UNCHANGED todo /\ phase' \in {"idle", "exits", "orders"}
    BY <1>2, <1>a
  <1>3. CASE UNCHANGED <<todo, phase, opened, plans, entries>>
    BY <1>3, <1>a
  <1>4. CASE \/ Decide \/ EndExits \/ EndOrders \/ Halt \/ ModelUnavailable
             \/ (\E s \in Symbols, l \in AmendLevels : Amend(s, l))
             \/ (\E o \in Orders : PlaceReduce(o))
             \/ (\E o \in Orders, l \in OpenLevels : Arm(o, l))
             \/ PassEnd \/ World \/ UNCHANGED fastVars
    BY <1>4, <1>1, <1>2, <1>3
       DEF Decide, EndExits, EndOrders, GoOn, Halt, ModelUnavailable, Amend, PlaceReduce,
           Continue, AbandonDecision, Arm, Placeable, PassEnd, World, Tick, NewQuotes,
           KillFile, loopVars, deskVars, fastVars
  <1> HIDE DEF Goal
  <1>5. ASSUME NEW o \in Orders, NEW l \in OpenLevels, PlaceOpen(o, l) PROVE Goal
    <2>1. AbandonPass \/ (/\ UNCHANGED todo /\ phase' = "protect"
                          /\ opened'.back = "orders")
      BY <1>5 DEF PlaceOpen, OpenAndProtect, Continue, AbandonDecision
    <2> QED BY <1>1, <1>a, <2>1 DEF Goal
  <1>6. CASE Protect
    <2>1. opened.back \in {"orders", "entries"} /\ UNCHANGED entries
      BY <1>6 DEF Protect, Attach, Unwind, LoopInv, FastTypeOK, OpenedType
    <2>2. AbandonPass \/ (phase' = opened.back /\ UNCHANGED todo)
      BY <1>6 DEF Protect, Attach, Unwind, Continue, AbandonDecision, GoOn
    <2> QED BY <1>1, <1>6, <1>a, <2>1, <2>2 DEF Protect, Goal
  <1>7. CASE PassBegin \/ PlansDone
    BY <1>7, <1>a DEF PassBegin, PlansDone, deskVars, Watched, Goal
  <1>8. CASE EnforcePlan
    <2>1. PICK s \in todo : ClosePlan(s) \/ Fire(s) \/ DragTrail(s) \/ SkipUnpriced(s)
      BY <1>8 DEF EnforcePlan
    <2>2. AbandonPass \/ (Visited(s) /\ UNCHANGED phase)
      BY <2>1 DEF ClosePlan, Fire, DragTrail, SkipUnpriced, Continue
    <2>3. \A t \in Symbols \ {s} : plans'[t] = plans[t]
      BY <1>a, <2>1 DEF ClosePlan, Fire, DragTrail, SkipUnpriced, deskVars
    <2> QED BY <1>1, <1>8, <1>a, <2>2, <2>3 DEF EnforcePlan, Visited, Goal
  <1>9. CASE CheckEntry
    <2>1. PICK i \in todo : DropEntry(i) \/ KeepWaiting(i) \/ FillArmed(i)
      BY <1>9 DEF CheckEntry
    <2>2. AbandonPass \/ (Visited(i) /\ phase' \in {"entries", "protect"})
      BY <1>9, <2>1 DEF CheckEntry, DropEntry, KeepWaiting, FillArmed, Continue
    <2>3. DOMAIN entries \ {i} \subseteq DOMAIN entries'
      BY <2>1 DEF DropEntry, KeepWaiting, FillArmed, Without, deskVars
    <2> QED BY <1>1, <1>9, <1>a, <2>2, <2>3 DEF CheckEntry, Visited, Goal
  <1>10. ASSUME NEW s \in Symbols, FireUnrecorded(s) PROVE Goal
    BY <1>1, <1>10 DEF FireUnrecorded
  <1> QED
    BY <1>4, <1>5, <1>6, <1>7, <1>8, <1>9, <1>10
       DEF LoopStep, FastNext, Decision, Pass

LEMMA RestStep ==
    ASSUME LoopInv, [LoopStep]_fastVars
    PROVE  /\ now' \in 0..MaxTime /\ decisions' \in 0..MaxDecisions
           /\ halted' \in BOOLEAN /\ byHand' \subseteq Symbols
  <1>a. /\ now \in 0..MaxTime /\ decisions \in 0..MaxDecisions
        /\ halted \in BOOLEAN /\ byHand \subseteq Symbols
    BY DEF LoopInv, FastTypeOK
  <1>1. now' \in 0..MaxTime
    <2>1. UNCHANGED now \/ Tick
      BY DEF LoopStep, FastNext, Decision, Decide, Amend, EndExits, PlaceReduce, PlaceOpen,
             Arm, EndOrders, Protect, Halt, ModelUnavailable, Pass, PassBegin, EnforcePlan,
             PlansDone, CheckEntry, PassEnd, World, NewQuotes, KillFile, FireUnrecorded,
             fastVars
    <2> QED BY <1>a, <2>1, FastLoopAssumption DEF Tick
  <1>2. decisions' \in 0..MaxDecisions
    <2>1. UNCHANGED decisions \/ Decide
      BY DEF LoopStep, FastNext, Decision, Amend, EndExits, PlaceReduce, PlaceOpen,
             Arm, EndOrders, Protect, Halt, ModelUnavailable, Pass, PassBegin, EnforcePlan,
             PlansDone, CheckEntry, PassEnd, World, Tick, NewQuotes, KillFile,
             FireUnrecorded, fastVars, loopVars
    <2> QED BY <1>a, <2>1, FastLoopAssumption DEF Decide
  <1>3. halted' \in BOOLEAN
    <2>1. UNCHANGED halted \/ halted' = TRUE
      BY DEF LoopStep, FastNext, Decision, Decide, Amend, EndExits, PlaceReduce, PlaceOpen,
             OpenAndProtect, Arm, EndOrders, Protect, Attach, Unwind, Halt,
             ModelUnavailable, Pass, PassBegin, EnforcePlan, ClosePlan, Fire, DragTrail,
             SkipUnpriced, PlansDone, CheckEntry, DropEntry, KeepWaiting, FillArmed,
             PassEnd, World, Tick, NewQuotes, KillFile, FireUnrecorded, fastVars, Continue,
             AbandonDecision
    <2> QED BY <1>a, <2>1
  <1>4. byHand' \subseteq Symbols
    <2>1. UNCHANGED byHand \/ Protect
      BY DEF LoopStep, FastNext, Decision, Decide, Amend, EndExits, PlaceReduce, PlaceOpen,
             Arm, EndOrders, Halt, ModelUnavailable, Pass, PassBegin, EnforcePlan, ClosePlan,
             Fire, DragTrail, SkipUnpriced, PlansDone, CheckEntry, DropEntry, KeepWaiting,
             FillArmed, PassEnd, World, Tick, NewQuotes, KillFile, FireUnrecorded, fastVars,
             deskVars
    <2>2. CASE Protect
      <3>1. opened.order \in OrderType
        BY <2>2 DEF Protect, LoopInv, FastTypeOK, OpenedType
      <3>2. [opened.order EXCEPT !.side = Opposite(@)].sym \in Symbols
        BY <3>1, UnwindOrder DEF OrderType
      <3> QED BY <1>a, <2>2, <3>2 DEF Protect, Attach, Unwind
    <2> QED BY <1>a, <2>1, <2>2
  <1> QED BY <1>1, <1>2, <1>3, <1>4

LEMMA LoopInit == FastInit => LoopInv
  <1> SUFFICES ASSUME FastInit PROVE LoopInv
    OBVIOUS
  <1>1. BookTypeOK
    BY TypeInit DEF FastInit
  <1>2. plans \in [Symbols -> PlanType \cup {NoPlan}] /\ \A s \in Symbols : ~Watched(s)
    BY DEF FastInit, Watched
  <1>3. /\ DOMAIN entries = {}
        /\ armedFills \in Seq(Nat) /\ Len(armedFills) <= MaxEntries
    BY EmptySeq, LenProperties, FastLoopAssumption DEF FastInit
  <1>4. /\ now \in 0..MaxTime /\ decisions \in 0..MaxDecisions
        /\ todo = {} /\ byHand = {} /\ phase = "idle" /\ opened = NoFill
    BY FastLoopAssumption DEF FastInit
  <1>5. halted \in BOOLEAN
    BY DEF FastInit
  <1> QED BY <1>1, <1>2, <1>3, <1>4, <1>5 DEF LoopInv, FastTypeOK, DeskSound, Phases

LEMMA LoopInvStep == LoopInv /\ [LoopStep]_fastVars => LoopInv'
  <1> SUFFICES ASSUME LoopInv, [LoopStep]_fastVars PROVE LoopInv'
    OBVIOUS
  <1>1. BookTypeOK'
    BY LoopStepsBook, TypeStep DEF LoopInv, FastTypeOK
  <1>2. FastTypeOK'
    BY <1>1, PlansStep, EntriesStep, HandlerStep, TodoStep, RestStep
       DEF FastTypeOK, EntriesSound, HandlerSound
  <1>3. DeskSound'
    BY PlansStep, EntriesStep, HandlerStep, TodoStep
       DEF DeskSound, EntriesSound, HandlerSound, Watched
  <1> QED BY <1>2, <1>3 DEF LoopInv

\* The two loops, and the two loops whose rows the evaluation reads.
LoopSpecs == FastSpec \/ EnforcementSpec

LEMMA LoopSteps ==
    /\ FastSpec => FastInit /\ [][LoopStep]_fastVars
    /\ EnforcementSpec => FastInit /\ [][LoopStep]_fastVars
  <1>1. [FastNext]_fastVars => [LoopStep]_fastVars
    BY DEF LoopStep
  <1>2. [EnforcementNext]_enforcementVars => [LoopStep]_fastVars
    BY DEF EnforcementNext, LoopStep, enforcementVars
  <1>3. EnforcementInit => FastInit
    BY DEF EnforcementInit
  <1> QED BY <1>1, <1>2, <1>3, PTL DEF FastSpec, EnforcementSpec

LEMMA LoopInvariant == LoopSpecs => []LoopInv
  BY LoopInit, LoopInvStep, LoopSteps, PTL DEF LoopSpecs

(* The two loops leave every variable, and every plan, entry and pending   *)
(* fill of theirs, well-formed.                                            *)
THEOREM LoopTypeCorrect == LoopSpecs => []FastTypeOK
  <1>1. LoopInv => FastTypeOK
    BY DEF LoopInv
  <1> QED BY <1>1, LoopInvariant, PTL

-----------------------------------------------------------------------------
(* What the loops may do to a position. *)

(* After the loss limit or the kill switch has halted the session, neither *)
(* an armed entry that prints nor an unwind ever adds exposure: whoever    *)
(* submits passes _halted on to the risk check (session/runner.py _submit).*)
THEOREM HaltedLoopsOnlyReduce == LoopSpecs => HaltedOnlyReduces
  <1> DEFINE Reduces == halted => \A s \in Symbols :
                           Magnitude(pos'[s].qty) <= Magnitude(pos[s].qty)
  <1>1. ASSUME LoopInv, [LoopStep]_fastVars PROVE Reduces
    <2> SUFFICES ASSUME halted, NEW s \in Symbols
                 PROVE  Magnitude(pos'[s].qty) <= Magnitude(pos[s].qty)
      OBVIOUS
    <2>1. BookTypeOK /\ halted \in BOOLEAN
      BY <1>1 DEF LoopInv, FastTypeOK
    <2>2. pos[s].qty \in Int /\ Magnitude(pos[s].qty) \in Nat
      BY <2>1, MagnitudeFacts DEF BookTypeOK, PositionType
    <2>3. CASE UNCHANGED bookVars
      BY <2>2, <2>3 DEF bookVars
    <2>4. ASSUME NEW o \in OrderType, NEW canOpen \in BOOLEAN,
                 Submit(o, canOpen, halted), UNCHANGED <<quotes, killed>>
          PROVE  Magnitude(pos'[s].qty) <= Magnitude(pos[s].qty)
      <3>1. /\ Projected(o) \in Int /\ pos'[o.sym].qty = Projected(o)
            /\ \A t \in Symbols \ {o.sym} : pos'[t] = pos[t]
        BY <2>1, <2>4, LoopOrder
      <3>2. Magnitude(Projected(o)) < Magnitude(pos[o.sym].qty)
        BY <2>4, OnlyReduces DEF Submit
      <3>3. Magnitude(Projected(o)) \in Nat
        BY <3>1, MagnitudeFacts
      <3> QED BY <2>2, <3>1, <3>2, <3>3
    <2> QED BY <1>1, <2>3, <2>4, LoopDrivesBook
  <1>2. LoopInv /\ [LoopStep]_fastVars => [Reduces]_fastVars
    BY <1>1
  <1>3. HaltedOnlyReduces <=> [][Reduces]_fastVars
    BY PTL DEF HaltedOnlyReduces
  <1> HIDE DEF Reduces
  <1> QED BY <1>2, <1>3, LoopInvariant, LoopSteps, PTL DEF LoopSpecs

(* An enforcement pass takes a position to flat or leaves it alone, though *)
(* the plan that fires may face away from it (session/fastloop.py _fire).  *)
THEOREM EnforcementFlattens == LoopSpecs => EnforcementOnlyFlattens
  <1> DEFINE Flattens == phase = "plans" => \A s \in Symbols : pos'[s].qty \in {0, pos[s].qty}
  <1>1. ASSUME LoopInv, [LoopStep]_fastVars PROVE Flattens
    <2> SUFFICES ASSUME phase = "plans", NEW s \in Symbols
                 PROVE  pos'[s].qty \in {0, pos[s].qty}
      OBVIOUS
    <2>1. BookTypeOK /\ halted \in BOOLEAN
      BY <1>1 DEF LoopInv, FastTypeOK
    <2>2. CASE UNCHANGED bookVars
      BY <2>2 DEF bookVars
    <2>3. ASSUME NEW o \in OrderType, NEW canOpen \in BOOLEAN, Projected(o) = 0,
                 Submit(o, canOpen, halted), UNCHANGED <<quotes, killed>>
          PROVE  pos'[s].qty \in {0, pos[s].qty}
      <3>1. /\ pos'[o.sym].qty = Projected(o)
            /\ \A t \in Symbols \ {o.sym} : pos'[t] = pos[t]
        BY <2>1, <2>3, LoopOrder
      <3> QED BY <2>3, <3>1
    <2> QED BY <1>1, <2>2, <2>3, LoopDrivesBook
  <1>2. LoopInv /\ [LoopStep]_fastVars => [Flattens]_fastVars
    BY <1>1
  <1>3. EnforcementOnlyFlattens <=> [][Flattens]_fastVars
    BY PTL DEF EnforcementOnlyFlattens
  <1> HIDE DEF Flattens
  <1> QED BY <1>2, <1>3, LoopInvariant, LoopSteps, PTL DEF LoopSpecs

-----------------------------------------------------------------------------
(* Plans and positions. *)

(* What a step does to a plan that is in force: it keeps it, or the symbol *)
(* is flat, and a stop that its trail has dragged does not loosen.         *)
PlanKept(s) ==
    Watched(s) =>
        IF plans'[s] = NoPlan THEN pos'[s].qty = 0
        ELSE OnTrail(plans[s]) /\ plans'[s].long = plans[s].long
               /\ plans'[s].trail = plans[s].trail
             => ~Loosened(plans[s], plans'[s])

LEMMA PlanKeptStep ==
    ASSUME LoopInv, [LoopStep]_fastVars, NEW s \in Symbols
    PROVE  PlanKept(s)
  <1> SUFFICES ASSUME Watched(s) PROVE PlanKept(s)
    BY DEF PlanKept
  <1>a. /\ PlanSound(plans[s]) /\ plans[s] # NoPlan
        /\ plans[s].stop \in Int
        /\ plans \in [Symbols -> PlanType \cup {NoPlan}]
        /\ BookTypeOK /\ halted \in BOOLEAN
    BY DEF LoopInv, DeskSound, FastTypeOK, Watched, PlanSound, PlanType
  <1>b. CASE plans'[s] = plans[s]
    BY <1>a, <1>b DEF PlanKept, Loosened
  <1>c. ASSUME NEW x \in Symbols, x # s, NEW p, plans' = [plans EXCEPT ![x] = p]
        PROVE  PlanKept(s)
    BY <1>a, <1>b, <1>c
  <1>1. CASE \/ Decide \/ EndExits \/ (\E o \in Orders : PlaceReduce(o))
             \/ (\E o \in Orders, l \in OpenLevels : PlaceOpen(o, l) \/ Arm(o, l))
             \/ EndOrders \/ Halt \/ ModelUnavailable \/ PassBegin \/ PlansDone
             \/ CheckEntry \/ PassEnd \/ World \/ UNCHANGED fastVars
    BY <1>1, <1>b
       DEF Decide, EndExits, PlaceReduce, PlaceOpen, Arm, EndOrders, Halt,
           ModelUnavailable, PassBegin, PlansDone, CheckEntry, DropEntry, KeepWaiting,
           FillArmed, PassEnd, World, Tick, NewQuotes, KillFile, deskVars, fastVars
  <1>2. ASSUME NEW x \in Symbols, NEW l \in AmendLevels, Amend(x, l)
        PROVE  PlanKept(s)
    <2>1. CASE x = s
      <3>1. l \in LevelsType /\ now \in Nat
        BY FastLoopAssumption DEF LoopInv, FastTypeOK
      <3>2. plans'[s] = Amended(l, plans[s])
        BY <1>2, <1>a, <2>1 DEF Amend
      <3>3. /\ PlanSound(Amended(l, plans[s]))
            /\ OnTrail(plans[s]) /\ Amended(l, plans[s]).trail = plans[s].trail
               => ~Loosened(plans[s], Amended(l, plans[s]))
        BY <1>2, <1>a, <2>1, <3>1, AmendedSound DEF Amend
      <3> QED BY <3>2, <3>3, FastLoopAssumption DEF PlanKept, PlanSound
    <2> QED BY <1>2, <1>c, <2>1 DEF Amend
  <1>3. CASE Protect
    <2>1. CASE Attach
      <3> DEFINE x == opened.order.sym
                 plan == Resolved(opened.levels, opened.order.side = "buy", ProtectEntry, now)
      <3>1. x \in Symbols
        BY <1>3 DEF Protect, LoopInv, FastTypeOK, OpenedType, OrderType
      <3>2. PlanSound(plan)
        BY <1>3, <2>1, ProtectedSound DEF Protect, Attach
      <3>3. plans' = [plans EXCEPT ![x] = Merged(plans[x], plan)]
        BY <2>1 DEF Attach
      <3> HIDE DEF x, plan
      <3>4. CASE x = s
        <4>1. plans'[s] = Merged(plans[s], plan)
          BY <1>a, <3>3, <3>4
        <4>2. PlanSound(Merged(plans[s], plan))
          BY <1>a, <3>2, MergedSound
        <4> QED BY <1>a, <3>2, <4>1, <4>2, MergedSound, FastLoopAssumption
                DEF PlanKept, PlanSound
      <3> QED BY <1>c, <3>1, <3>3, <3>4
    <2>2. CASE Unwind
      BY <1>b, <2>2 DEF Unwind
    <2> QED BY <1>3, <2>1, <2>2 DEF Protect
  <1>4. ASSUME NEW x \in Symbols, ~IsFlat(x), Submit(CloseOrder(x), FALSE, halted),
               UNCHANGED <<quotes, killed>>,
               plans' = plans \/ plans' = [plans EXCEPT ![x] = NoPlan]
        PROVE  PlanKept(s)
    <2>1. /\ CloseOrder(x) \in OrderType /\ CloseOrder(x).sym = x
          /\ Projected(CloseOrder(x)) = 0
      BY <1>4, <1>a, CloseFlattens DEF Submit
    <2>2. pos'[x].qty = 0
      BY ONLY <1>4, <1>a, <2>1, LoopOrder
    <2>3. CASE x = s /\ plans' = [plans EXCEPT ![x] = NoPlan]
      BY <1>a, <2>2, <2>3 DEF PlanKept
    <2> QED BY <1>4, <1>b, <1>c, <2>3
  <1>5. CASE EnforcePlan
    <2>1. PICK x \in todo : ClosePlan(x) \/ Fire(x) \/ DragTrail(x) \/ SkipUnpriced(x)
      BY <1>5 DEF EnforcePlan
    <2>2. x \in Symbols
      BY <1>5 DEF EnforcePlan, LoopInv, DeskSound
    <2>3. CASE ClosePlan(x)
      <3>1. pos'[x].qty = 0 /\ plans' = [plans EXCEPT ![x] = NoPlan]
        BY <2>3 DEF ClosePlan, IsFlat, bookVars
      <3>2. CASE x = s
        BY <1>a, <3>1, <3>2 DEF PlanKept
      <3> QED BY <1>c, <2>2, <3>1, <3>2
    <2>4. CASE Fire(x)
      <3>1. ~IsFlat(x)
        BY <2>4 DEF Fire, BreachedNow, Enforceable
      <3>2. \/ UNCHANGED plans
            \/ /\ Submit(CloseOrder(x), FALSE, halted)
               /\ plans' = plans \/ plans' = [plans EXCEPT ![x] = NoPlan]
        BY <2>4 DEF Fire
      <3> QED BY <1>4, <1>5, <1>b, <2>2, <3>1, <3>2 DEF EnforcePlan
    <2>5. CASE DragTrail(x)
      <3>1. x = s => plans'[s] = Trailed(plans[s], quotes[s].last)
        BY <1>a, <2>5 DEF DragTrail
      <3>2. x = s => quotes[s].last \in Nat \ {0}
        BY <1>a, <2>5, BookAssumption
           DEF DragTrail, Enforceable, Tradeable, BookTypeOK, QuoteType
      <3>3. x = s => PlanSound(plans'[s]) /\ ~Loosened(plans[s], plans'[s])
        BY <1>a, <3>1, <3>2, TrailedSound
      <3>4. CASE x = s
        BY <3>3, <3>4, FastLoopAssumption DEF PlanKept, PlanSound
      <3> QED BY <1>c, <2>2, <2>5, <3>4 DEF DragTrail
    <2>6. CASE SkipUnpriced(x)
      BY <1>b, <2>6 DEF SkipUnpriced, deskVars
    <2> QED BY <2>1, <2>3, <2>4, <2>5, <2>6
  <1>6. ASSUME NEW x \in Symbols, FireUnrecorded(x) PROVE PlanKept(s)
    BY <1>4, <1>6 DEF FireUnrecorded, BreachedNow, Enforceable
  <1> QED
    BY <1>1, <1>2, <1>3, <1>5, <1>6 DEF LoopStep, FastNext, Decision, Pass

(* A plan stops being active only once its symbol is flat: a refused or    *)
(* raising close leaves it in force (session/fastloop.py _fire, protect).  *)
THEOREM PlansOutlivePositions == LoopSpecs => PlanOutlivesPosition
  <1> DEFINE Outlives == \A s \in Symbols :
                            Watched(s) /\ plans'[s] = NoPlan => pos'[s].qty = 0
  <1>1. LoopInv /\ [LoopStep]_fastVars => [Outlives]_fastVars
    BY PlanKeptStep DEF PlanKept
  <1>2. PlanOutlivesPosition <=> [][Outlives]_fastVars
    BY PTL DEF PlanOutlivesPosition
  <1> HIDE DEF Outlives
  <1> QED BY <1>1, <1>2, LoopInvariant, LoopSteps, PTL DEF LoopSpecs

(* A stop that a trail has tightened never loosens while the trail is the  *)
(* same, through adds, amendments and passes (trading/levels.py trailed).  *)
THEOREM TrailNeverRetreats == LoopSpecs => TrailedStopNeverRetreats
  <1> DEFINE Holds == \A s \in Symbols :
          /\ Watched(s) /\ plans'[s] # NoPlan
          /\ OnTrail(plans[s])
          /\ plans'[s].long = plans[s].long /\ plans'[s].trail = plans[s].trail
          => ~Loosened(plans[s], plans'[s])
  <1>1. LoopInv /\ [LoopStep]_fastVars => [Holds]_fastVars
    BY PlanKeptStep DEF PlanKept
  <1>2. TrailedStopNeverRetreats <=> [][Holds]_fastVars
    BY PTL DEF TrailedStopNeverRetreats
  <1> HIDE DEF Holds
  <1> QED BY <1>1, <1>2, LoopInvariant, LoopSteps, PTL DEF LoopSpecs

-----------------------------------------------------------------------------
(* Nothing goes unwatched. *)

(* An open position has a plan or has been reported, or it is the fill     *)
(* that is being protected, and nothing else.                              *)
Guarded(s) ==
    \/ IsFlat(s) \/ Watched(s) \/ s \in byHand
    \/ phase = "protect" /\ opened.order.sym = s /\ pos[s].qty = Signed(opened.order)

AllGuarded == faults = 0 => \A s \in Symbols : Guarded(s)

(* Writes that raised are never forgotten.                                 *)
LEMMA NoneRaisedBefore ==
    ASSUME LoopInv, [LoopStep]_fastVars, faults' = 0
    PROVE  faults = 0
  <1>1. BookTypeOK /\ halted \in BOOLEAN
    BY DEF LoopInv, FastTypeOK
  <1>2. faults' = faults
    BY <1>1, LoopDrivesBook, LoopOrder DEF bookVars
  <1> QED BY <1>2

(* A flat symbol is opened only by an order that is then to be protected.  *)
LEMMA OpenedIsProtected ==
    ASSUME LoopInv, [LoopStep]_fastVars, NEW s \in Symbols,
           faults' = 0, pos[s].qty = 0, pos'[s].qty # 0
    PROVE  /\ phase' = "protect"
           /\ opened'.order.sym = s /\ pos'[s].qty = Signed(opened'.order)
  <1>a. BookTypeOK /\ halted \in BOOLEAN /\ faults' = faults
    BY NoneRaisedBefore DEF LoopInv, FastTypeOK
  <1>b. ~UNCHANGED pos
    OBVIOUS
  <1>c. ASSUME NEW o \in OrderType, NEW canOpen \in BOOLEAN,
               Submit(o, canOpen, halted), UNCHANGED <<quotes, killed>>
        PROVE  /\ o.sym = s /\ Projected(o) # 0 /\ canOpen
               /\ pos'[s].qty = Signed(o)
    <2>1. /\ Projected(o) \in Int /\ pos'[o.sym].qty = Projected(o)
          /\ \A t \in Symbols \ {o.sym} : pos'[t] = pos[t]
      BY <1>a, <1>c, LoopOrder
    <2>2. o.sym = s
      BY <2>1
    <2>3. Signed(o) \in Int
      BY DEF OrderType, Signed
    <2>4. ~canOpen => Magnitude(Projected(o)) < Magnitude(pos[o.sym].qty)
      BY <1>c, OnlyReduces DEF Submit
    <2>5. Magnitude(Projected(o)) \in Nat
      BY <2>1, MagnitudeFacts
    <2> QED BY <2>1, <2>2, <2>3, <2>4, <2>5 DEF Projected, Magnitude
  <1>d. Orders \subseteq OrderType
    BY BookAssumption DEF Orders, OrderType
  <1>1. ASSUME NEW o \in Orders, PlaceReduce(o) PROVE FALSE
    <2>1. Submit(o, FALSE, halted) /\ UNCHANGED <<quotes, killed>>
      BY <1>1 DEF PlaceReduce
    <2> QED BY <1>c, <1>d, <2>1
  <1>2. ASSUME NEW o \in Orders, NEW l \in OpenLevels, PlaceOpen(o, l)
        PROVE  phase' = "protect" /\ opened'.order = o /\ pos'[s].qty = Signed(o) /\ o.sym = s
    <2>1. Submit(o, TRUE, halted) /\ UNCHANGED <<quotes, killed>>
      BY <1>2 DEF PlaceOpen, OpenAndProtect
    <2>2. pos'[s].qty = Signed(o) /\ o.sym = s
      BY ONLY <1>c, <1>d, <2>1
    <2> QED BY <1>2, <1>a, <2>2 DEF PlaceOpen, OpenAndProtect, Continue, Raised
  <1>3. CASE Protect
    <2>1. CASE Attach
      BY <1>b, <2>1 DEF Attach, bookVars
    <2>2. CASE Unwind
      <3> DEFINE o == [opened.order EXCEPT !.side = Opposite(@)]
      <3>1. o \in OrderType
        BY <1>3, UnwindOrder DEF Protect, LoopInv, FastTypeOK, OpenedType
      <3>2. Submit(o, FALSE, halted)
        BY <1>b, <2>2 DEF Unwind, bookVars
      <3> HIDE DEF o
      <3> QED BY <1>3, <1>c, <3>1, <3>2 DEF Protect
    <2> QED BY <1>3, <2>1, <2>2 DEF Protect
  <1>4. ASSUME NEW x \in Symbols, ~IsFlat(x), Submit(CloseOrder(x), FALSE, halted),
               UNCHANGED <<quotes, killed>>
        PROVE  FALSE
    <2>1. CloseOrder(x) \in OrderType
      BY <1>4, <1>a, CloseFlattens
    <2> QED BY <1>4, <1>c, <2>1
  <1>5. CASE EnforcePlan
    <2>1. PICK x \in todo : ClosePlan(x) \/ Fire(x) \/ DragTrail(x) \/ SkipUnpriced(x)
      BY <1>5 DEF EnforcePlan
    <2>2. x \in Symbols
      BY <1>5 DEF EnforcePlan, LoopInv, DeskSound
    <2>3. ~IsFlat(x) /\ Submit(CloseOrder(x), FALSE, halted)
      BY <1>b, <2>1 DEF ClosePlan, Fire, DragTrail, SkipUnpriced, BreachedNow, Enforceable,
                        bookVars
    <2> QED BY <1>4, <1>5, <2>2, <2>3 DEF EnforcePlan
  <1>6. CASE CheckEntry
    <2>1. PICK i \in todo : DropEntry(i) \/ KeepWaiting(i) \/ FillArmed(i)
      BY <1>6 DEF CheckEntry
    <2>2. FillArmed(i)
      BY <1>b, <2>1 DEF DropEntry, KeepWaiting, bookVars
    <2> DEFINE o == entries[i].order
    <2>3. o \in OrderType
      BY <1>6 DEF CheckEntry, LoopInv, DeskSound, FastTypeOK, EntryType
    <2>4. Submit(o, TRUE, halted) /\ UNCHANGED <<quotes, killed>>
      BY <1>6, <2>2 DEF CheckEntry, FillArmed
    <2>5. phase' = "protect" /\ opened'.order = o
      BY <1>a, <2>2 DEF FillArmed, Continue, Raised
    <2> HIDE DEF o
    <2>6. pos'[s].qty = Signed(o) /\ o.sym = s
      BY ONLY <1>c, <2>3, <2>4
    <2> QED BY <2>5, <2>6
  <1>7. ASSUME NEW x \in Symbols, FireUnrecorded(x) PROVE FALSE
    BY <1>4, <1>7 DEF FireUnrecorded, BreachedNow, Enforceable
  <1>8. CASE \/ Decide \/ (\E x \in Symbols, l \in AmendLevels : Amend(x, l))
             \/ EndExits \/ (\E o \in Orders, l \in OpenLevels : Arm(o, l)) \/ EndOrders
             \/ Halt \/ ModelUnavailable \/ PassBegin \/ PlansDone \/ PassEnd \/ World
             \/ UNCHANGED fastVars
    BY <1>8, <1>b
       DEF Decide, Amend, EndExits, Arm, EndOrders, Halt, ModelUnavailable, PassBegin,
           PlansDone, PassEnd, World, Tick, NewQuotes, KillFile, fastVars, vars, bookVars
  <1> QED
    BY <1>1, <1>2, <1>3, <1>5, <1>6, <1>7, <1>8 DEF LoopStep, FastNext, Decision, Pass

(* Once protect() has attached a plan the symbol is watched.               *)
LEMMA AttachWatches ==
    ASSUME LoopInv, phase = "protect", Attach
    PROVE  plans'[opened.order.sym] # NoPlan
  <1> DEFINE x == opened.order.sym
             plan == Resolved(opened.levels, opened.order.side = "buy", ProtectEntry, now)
  <1>1. PlanSound(plan) /\ x \in Symbols
    BY ProtectedSound DEF Attach, LoopInv, FastTypeOK, OpenedType, OrderType
  <1>2. plans[x] = NoPlan \/ PlanSound(plans[x])
    BY <1>1 DEF LoopInv, DeskSound, Watched
  <1>3. plans' = [plans EXCEPT ![x] = Merged(plans[x], plan)]
    BY DEF Attach
  <1> HIDE DEF x, plan
  <1>4. Merged(plans[x], plan) # NoPlan
    BY <1>1, <1>2, MergedSound, FastLoopAssumption DEF PlanSound
  <1>5. plans'[x] # NoPlan
    BY <1>1, <1>3, <1>4 DEF LoopInv, FastTypeOK
  <1> QED BY <1>5 DEF x

LEMMA GuardedStep ==
    ASSUME LoopInv, AllGuarded, [LoopStep]_fastVars
    PROVE  AllGuarded'
  <1> SUFFICES ASSUME faults' = 0, NEW s \in Symbols PROVE Guarded(s)'
    BY DEF AllGuarded
  <1>a. Guarded(s) /\ BookTypeOK /\ halted \in BOOLEAN /\ faults' = faults
    BY NoneRaisedBefore DEF AllGuarded, LoopInv, FastTypeOK
  <1>1. CASE pos'[s].qty = 0
    BY <1>1 DEF Guarded, IsFlat
  <1>2. CASE pos'[s].qty # 0 /\ Watched(s)
    BY <1>2, PlanKeptStep DEF PlanKept, Guarded, Watched
  <1>3. CASE s \in byHand
    <2>1. CASE s \in byHand'
      BY <2>1 DEF Guarded
    <2>2. CASE Protect
      <3>1. CASE Attach
        BY <1>3, <2>2, <3>1, AttachWatches DEF Protect, Attach, Guarded, Watched
      <3>2. CASE Unwind
        BY <1>3, <2>1, <3>2 DEF Unwind
      <3> QED BY <2>2, <3>1, <3>2 DEF Protect
    <2>3. UNCHANGED byHand \/ Protect
      BY DEF LoopStep, FastNext, Decision, Decide, Amend, EndExits, PlaceReduce, PlaceOpen,
             Arm, EndOrders, Halt, ModelUnavailable, Pass, PassBegin, EnforcePlan, ClosePlan,
             Fire, DragTrail, SkipUnpriced, PlansDone, CheckEntry, DropEntry, KeepWaiting,
             FillArmed, PassEnd, World, Tick, NewQuotes, KillFile, FireUnrecorded, fastVars,
             deskVars
    <2> QED BY <1>3, <2>1, <2>2, <2>3
  <1>4. CASE pos[s].qty = 0 /\ pos'[s].qty # 0
    BY <1>4, OpenedIsProtected DEF Guarded
  <1>5. CASE /\ phase = "protect" /\ opened.order.sym = s
             /\ pos[s].qty = Signed(opened.order)
    <2>1. CASE Protect
      <3>1. CASE Attach
        BY <1>5, <3>1, AttachWatches DEF Guarded, Watched
      <3>2. CASE Unwind
        <4> DEFINE o == [opened.order EXCEPT !.side = Opposite(@)]
        <4>1. opened.order \in OrderType
          BY <1>5 DEF LoopInv, FastTypeOK, OpenedType
        <4>2. o \in OrderType /\ o.sym = s /\ Signed(o) = -Signed(opened.order)
          BY <1>5, <4>1, UnwindOrder
        <4>3. Submit(o, FALSE, halted) \/ byHand' = byHand \cup {o.sym}
          BY <3>2 DEF Unwind
        <4> HIDE DEF o
        <4>4. CASE Submit(o, FALSE, halted)
          <5>1. UNCHANGED <<quotes, killed>>
            BY <2>1 DEF Protect
          <5>2. Signed(opened.order) \in Int
            BY <4>1 DEF OrderType, Signed
          <5>3. pos'[s].qty = Projected(o)
            BY ONLY <1>a, <4>2, <4>4, <5>1, LoopOrder
          <5> QED BY <1>5, <4>2, <5>2, <5>3 DEF Projected, Guarded, IsFlat
        <4> QED BY <4>2, <4>3, <4>4 DEF Guarded
      <3> QED BY <2>1, <3>1, <3>2 DEF Protect
    <2>2. CASE KillFile \/ UNCHANGED fastVars
      BY <1>5, <2>2 DEF Guarded, KillFile, fastVars, vars, bookVars, loopVars
    <2> QED BY <1>5, <2>1, <2>2
         DEF LoopStep, FastNext, Decision, Decide, Amend, EndExits, PlaceReduce, PlaceOpen,
             Placeable, Arm, EndOrders, Halt, ModelUnavailable, Pass, PassBegin, EnforcePlan,
             PlansDone, CheckEntry, PassEnd, World, Tick, NewQuotes, FireUnrecorded
  <1> QED BY <1>a, <1>1, <1>2, <1>3, <1>4, <1>5 DEF Guarded, IsFlat

(* Until a write raises, whenever the event loop is free an open position  *)
(* has an active plan or has been reported: protect() and _fire() between  *)
(* them leave no window (session/fastloop.py, trading/exits.py).           *)
THEOREM NothingGoesUnwatched == LoopSpecs => []WatchedUnlessWriteFailed
  <1>1. FastInit => AllGuarded
    BY DEF FastInit, BookInit, AllGuarded, Guarded, IsFlat, Flat
  <1>2. LoopInv /\ AllGuarded /\ [LoopStep]_fastVars => AllGuarded'
    BY GuardedStep
  <1>3. AllGuarded => WatchedUnlessWriteFailed
    BY DEF AllGuarded, Guarded, WatchedUnlessWriteFailed, NothingUnwatched, OpenSymbols
  <1> QED BY <1>1, <1>2, <1>3, LoopInvariant, LoopSteps, PTL DEF LoopSpecs

-----------------------------------------------------------------------------
(* Armed entries. *)

LEMMA FilledOnceStep ==
    ASSUME LoopInv, EntryFilledOnce, [LoopStep]_fastVars
    PROVE  EntryFilledOnce'
  <1> SUFFICES ASSUME faults' = 0, NEW j \in 1..Len(armedFills')
               PROVE  armedFills'[j] <= 1 /\ (armedFills'[j] = 1 => j \notin DOMAIN entries')
    BY DEF EntryFilledOnce
  <1>a. faults = 0 /\ ~Raised
    BY NoneRaisedBefore DEF Raised
  <1>b. /\ armedFills \in Seq(Nat) /\ Len(armedFills) \in Nat
        /\ \A i \in DOMAIN entries : i \in 1..Len(armedFills)
    BY LenProperties DEF LoopInv, FastTypeOK, DeskSound, EntryIds
  <1>c. \A i \in 1..Len(armedFills) :
           armedFills[i] <= 1 /\ (armedFills[i] = 1 => i \notin DOMAIN entries)
    BY <1>a DEF EntryFilledOnce
  <1>1. CASE UNCHANGED armedFills /\ DOMAIN entries' \subseteq DOMAIN entries
    BY <1>1, <1>c
  <1>2. ASSUME NEW o \in Orders, NEW l \in OpenLevels, Arm(o, l)
        PROVE  armedFills'[j] <= 1 /\ (armedFills'[j] = 1 => j \notin DOMAIN entries')
    <2>1. /\ armedFills' = Append(armedFills, 0)
          /\ DOMAIN entries' = DOMAIN entries \cup {Len(armedFills) + 1}
      BY <1>2 DEF Arm
    <2>2. /\ Len(armedFills') = Len(armedFills) + 1
          /\ \A i \in 1..Len(armedFills) : armedFills'[i] = armedFills[i]
          /\ armedFills'[Len(armedFills) + 1] = 0
      BY <1>b, <2>1, AppendProperties
    <2> QED BY <1>b, <1>c, <2>1, <2>2
  <1>3. CASE CheckEntry
    <2>1. PICK i \in todo : DropEntry(i) \/ KeepWaiting(i) \/ FillArmed(i)
      BY <1>3 DEF CheckEntry
    <2>2. CASE DropEntry(i) \/ KeepWaiting(i)
      BY <1>1, <2>2 DEF DropEntry, KeepWaiting, Without, deskVars
    <2>3. CASE FillArmed(i)
      <3>1. i \in DOMAIN entries /\ i \in 1..Len(armedFills)
        BY <1>3, <1>b DEF CheckEntry, LoopInv, DeskSound
      <3>2. armedFills[i] = 0
        <4>1. armedFills[i] \in Nat
          BY <1>b, <3>1, ElementOfSeq
        <4> QED BY <1>c, <3>1, <4>1
      <3>3. armedFills' = [armedFills EXCEPT ![i] = 1] /\ DOMAIN entries' = DOMAIN entries \ {i}
        BY <1>a, <2>3, <3>2 DEF FillArmed, Without
      <3>4. /\ Len(armedFills') = Len(armedFills)
            /\ \A k \in 1..Len(armedFills) :
                  armedFills'[k] = IF k = i THEN 1 ELSE armedFills[k]
        BY <1>b, <3>1, <3>3, ExceptSeq
      <3> QED BY <1>c, <3>3, <3>4
    <2> QED BY <2>1, <2>2, <2>3
  <1>4. CASE Decide
    BY <1>1, <1>4 DEF Decide, Without
  <1>5. CASE \/ (\E s \in Symbols, l \in AmendLevels : Amend(s, l)) \/ EndExits \/ EndOrders
             \/ (\E o \in Orders : PlaceReduce(o))
             \/ (\E o \in Orders, l \in OpenLevels : PlaceOpen(o, l))
             \/ Protect \/ Halt \/ ModelUnavailable
             \/ PassBegin \/ EnforcePlan \/ PlansDone \/ PassEnd \/ World
             \/ (\E s \in Symbols : FireUnrecorded(s)) \/ UNCHANGED fastVars
    <2>1. UNCHANGED <<entries, armedFills>>
      BY <1>5
         DEF Amend, EndExits, EndOrders, PlaceReduce, PlaceOpen, Protect, Attach, Unwind,
             Halt, ModelUnavailable, PassBegin, EnforcePlan, ClosePlan, Fire, DragTrail,
             SkipUnpriced, PlansDone, PassEnd, World, Tick, NewQuotes, KillFile,
             FireUnrecorded, deskVars, fastVars
    <2> QED BY <1>1, <2>1
  <1> QED
    BY <1>2, <1>3, <1>4, <1>5 DEF LoopStep, FastNext, Decision, Pass

(* Until a write raises, an armed entry is filled at most once, however    *)
(* passes, decisions and cancellations interleave (fastloop _fill_armed).  *)
THEOREM EntriesFillOnce == LoopSpecs => []EntryFilledOnce
  <1>1. FastInit => EntryFilledOnce
    BY EmptySeq DEF FastInit, EntryFilledOnce
  <1>2. LoopInv /\ EntryFilledOnce /\ [LoopStep]_fastVars => EntryFilledOnce'
    BY FilledOnceStep
  <1> QED BY <1>1, <1>2, LoopInvariant, LoopSteps, PTL DEF LoopSpecs

-----------------------------------------------------------------------------
(* The book that the loops share. *)

(* What the risk check keeps of one order at a time holds of the book that *)
(* a model, its armed entries and the enforcement of its exits trade       *)
(* together: no more positions than the cap, and P&L that is cash flow.    *)
THEOREM LoopsShareASoundBook == LoopSpecs => [](WithinConcurrentCap /\ PnlIdentity)
  <1>1. FastInit => WithinConcurrentCap /\ PnlIdentity
    BY CapInit, PnlInit DEF FastInit
  <1>2. LoopInv /\ WithinConcurrentCap /\ [LoopStep]_fastVars => WithinConcurrentCap'
    BY LoopStepsBook, CapStep DEF LoopInv, FastTypeOK
  <1>3. LoopInv /\ PnlIdentity /\ [LoopStep]_fastVars => PnlIdentity'
    BY LoopStepsBook, PnlStep DEF LoopInv, FastTypeOK
  <1> QED BY <1>1, <1>2, <1>3, LoopInvariant, LoopSteps, PTL DEF LoopSpecs

(* Without a quote book to cross, they never spend money the session does  *)
(* not have.                                                               *)
THEOREM LoopsAreSolvent == ~QuotesTier => (LoopSpecs => []CashNonNegative)
  <1> SUFFICES ASSUME ~QuotesTier PROVE LoopSpecs => []CashNonNegative
    OBVIOUS
  <1>1. FastInit => CashNonNegative
    BY BookAssumption DEF FastInit, BookInit, CashNonNegative
  <1>2. LoopInv /\ CashNonNegative /\ [LoopStep]_fastVars => CashNonNegative'
    BY LoopStepsBook, SolventStep DEF LoopInv, FastTypeOK
  <1> QED BY <1>1, <1>2, LoopInvariant, LoopSteps, PTL DEF LoopSpecs

(* With shorting off none of them opens a short, but by selling more than  *)
(* the long it cuts, and none makes one larger.                            *)
THEOREM LoopsShortsNeverGrow == LoopSpecs => ShortsOnlyByOverselling
  <1>1. LoopInv /\ [LoopStep]_fastVars => [ShortsKept]_pos
    BY LoopStepsBook, ShortsStep DEF LoopInv, FastTypeOK
  <1>2. ShortsOnlyByOverselling <=> [][ShortsKept]_pos
    BY PTL DEF ShortsOnlyByOverselling, ShortsKept
  <1> QED BY <1>1, <1>2, LoopInvariant, LoopSteps, PTL DEF LoopSpecs

-----------------------------------------------------------------------------
(* What the evaluation says of enforced levels. *)

ClosesOf(s) == {o \in OrderRows : o.sym = s /\ o.origin = "fast_loop"}
FiresOf(s) == {e \in FiredRows : e.sym = s}

LEMMA SelectedRows ==
    ASSUME NEW s \in Symbols
    PROVE  /\ Fires(s) = InSet(FiresOf(s), events)
           /\ EnforcedCloses(s) = InSet(ClosesOf(s), orders)
  BY DEF Fires, EnforcedCloses, FiresOf, ClosesOf, Selected, InSet, SelectEquation,
         FoldLeft, MapThenFoldSet

\* Two selections that go together, row by row.
Together(fired, closed) ==
    /\ fired \in Seq(FiredRows) /\ closed \in Seq(OrderRows)
    /\ Len(fired) = Len(closed)
    /\ \A k \in 1..Len(fired) : fired[k].of = closed[k].id

PairedUp(s) == Together(InSet(FiresOf(s), events), InSet(ClosesOf(s), orders))

RowsInv ==
    /\ orders \in Seq(OrderRows) /\ events \in Seq(FiredRows)
    /\ ~unwritten => \A s \in Symbols : PairedUp(s)

\* A fill is made by a handler that says who it is.
LEMMA FillsInHandlers ==
    ASSUME FastNext, Traded
    PROVE  phase \in {"orders", "entries", "protect", "plans"}
  <1>1. CASE \/ Decide \/ (\E s \in Symbols, l \in AmendLevels : Amend(s, l))
             \/ EndExits \/ (\E o \in Orders, l \in OpenLevels : Arm(o, l)) \/ EndOrders
             \/ Halt \/ ModelUnavailable \/ PassBegin \/ PlansDone \/ PassEnd \/ Tick
    BY <1>1 DEF Decide, Amend, EndExits, Arm, EndOrders, Halt, ModelUnavailable,
                PassBegin, PlansDone, PassEnd, Tick, Traded, vars, bookVars
  <1>2. CASE \E o \in Orders : PlaceReduce(o) \/ \E l \in OpenLevels : PlaceOpen(o, l)
    BY <1>2 DEF PlaceReduce, PlaceOpen, Placeable
  <1>3. CASE Protect \/ EnforcePlan \/ CheckEntry
    BY <1>3 DEF Protect, EnforcePlan, CheckEntry
  <1>4. CASE NewQuotes \/ KillFile
    BY <1>4 DEF NewQuotes, KillFile, Traded, bookVars
  <1> QED BY <1>1, <1>2, <1>3, <1>4 DEF FastNext, Decision, Pass, World

LEMMA RowsTyped ==
    ASSUME LoopInv, LoopInv', Traded
    PROVE  OrderRow \in OrderRows /\ FiredRow \in FiredRows
  <1>1. TradedSymbol \in Symbols
    <2>1. DOMAIN fills = Symbols /\ DOMAIN fills' = Symbols
      BY DEF LoopInv, FastTypeOK, BookTypeOK
    <2>2. fills = [s \in Symbols |-> fills[s]] /\ fills' = [s \in Symbols |-> fills'[s]]
      BY <2>1 DEF LoopInv, FastTypeOK, BookTypeOK
    <2>3. \E s \in Symbols : fills'[s] # fills[s]
      BY <2>2 DEF Traded
    <2> QED BY <2>3 DEF TradedSymbol
  <1>2. trades' \in Nat
    BY BookAssumption DEF LoopInv, FastTypeOK, BookTypeOK
  <1>3. Origin \in {"model", "armed", "unprotected", "fast_loop"}
    BY DEF Origin
  <1> QED BY <1>1, <1>2, <1>3 DEF OrderRow, FiredRow, OrderRows, FiredRows

LEMMA TogetherGrows ==
    ASSUME NEW fired, NEW closed, Together(fired, closed),
           NEW e \in FiredRows, NEW o \in OrderRows, e.of = o.id
    PROVE  Together(Append(fired, e), Append(closed, o))
  <1> DEFINE n == Len(fired)
             f == Append(fired, e)
             c == Append(closed, o)
  <1>1. /\ fired \in Seq(FiredRows) /\ closed \in Seq(OrderRows)
        /\ n \in Nat /\ Len(closed) = n
        /\ \A k \in 1..n : fired[k].of = closed[k].id
    BY LenProperties DEF Together
  <1>2. /\ f \in Seq(FiredRows) /\ Len(f) = n + 1 /\ f[n + 1] = e
        /\ \A k \in 1..n : f[k] = fired[k]
    BY <1>1, AppendProperties
  <1>3. /\ c \in Seq(OrderRows) /\ Len(c) = n + 1 /\ c[n + 1] = o
        /\ \A k \in 1..n : c[k] = closed[k]
    BY <1>1, AppendProperties
  <1> HIDE DEF n, f, c
  <1>4. \A k \in 1..(n + 1) : f[k].of = c[k].id
    <2>1. \A k \in 1..(n + 1) : k \in 1..n \/ k = n + 1
      BY <1>1
    <2> QED BY <1>1, <1>2, <1>3, <2>1
  <1>5. Together(f, c)
    BY <1>2, <1>3, <1>4 DEF Together
  <1> QED BY <1>5 DEF f, c

LEMMA RowsStep ==
    ASSUME LoopInv, LoopInv', RowsInv, [EnforcementNext]_enforcementVars
    PROVE  RowsInv'
  <1>1. CASE UNCHANGED <<orders, events>> /\ unwritten' = unwritten
    BY <1>1 DEF RowsInv, PairedUp
  <1>2. CASE FastNext /\ Recorded /\ Traded
    <2>1. /\ orders' = Append(orders, OrderRow) /\ unwritten' = unwritten
          /\ events' = IF phase = "plans" THEN Append(events, FiredRow) ELSE events
      BY <1>2 DEF Recorded
    <2>2. OrderRow \in OrderRows /\ FiredRow \in FiredRows
      BY <1>2, RowsTyped
    <2>3. /\ OrderRow.id = FiredRow.of /\ OrderRow.sym = FiredRow.sym
          /\ OrderRow.origin = Origin
      BY DEF OrderRow, FiredRow
    <2>4. phase = "plans" <=> Origin = "fast_loop"
      BY <1>2, FillsInHandlers DEF Origin
    <2> DEFINE o == OrderRow
               e == FiredRow
    <2> HIDE DEF o, e
    <2>5. orders \in Seq(OrderRows) /\ events \in Seq(FiredRows)
      BY DEF RowsInv
    <2>6. orders' \in Seq(OrderRows) /\ events' \in Seq(FiredRows)
      BY <2>1, <2>2, <2>5, AppendProperties
    <2>7. ASSUME NEW s \in Symbols, PairedUp(s)
          PROVE  PairedUp(s)'
      <3> DEFINE fired == InSet(FiresOf(s), events)
                 closed == InSet(ClosesOf(s), orders)
      <3>1. SelectsOneMore(ClosesOf(s), orders', orders, o)
        BY <2>1, <2>2, <2>5, SelectAppends DEF o
      <3>2. phase = "plans" => SelectsOneMore(FiresOf(s), events', events, e)
        BY <2>1, <2>2, <2>5, SelectAppends DEF e
      <3>3. o \in ClosesOf(s) <=> phase = "plans" /\ e \in FiresOf(s)
        BY <2>2, <2>3, <2>4 DEF ClosesOf, FiresOf, o, e
      <3>4. Together(fired, closed)
        BY <2>7 DEF PairedUp
      <3>5. InSet(ClosesOf(s), orders') =
                IF o \in ClosesOf(s) THEN Append(closed, o) ELSE closed
        BY <3>1 DEF SelectsOneMore
      <3>6. phase = "plans" =>
               InSet(FiresOf(s), events') =
                   IF e \in FiresOf(s) THEN Append(fired, e) ELSE fired
        BY <3>2 DEF SelectsOneMore
      <3>7. phase # "plans" => InSet(FiresOf(s), events') = fired
        BY <2>1
      <3>8. FiresOf(s)' = FiresOf(s) /\ ClosesOf(s)' = ClosesOf(s)
        BY DEF FiresOf, ClosesOf
      <3> HIDE DEF fired, closed
      <3>9. Together(InSet(FiresOf(s), events'), InSet(ClosesOf(s), orders'))
        <4>1. CASE o \in ClosesOf(s)
          <5>1. Together(Append(fired, e), Append(closed, o))
            BY <2>2, <2>3, <3>4, TogetherGrows DEF o, e
          <5> QED BY <3>3, <3>5, <3>6, <4>1, <5>1
        <4>2. CASE o \notin ClosesOf(s)
          BY <3>3, <3>4, <3>5, <3>6, <3>7, <4>2
        <4> QED BY <4>1, <4>2
      <3> QED BY <3>8, <3>9 DEF PairedUp
    <2> QED BY <2>1, <2>6, <2>7 DEF RowsInv
  <1>3. ASSUME NEW s \in Symbols, FireUnrecorded(s)
        PROVE  RowsInv'
    <2>1. /\ unwritten' = TRUE /\ events' = events /\ Traded
          /\ orders' = orders \/ orders' = Append(orders, OrderRow)
      BY <1>3 DEF FireUnrecorded
    <2>2. OrderRow \in OrderRows
      BY <2>1, RowsTyped
    <2>3. orders' \in Seq(OrderRows)
      BY <2>1, <2>2, AppendProperties DEF RowsInv
    <2> QED BY <2>1, <2>3 DEF RowsInv
  <1>4. CASE FastNext /\ Recorded /\ ~Traded
    BY <1>1, <1>4 DEF Recorded
  <1>5. CASE UNCHANGED enforcementVars
    BY <1>1, <1>5 DEF enforcementVars, rowVars
  <1> QED BY <1>2, <1>3, <1>4, <1>5 DEF EnforcementNext

LEMMA RowsInit == EnforcementInit => RowsInv
  <1> SUFFICES ASSUME EnforcementInit PROVE RowsInv
    OBVIOUS
  <1>1. orders = <<>> /\ events = <<>>
    BY DEF EnforcementInit
  <1>2. \A s \in Symbols :
           InSet(FiresOf(s), events) = <<>> /\ InSet(ClosesOf(s), orders) = <<>>
    BY <1>1, InSetOfNone
  <1>3. Together(<<>>, <<>>)
    BY EmptySeq DEF Together
  <1>4. orders \in Seq(OrderRows) /\ events \in Seq(FiredRows)
    BY <1>1, EmptySeq
  <1> QED BY <1>2, <1>3, <1>4 DEF RowsInv, PairedUp

(* level_fills() (eval/enforcement.py) pairs the k-th fire of a symbol with   *)
(* its k-th enforced close: as long as every write of _fire() after a close  *)
(* succeeded, that is the close which the level caused.                     *)
THEOREM FiresArePaired == EnforcementSpec => []FiresPairTheirCloses
  <1>1. RowsInv => FiresPairTheirCloses
    <2> SUFFICES ASSUME RowsInv, ~unwritten, NEW s \in Symbols
                 PROVE  /\ Len(Fires(s)) = Len(EnforcedCloses(s))
                        /\ \A pair \in Range(LevelFills(s)) : pair[1].of = pair[2].id
      BY DEF FiresPairTheirCloses
    <2> DEFINE fired == Fires(s)
               closed == EnforcedCloses(s)
    <2>1. Together(fired, closed)
      BY SelectedRows DEF RowsInv, PairedUp
    <2>2. LevelFills(s) = Zip(fired, closed)
      BY DEF LevelFills
    <2> HIDE DEF fired, closed
    <2>3. LevelFills(s) = [i \in 1..Len(fired) |-> <<fired[i], closed[i]>>]
      BY <2>1, <2>2, LenProperties DEF Together, Zip
    <2>4. \A pair \in Range(LevelFills(s)) :
             \E i \in 1..Len(fired) : pair = <<fired[i], closed[i]>>
      BY <2>3 DEF Range
    <2> QED BY <2>1, <2>4 DEF Together, fired, closed
  <1>2. LoopInv /\ LoopInv' /\ RowsInv /\ [EnforcementNext]_enforcementVars => RowsInv'
    BY RowsStep
  <1>3. EnforcementSpec => []LoopInv
    BY LoopInvariant, PTL DEF LoopSpecs
  <1> QED BY <1>1, <1>2, <1>3, RowsInit, PTL DEF EnforcementSpec
=============================================================================
