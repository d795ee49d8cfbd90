---------------------------- MODULE Enforcement -----------------------------
(***************************************************************************)
(* What the evaluation says of enforced levels: eval/enforcement.py        *)
(* level_fills(), over the rows FastLoop leaves behind.                    *)
(*                                                                         *)
(* FastLoop with the history of two tables: the filled orders with their   *)
(* origin, and the "fired" rows of exit_plan_events.  _fire() writes three  *)
(* times after its close has filled (the order's status, the plan's        *)
(* status, the event), each a commit of its own that may raise.            *)
(***************************************************************************)
EXTENDS FastLoop, SequencesExt

VARIABLES orders,     \* orders that filled, oldest first
          events,     \* exit_plan_events of kind 'fired', oldest first
          unwritten   \* a write after a close has raised (bound: MaxFaults in all)

rowVars == <<orders, events, unwritten>>
enforcementVars == <<fastVars, rowVars>>

-----------------------------------------------------------------------------
(* The rows. *)

\* _submit() is told who asks: by the handler that runs.
Origin ==
    CASE phase = "orders" -> "model"
      [] phase = "entries" -> "armed"
      [] phase = "protect" -> "unprotected"
      [] OTHER -> "fast_loop"

Traded == fills' # fills
TradedSymbol == CHOOSE s \in Symbols : fills'[s] # fills[s]
OrderRow == [id |-> trades', sym |-> TradedSymbol, origin |-> Origin]
FiredRow == [of |-> trades', sym |-> TradedSymbol]

\* Every write succeeds: a filled order has its row, an enforced close its event.
Recorded ==
    /\ orders' = IF Traded THEN Append(orders, OrderRow) ELSE orders
    /\ events' = IF Traded /\ phase = "plans" THEN Append(events, FiredRow) ELSE events
    /\ UNCHANGED unwritten
    /\ unwritten => ~Raised

\* The close filled, and a write after it raised: the order's status (the order is
\* then not among the filled), the plan's status, or the event.
FireUnrecorded(s) ==
    /\ phase = "plans" /\ s \in todo /\ BreachedNow(s)
    /\ ~unwritten /\ faults < MaxFaults /\ unwritten' = TRUE
    /\ Submit(CloseOrder(s), FALSE, halted) /\ Traded
    /\ \/ UNCHANGED <<orders, plans>>
       \/ orders' = Append(orders, OrderRow) /\ UNCHANGED plans
       \/ orders' = Append(orders, OrderRow) /\ plans' = [plans EXCEPT ![s] = NoPlan]
    /\ AbandonPass
    /\ UNCHANGED <<events, entries, armedFills, byHand, halted, quotes, killed, now, decisions>>

EnforcementInit == FastInit /\ orders = <<>> /\ events = <<>> /\ unwritten = FALSE

EnforcementNext ==
    \/ FastNext /\ Recorded
    \/ \E s \in Symbols : FireUnrecorded(s)

EnforcementSpec == EnforcementInit /\ [][EnforcementNext]_enforcementVars

EnforcementFairSpec == EnforcementSpec /\ FastFairness

-----------------------------------------------------------------------------
(* level_fills(): the k-th fire of a symbol is its k-th enforced close. *)

FiredRows == [of : Nat, sym : Symbols]
OrderRows == [id : Nat, sym : Symbols,
              origin : {"model", "armed", "unprotected", "fast_loop"}]

\* The rows of a table that a query selects, oldest first.
Selected(table, where) ==
    FoldLeft(LAMBDA found, row : IF row \in where THEN Append(found, row) ELSE found,
             <<>>, table)

Fires(s) == Selected(events, {e \in FiredRows : e.sym = s})

\* Mutant: the origin of an order is not asked.
ClosesOfAnyOrigin(s) == Selected(orders, {o \in OrderRows : o.sym = s})

EnforcedCloses(s) ==
    Selected(orders, {o \in OrderRows : o.sym = s /\ o.origin = "fast_loop"})

LevelFills(s) == Zip(Fires(s), EnforcedCloses(s))

-----------------------------------------------------------------------------
(* Properties. *)

(* As long as every write after a close succeeded, each fired level is      *)
(* measured against the fill that it caused and none is left out, however   *)
(* model orders, armed entries and unwound clips of the same symbol come in *)
(* between.                                                                 *)
FiresPairTheirCloses ==
    ~unwritten => \A s \in Symbols :
        /\ Len(Fires(s)) = Len(EnforcedCloses(s))
        /\ \A pair \in Range(LevelFills(s)) : pair[1].of = pair[2].id
=============================================================================
