--------------------------- MODULE SessionProofs ----------------------------
(***************************************************************************)
(* What holds of a session for every length of its clock, every grace and  *)
(* any number of exceptions, and of the reaper around it.                  *)
(*                                                                         *)
(* The runner is sequential, so most of what its steps rely on is a fact   *)
(* about the place it is in: Whereabouts ties pc to the row, to the halt   *)
(* and to the handler.  The rest is said of the clock and of what the last *)
(* attempt to flatten left.                                                *)
(***************************************************************************)
EXTENDS Orphans, TLAPS

Handling == {"flatten", "attempt", "retry", "finish", "over"}
Trading == {"started", "planning", "loop", "asking", "sleeping", "flatten"}
Flattening == {"attempt", "retry", "review", "finish"}

\* The row moves with the runner until an exception; then the handler runs, and a
\* halt is set that nothing takes back.
Whereabouts ==
    /\ ~failing => CASE pc = "created" -> status = "planned"
                     [] pc \in Trading -> status = "running"
                     [] pc \in Flattening -> status = "flattening"
                     [] OTHER -> status # "failed"
    /\ failing => pc \in Handling /\ halted # {}
    /\ failing /\ pc # "over" => status \in {"running", "flattening", "done", "halted"}
    /\ status = "planned" => ~held

\* The runner does not outlive the session's end, and nor does a deadline, but
\* for the handler once it has set its own.
ClockInBounds == ~failing \/ pc = "flatten" => now <= Ends /\ deadline <= Ends

\* What the flatten left is still so when the verdict is given, and no reason
\* names a held position before.
VerdictIsCurrent ==
    /\ ~failing /\ pc \in {"retry", "review", "finish"} => (stuck <=> held)
    /\ pc # "over" => "held" \notin halted
    /\ ~failing /\ pc # "over" => reason = {}

SessionInv ==
    /\ SessionTypeOK
    /\ Whereabouts
    /\ ClockInBounds
    /\ VerdictIsCurrent
    /\ HeldIsNamed
    /\ GivesUpOnlyAtDeadline
-----------------------------------------------------------------------------
(* Each part of the invariant survives a step. *)

LEMMA TypeStep ==
    ASSUME SessionTypeOK, ClockInBounds, [Next]_vars
    PROVE  SessionTypeOK'
  <1> USE SessionAssumption DEF SessionTypeOK, MaxTime, Places, Awaits, Facts, Settled,
                                rowVars, deskVars, flatVars, worldVars
  <1>a. StoppedBy \subseteq Facts
    BY DEF StoppedBy
  <1>b. MayRaise => raises' \in 0..MaxRaises
    BY DEF MayRaise
  <1>c. DeskEffect \/ UnprotectedFill => {held', watched', armed'} \subseteq BOOLEAN
    BY DEF DeskEffect, UnprotectedFill
  <1>d. Flatten => {held', watched', armed'} \subseteq BOOLEAN
    <2> SUFFICES ASSUME Flatten
                 PROVE  {held', watched', armed'} \subseteq BOOLEAN
      OBVIOUS
    <2>1. held' \in BOOLEAN
      BY ONLY Flatten DEF Flatten
    <2> QED BY ONLY Flatten, <2>1, SessionTypeOK DEF Flatten, SessionTypeOK
  <1>1. CASE Start
    BY <1>1 DEF Start
  <1>2. CASE AskForPlan
    BY <1>2 DEF AskForPlan
  <1>3. CASE PlanReturns
    BY <1>3 DEF PlanReturns, Answered, Unreachable
  <1>4. CASE BeginTick
    BY <1>4 DEF BeginTick
  <1>5. CASE TickReturns
    BY <1>5 DEF TickReturns, Answered, Unreachable, DeskEffect
  <1>6. CASE WakeUp
    BY <1>a, <1>6 DEF WakeUp
  <1>7. CASE LeaveLoop
    BY <1>a, <1>7 DEF LeaveLoop
  <1>8. CASE BeginFlatten
    <2>1. deadline' \in 0..MaxTime
      BY <1>8 DEF BeginFlatten, ClockInBounds
    <2> QED BY <1>8, <2>1 DEF BeginFlatten
  <1>9. CASE Attempt
    BY <1>9 DEF Attempt, Flatten, Onward, AfterFlatten
  <1>10. CASE Retry
    BY <1>10 DEF Retry, Flatten, Onward, AfterFlatten
  <1>11. CASE ReviewReturns
    BY <1>11 DEF ReviewReturns, Answered, Unreachable
  <1>12. CASE Finish
    BY <1>12 DEF Finish, Settle, Verdict
  <1>13. CASE Fail
    BY <1>13 DEF Fail
  <1>14. CASE Raise
    <2>1. {held', watched', armed'} \subseteq BOOLEAN
      BY <1>c, <1>d, <1>14 DEF Raise
    <2>2. /\ status' \in {"planned", "running", "flattening"} \cup Settled
          /\ reason' \subseteq Facts
      BY <1>14 DEF Raise, Settle, Verdict
    <2> QED BY <1>b, <1>14, <2>1, <2>2 DEF Raise
  <1>15. CASE RaiseAgain
    <2>1. {held', watched', armed'} \subseteq BOOLEAN
      BY <1>d, <1>15 DEF RaiseAgain
    <2> QED BY <1>b, <1>15, <2>1 DEF RaiseAgain
  <1>16. CASE Abandon
    BY <1>b, <1>16 DEF Abandon
  <1>17. CASE FastLoop
    <2>1. {held', watched', armed'} \subseteq BOOLEAN /\ raises' \in 0..MaxRaises
      BY <1>b, <1>17 DEF FastLoop, FastFire, FastClosePlan, FastEntry, FastExpire, FastFault
    <2>2. FastOnly
      BY <1>17 DEF FastLoop, FastFire, FastClosePlan, FastEntry, FastExpire, FastFault
    <2> QED BY <2>1, <2>2 DEF FastOnly
  <1>18. CASE Tick
    BY <1>18 DEF Tick, SessionOnly
  <1>19. CASE PriceTurns
    BY <1>19 DEF PriceTurns, SessionOnly
  <1>20. CASE KillSwitched
    BY <1>20 DEF KillSwitched, SessionOnly
  <1>21. CASE UNCHANGED vars
    BY <1>21 DEF vars
  <1> QED
    BY <1>1, <1>2, <1>3, <1>4, <1>5, <1>6, <1>7, <1>8, <1>9, <1>10, <1>11, <1>12, <1>13,
       <1>14, <1>15, <1>16, <1>17, <1>18, <1>19, <1>20, <1>21 DEF Next, Runner

LEMMA WhereaboutsStep ==
    ASSUME SessionTypeOK, Whereabouts, VerdictIsCurrent, [Next]_vars
    PROVE  Whereabouts'
  <1> USE DEF Whereabouts, VerdictIsCurrent, SessionTypeOK, Handling, Trading,
          Flattening, Places, Awaits, Settled, CanOpen, CanTrade, rowVars, deskVars,
          flatVars, worldVars
  <1>1. CASE Start \/ AskForPlan \/ PlanReturns
    BY <1>1 DEF Start, AskForPlan, PlanReturns, Answered, Unreachable
  <1>2. CASE BeginTick \/ TickReturns \/ WakeUp \/ LeaveLoop
    BY <1>2 DEF BeginTick, TickReturns, WakeUp, LeaveLoop, Answered, Unreachable,
            DeskEffect
  <1>3. CASE BeginFlatten \/ Attempt \/ Retry
    BY <1>3 DEF BeginFlatten, Attempt, Retry, Flatten, Onward, AfterFlatten
  <1>4. CASE ReviewReturns \/ Finish \/ Fail
    BY <1>4 DEF ReviewReturns, Finish, Fail, Settle, Verdict, Answered, Unreachable
  <1>5. CASE Raise
    BY <1>5 DEF Raise, DeskEffect, UnprotectedFill, Flatten, Settle, Verdict
  <1>6. CASE RaiseAgain \/ Abandon
    BY <1>6 DEF RaiseAgain, Abandon, Flatten
  <1>7. CASE FastLoop
    <2>1. FastRuns /\ FastOnly
      BY <1>7 DEF FastLoop, FastFire, FastClosePlan, FastEntry, FastExpire, FastFault
    <2>2. status # "planned"
      BY <2>1 DEF FastRuns
    <2> QED BY <2>1, <2>2 DEF FastOnly
  <1>8. CASE Tick \/ PriceTurns \/ KillSwitched
    BY <1>8 DEF Tick, PriceTurns, KillSwitched, SessionOnly
  <1>9. CASE UNCHANGED vars
    BY <1>9 DEF vars
  <1> QED
    BY <1>1, <1>2, <1>3, <1>4, <1>5, <1>6, <1>7, <1>8, <1>9 DEF Next, Runner

LEMMA ClockStep ==
    ASSUME SessionTypeOK, Whereabouts, ClockInBounds, [Next]_vars
    PROVE  ClockInBounds'
  <1> USE SessionAssumption DEF ClockInBounds, Whereabouts, SessionTypeOK, MaxTime,
          Handling, Awaits, rowVars, deskVars, flatVars, worldVars
  <1>1. CASE Start \/ AskForPlan \/ PlanReturns
    BY <1>1 DEF Start, AskForPlan, PlanReturns, Answered, Unreachable
  <1>2. CASE BeginTick \/ TickReturns \/ WakeUp \/ LeaveLoop
    BY <1>2 DEF BeginTick, TickReturns, WakeUp, LeaveLoop, Answered, Unreachable,
            DeskEffect
  <1>3. CASE BeginFlatten \/ Attempt \/ Retry
    BY <1>3 DEF BeginFlatten, Attempt, Retry, Flatten, Onward, AfterFlatten
  <1>4. CASE ReviewReturns \/ Finish \/ Fail
    BY <1>4 DEF ReviewReturns, Finish, Fail, Settle, Verdict, Answered, Unreachable
  <1>5. CASE Raise
    BY <1>5 DEF Raise, DeskEffect, UnprotectedFill, Flatten, Settle, Verdict
  <1>6. CASE RaiseAgain \/ Abandon
    BY <1>6 DEF RaiseAgain, Abandon, Flatten
  <1>7. CASE FastLoop
    BY <1>7 DEF FastLoop, FastFire, FastClosePlan, FastEntry, FastExpire, FastFault,
            FastRuns, FastOnly
  <1>8. CASE Tick \/ PriceTurns \/ KillSwitched
    BY <1>8 DEF Tick, PriceTurns, KillSwitched, SessionOnly
  <1>9. CASE UNCHANGED vars
    BY <1>9 DEF vars
  <1> QED
    BY <1>1, <1>2, <1>3, <1>4, <1>5, <1>6, <1>7, <1>8, <1>9 DEF Next, Runner

LEMMA VerdictStep ==
    ASSUME SessionTypeOK, Whereabouts, VerdictIsCurrent, [Next]_vars
    PROVE  VerdictIsCurrent'
  <1> USE DEF VerdictIsCurrent, Whereabouts, SessionTypeOK, Handling, Awaits, CanOpen,
          CanTrade, StoppedBy, rowVars, deskVars, flatVars, worldVars
  <1>1. CASE Start \/ AskForPlan \/ PlanReturns
    BY <1>1 DEF Start, AskForPlan, PlanReturns, Answered, Unreachable
  <1>2. CASE BeginTick \/ TickReturns \/ WakeUp \/ LeaveLoop
    BY <1>2 DEF BeginTick, TickReturns, WakeUp, LeaveLoop, Answered, Unreachable,
            DeskEffect
  <1>3. CASE BeginFlatten \/ Attempt \/ Retry
    BY <1>3 DEF BeginFlatten, Attempt, Retry, Flatten, Onward, AfterFlatten
  <1>4. CASE ReviewReturns \/ Finish \/ Fail
    BY <1>4 DEF ReviewReturns, Finish, Fail, Settle, Verdict, Answered, Unreachable
  <1>5. CASE Raise
    BY <1>5 DEF Raise, DeskEffect, UnprotectedFill, Flatten, Settle, Verdict
  <1>6. CASE RaiseAgain \/ Abandon
    BY <1>6 DEF RaiseAgain, Abandon, Flatten
  <1>7. CASE FastLoop
    BY <1>7 DEF FastLoop, FastFire, FastClosePlan, FastEntry, FastExpire, FastFault,
            FastRuns, FastOnly
  <1>8. CASE Tick \/ PriceTurns \/ KillSwitched
    BY <1>8 DEF Tick, PriceTurns, KillSwitched, SessionOnly
  <1>9. CASE UNCHANGED vars
    BY <1>9 DEF vars
  <1> QED
    BY <1>1, <1>2, <1>3, <1>4, <1>5, <1>6, <1>7, <1>8, <1>9 DEF Next, Runner

LEMMA HeldStep ==
    ASSUME SessionTypeOK, Whereabouts, VerdictIsCurrent, HeldIsNamed, [Next]_vars
    PROVE  HeldIsNamed'
  <1> USE DEF HeldIsNamed, VerdictIsCurrent, Whereabouts, SessionTypeOK, Handling,
          Trading, Flattening, Places, Awaits, rowVars, deskVars, flatVars, worldVars
  <1>1. CASE Start \/ AskForPlan \/ PlanReturns
    BY <1>1 DEF Start, AskForPlan, PlanReturns, Answered, Unreachable
  <1>2. CASE BeginTick \/ TickReturns \/ WakeUp \/ LeaveLoop
    BY <1>2 DEF BeginTick, TickReturns, WakeUp, LeaveLoop, Answered, Unreachable,
            DeskEffect
  <1>3. CASE BeginFlatten \/ Attempt \/ Retry
    BY <1>3 DEF BeginFlatten, Attempt, Retry, Flatten, Onward, AfterFlatten
  <1>4. CASE ReviewReturns \/ Finish \/ Fail
    BY <1>4 DEF ReviewReturns, Finish, Fail, Settle, Verdict, Answered, Unreachable
  <1>5. CASE Raise
    BY <1>5 DEF Raise, DeskEffect, UnprotectedFill, Flatten, Settle, Verdict
  <1>6. CASE RaiseAgain \/ Abandon
    BY <1>6 DEF RaiseAgain, Abandon, Flatten
  <1>7. CASE FastLoop
    BY <1>7 DEF FastLoop, FastFire, FastClosePlan, FastEntry, FastExpire, FastFault,
            FastRuns, FastOnly
  <1>8. CASE Tick \/ PriceTurns \/ KillSwitched
    BY <1>8 DEF Tick, PriceTurns, KillSwitched, SessionOnly
  <1>9. CASE UNCHANGED vars
    BY <1>9 DEF vars
  <1> QED
    BY <1>1, <1>2, <1>3, <1>4, <1>5, <1>6, <1>7, <1>8, <1>9 DEF Next, Runner

LEMMA GivesUpStep ==
    ASSUME SessionTypeOK, Whereabouts, GivesUpOnlyAtDeadline, [Next]_vars
    PROVE  GivesUpOnlyAtDeadline'
  <1> USE SessionAssumption DEF GivesUpOnlyAtDeadline, Whereabouts, SessionTypeOK,
          MaxTime, Handling, Awaits, rowVars, deskVars, flatVars, worldVars
  <1>1. CASE Start \/ AskForPlan \/ PlanReturns
    BY <1>1 DEF Start, AskForPlan, PlanReturns, Answered, Unreachable
  <1>2. CASE BeginTick \/ TickReturns \/ WakeUp \/ LeaveLoop
    BY <1>2 DEF BeginTick, TickReturns, WakeUp, LeaveLoop, Answered, Unreachable,
            DeskEffect
  <1>3. CASE BeginFlatten \/ Attempt \/ Retry
    <2>1. CASE BeginFlatten
      BY <2>1 DEF BeginFlatten
    <2>2. CASE Attempt
      BY <2>2 DEF Attempt, Onward, AfterFlatten
    <2>3. CASE Retry
      BY <2>3 DEF Retry, Onward, AfterFlatten
    <2> QED BY <1>3, <2>1, <2>2, <2>3
  <1>4. CASE ReviewReturns \/ Finish \/ Fail
    BY <1>4 DEF ReviewReturns, Finish, Fail, Settle, Verdict, Answered, Unreachable
  <1>5. CASE Raise
    BY <1>5 DEF Raise, DeskEffect, UnprotectedFill, Flatten, Settle, Verdict
  <1>6. CASE RaiseAgain \/ Abandon
    BY <1>6 DEF RaiseAgain, Abandon, Flatten
  <1>7. CASE FastLoop
    BY <1>7 DEF FastLoop, FastFire, FastClosePlan, FastEntry, FastExpire, FastFault,
            FastRuns, FastOnly
  <1>8. CASE Tick \/ PriceTurns \/ KillSwitched
    <2>1. now \in Nat /\ deadline \in Nat /\ (now' = now \/ now' = now + 1)
      BY <1>8 DEF Tick, PriceTurns, KillSwitched
    <2>2. UNCHANGED <<pc, stuck, killSeen, deadline>>
      BY <1>8 DEF Tick, PriceTurns, KillSwitched, SessionOnly
    <2> QED BY <2>1, <2>2
  <1>9. CASE UNCHANGED vars
    BY <1>9 DEF vars
  <1> QED
    BY <1>1, <1>2, <1>3, <1>4, <1>5, <1>6, <1>7, <1>8, <1>9 DEF Next, Runner

(* Together they are inductive. *)
LEMMA InvariantHolds == Spec => []SessionInv
  <1>1. Init => SessionInv
    <2> SUFFICES ASSUME Init
                 PROVE  SessionInv
      OBVIOUS
    <2>1. SessionTypeOK
      <3>1. {held, watched, armed, fast, failing, killSeen, stuck, fresh, losing,
             killed} \subseteq BOOLEAN
        BY DEF Init
      <3> QED
        BY <3>1, SessionAssumption DEF Init, SessionTypeOK, Places, Facts, Settled, MaxTime
    <2>2. Whereabouts
      BY DEF Init, Whereabouts, Trading, Flattening
    <2>3. ClockInBounds /\ VerdictIsCurrent
      BY SessionAssumption DEF Init, ClockInBounds, VerdictIsCurrent
    <2>4. HeldIsNamed /\ GivesUpOnlyAtDeadline
      BY DEF Init, HeldIsNamed, GivesUpOnlyAtDeadline
    <2> QED BY <2>1, <2>2, <2>3, <2>4 DEF SessionInv
  <1>2. SessionInv /\ [Next]_vars => SessionInv'
    BY TypeStep, WhereaboutsStep, ClockStep, VerdictStep, HeldStep, GivesUpStep
    DEF SessionInv
  <1> QED BY <1>1, <1>2, PTL DEF Spec

-----------------------------------------------------------------------------
(* The theorems. *)

(* The variables keep their types and the fast loop never outlives the     *)
(* loop over ticks, but under the exception handler (session/runner.py     *)
(* run()).                                                                 *)
THEOREM SessionTypeCorrect == Spec => []SessionTypeOK
  <1>1. SessionInv => SessionTypeOK
    BY DEF SessionInv
  <1> QED BY <1>1, InvariantHolds, PTL

(* A session recorded as done or halted says that it is holding exactly    *)
(* when it is, whatever happened between the last attempt to flatten and   *)
(* the status (session/runner.py _flatten_until_flat(), _finish()).        *)
THEOREM VerdictIsTrue == Spec => []HeldIsNamed
  <1>1. SessionInv => HeldIsNamed
    BY DEF SessionInv
  <1> QED BY <1>1, InvariantHolds, PTL

(* The flatten is given up with a position left only at its deadline or    *)
(* against an engaged kill switch (session/runner.py                       *)
(* _flatten_until_flat()).                                                 *)
THEOREM FlattenPersists == Spec => []GivesUpOnlyAtDeadline
  <1>1. SessionInv => GivesUpOnlyAtDeadline
    BY DEF SessionInv
  <1> QED BY <1>1, InvariantHolds, PTL

(* No position is opened once the session is halted, nor, but for the      *)
(* answer under way, past stop_opening (session/runner.py _submit(),       *)
(* session/fastloop.py _check_entries()).                                  *)
THEOREM HaltIsFinal == Spec => HaltStopsTrading
  <1> DEFINE Opens == ~held /\ held' => halted = {} /\ (now < StopOpening \/ pc = "asking")
  <1>1. [Next]_vars => [Opens]_vars
    <2> SUFFICES ASSUME [Next]_vars, ~held, held'
                 PROVE  halted = {} /\ (now < StopOpening \/ pc = "asking")
      OBVIOUS
    <2>1. CASE TickReturns
      BY <2>1 DEF TickReturns, DeskEffect, CanOpen, deskVars
    <2>2. CASE Raise
      BY <2>2 DEF Raise, DeskEffect, UnprotectedFill, Flatten, CanOpen, deskVars
    <2>3. CASE FastLoop
      BY <2>3 DEF FastLoop, FastFire, FastClosePlan, FastEntry, FastExpire, FastFault,
                  CanOpen
    <2>4. CASE Attempt \/ Retry \/ RaiseAgain
      BY <2>4 DEF Attempt, Retry, RaiseAgain, Flatten, deskVars
    <2>5. CASE UNCHANGED held
      BY <2>5
    <2> QED
      BY <2>1, <2>2, <2>3, <2>4, <2>5
      DEF Next, Runner, vars, deskVars, Start, AskForPlan, PlanReturns, BeginTick, WakeUp,
          LeaveLoop, BeginFlatten, ReviewReturns, Finish, Fail, Abandon, Tick, PriceTurns,
          KillSwitched, SessionOnly
  <1> QED BY <1>1, PTL DEF Spec, HaltStopsTrading

(* The row moves only as Lifecycle says, because a session opens nothing   *)
(* but while it runs.                                                      *)
LEMMA RowStep ==
    ASSUME SessionInv, [Next]_vars
    PROVE  [Row!Next]_<<status, held>>
  <1> USE DEF SessionInv, SessionTypeOK, Whereabouts, VerdictIsCurrent, Handling, Trading,
              Flattening, Places, Awaits, rowVars, deskVars, flatVars, worldVars,
              Row!Next, Row!Begin, Row!Open, Row!Close, Row!WindDown, Row!Settle, Row!Fail
  <1>1. CASE Start \/ AskForPlan \/ PlanReturns
    BY <1>1 DEF Start, AskForPlan, PlanReturns
  <1>2. CASE BeginTick \/ TickReturns \/ WakeUp \/ LeaveLoop
    BY <1>2 DEF BeginTick, TickReturns, WakeUp, LeaveLoop, DeskEffect, CanOpen
  <1>3. CASE BeginFlatten \/ Attempt \/ Retry
    BY <1>3 DEF BeginFlatten, Attempt, Retry, Flatten
  <1>4. CASE ReviewReturns \/ Finish \/ Fail
    BY <1>4 DEF ReviewReturns, Finish, Fail, Settle, Verdict
  <1>5. CASE Raise
    BY <1>5 DEF Raise, DeskEffect, UnprotectedFill, Flatten, Settle, Verdict
  <1>6. CASE RaiseAgain \/ Abandon
    BY <1>6 DEF RaiseAgain, Abandon, Flatten
  <1>7. CASE FastLoop
    BY <1>7 DEF FastLoop, FastFire, FastClosePlan, FastEntry, FastExpire, FastFault,
                FastRuns, FastOnly, CanOpen
  <1>8. CASE Tick \/ PriceTurns \/ KillSwitched
    BY <1>8 DEF Tick, PriceTurns, KillSwitched, SessionOnly
  <1>9. CASE UNCHANGED vars
    BY <1>9 DEF vars
  <1> QED
    BY <1>1, <1>2, <1>3, <1>4, <1>5, <1>6, <1>7, <1>8, <1>9 DEF Next, Runner

(* A session row keeps what Lifecycle promises of one, through exceptions  *)
(* and whatever the fast loop does (session/runner.py run()).              *)
THEOREM SessionImplementsLifecycle == Spec => SessionIsALifecycle
  <1>1. Init => Row!Init
    BY DEF Init, Row!Init
  <1>2. SessionInv /\ [Next]_vars => [Row!Next]_<<status, held>>
    BY RowStep
  <1> QED BY <1>1, <1>2, InvariantHolds, PTL DEF Spec, SessionIsALifecycle, Row!Spec

-----------------------------------------------------------------------------
(* The reaper, for every length of a model call, every margin no shorter   *)
(* than a wait, any number of suspensions and any number of restarts.  A   *)
(* runner that is alive, was not suspended and has not lain through two    *)
(* model calls without a beat is out of reach of the reaper's threshold.   *)

\* How old the heartbeat of a live runner may be, by the model calls it has lain
\* through: none, and a wait is all; one, and it is that call on top of a wait.
BeatIsRecent ==
    /\ age \in Nat \cup {Unbeaten}
    /\ calls \in 0..2
    /\ spent \in 0..CallTime
    /\ calls = 0 => pc \notin Calls
    /\ pc # "over" /\ age # Unbeaten /\ ~slept =>
          /\ calls = 0 => age <= Pause
          /\ calls = 1 => age <= Pause + (IF pc \in Calls THEN spent ELSE CallTime)

(* No step brings a finished runner back.                                  *)
LEMMA OverIsOver ==
    ASSUME [OrphansNext]_orphanVars, pc = "over"
    PROVE  pc' = "over"
  <1> USE DEF Awaits
  <1>1. CASE Drive
    BY <1>1 DEF Drive, Start, AskForPlan, Runner, PlanReturns, BeginTick, TickReturns,
                WakeUp, LeaveLoop, BeginFlatten, Attempt, Retry, ReviewReturns, Finish,
                Fail
  <1>2. CASE Environs
    BY <1>2 DEF Environs, Raise, RaiseAgain, Abandon, FastLoop, FastFire, FastClosePlan,
                FastEntry, FastExpire, FastFault, FastOnly, PriceTurns, KillSwitched,
                SessionOnly
  <1>3. CASE SessionTick \/ Beat \/ Elapse \/ Suspend
    BY <1>3 DEF SessionTick, Tick, SessionOnly, Beat, Elapse, Suspend, vars
  <1>4. CASE ReapRead \/ ReapWrite \/ ReapFails \/ Crash
    BY <1>4 DEF ReapRead, ReapWrite, ReapFails, Crash, vars
  <1>5. CASE UNCHANGED orphanVars
    BY <1>5 DEF orphanVars, vars
  <1> QED BY <1>1, <1>2, <1>3, <1>4, <1>5 DEF OrphansNext

(* Whatever else moves a runner takes it out of a model call: only a step  *)
(* of its own enters one.                                                  *)
LEMMA EnvironsGo ==
    ASSUME Environs
    PROVE  pc' = pc \/ pc' \notin Calls
  BY DEF Environs, Raise, RaiseAgain, Abandon, FastLoop, FastFire, FastClosePlan, FastEntry,
         FastExpire, FastFault, FastOnly, PriceTurns, KillSwitched, SessionOnly, Calls

(* Only time and a suspension age a heartbeat; time ages a live one only   *)
(* while a wait or a model call lasts, and each call adds its own length.  *)
LEMMA BeatStep ==
    ASSUME BeatIsRecent, [OrphansNext]_orphanVars
    PROVE  BeatIsRecent'
  <1>0. pc' # "over" => pc # "over"
    BY OverIsOver
  <1> USE OrphansAssumption, <1>0 DEF BeatIsRecent
  <1>1. CASE Drive
    <2>0. spent' = 0
      BY <1>1 DEF Drive
    <2>1. CASE pc' = "started" /\ age' = Unbeaten /\ UNCHANGED <<slept, calls>>
      BY <2>0, <2>1 DEF Calls
    <2>2. CASE BeatsOnTheWay /\ FirstBeat /\ calls' = IF pc' = "retry" THEN 0 ELSE 1
      BY <2>0, <2>2 DEF BeatsOnTheWay, FirstBeat, Calls
    <2>3. CASE /\ pc' = "review" /\ calls' = (IF calls = 0 THEN 1 ELSE 2)
               /\ UNCHANGED <<age, slept>>
      BY <2>0, <2>3 DEF Calls
    <2>4. CASE /\ ~BeatsOnTheWay /\ pc' \notin {"started", "review"}
               /\ UNCHANGED <<age, slept, calls>>
      <3>1. pc' \notin Calls
        BY <2>4 DEF BeatsOnTheWay, Calls
      <3> QED BY <2>0, <2>4, <3>1
    <2> QED BY <1>1, <2>1, <2>2, <2>3, <2>4 DEF Drive
  <1>2. CASE Environs
    <2>1. UNCHANGED <<age, slept, calls>> /\ spent' = IF pc' = pc THEN spent ELSE 0
      BY <1>2 DEF Environs
    <2>2. CASE pc' = pc
      BY <2>1, <2>2
    <2>3. CASE pc' # pc
      <3>1. pc' \notin Calls
        BY <1>2, <2>3, EnvironsGo
      <3> QED BY <2>1, <2>3, <3>1
    <2> QED BY <2>2, <2>3
  <1>3. CASE SessionTick
    BY <1>3 DEF SessionTick, Tick, SessionOnly, beatVars
  <1>4. CASE Crash
    BY <1>4 DEF Crash, beatVars, Calls
  <1>5. CASE Beat
    BY <1>5 DEF Beat, FirstBeat, vars
  <1>6. CASE Elapse
    BY <1>6 DEF Elapse, Lasts, vars
  <1>7. CASE Suspend
    BY <1>7 DEF Suspend, Stale, vars
  <1>8. CASE ReapRead \/ ReapWrite \/ ReapFails
    BY <1>8 DEF ReapRead, ReapWrite, ReapFails, beatVars, vars
  <1>9. CASE UNCHANGED orphanVars
    BY <1>9 DEF orphanVars, beatVars, vars
  <1> QED
    BY <1>1, <1>2, <1>3, <1>4, <1>5, <1>6, <1>7, <1>8, <1>9 DEF OrphansNext

LEMMA BeatAlwaysRecent == OrphansSpec => []BeatIsRecent
  <1>1. OrphansInit => BeatIsRecent
    BY OrphansAssumption DEF OrphansInit, Init, BeatIsRecent, Calls
  <1> QED BY <1>1, BeatStep, PTL DEF OrphansSpec

(* The reaper (api/main.py, _reap_orphans) reads a session as dead only if *)
(* its task has gone, if it has no heartbeat yet, after a suspension, or   *)
(* when two model calls in a row went by without a beat; however slow one  *)
(* call is, and whatever raises.                                           *)
THEOREM ReapedOnlyIfDead == OrphansSpec => ReapsTheDead
  <1>1. ASSUME BeatIsRecent, [OrphansNext]_orphanVars, caught' /\ ~caught, pc # "over"
        PROVE  age = Unbeaten \/ slept \/ calls = 2
    <2>1. CASE ReapRead
      <3>1. age = Unbeaten \/ age = CallTime + Margin + 1
        BY <2>1 DEF ReapRead, Reapable, Overdue, Stale
      <3> SUFFICES ASSUME age # Unbeaten, ~slept, calls # 2
                   PROVE  FALSE
        OBVIOUS
      <3>2. age <= Pause + CallTime
        BY <1>1, OrphansAssumption DEF BeatIsRecent
      <3> QED BY <3>1, <3>2, OrphansAssumption
    <2>2. CASE ReapWrite \/ ReapFails \/ Crash \/ UNCHANGED orphanVars
      BY <2>2, <1>1 DEF ReapWrite, ReapFails, Crash, orphanVars
    <2>3. CASE Drive \/ Environs \/ SessionTick \/ Beat \/ Elapse \/ Suspend
      BY <2>3, <1>1 DEF Drive, Environs, SessionTick, Beat, Elapse, Suspend
    <2> QED BY <1>1, <2>1, <2>2, <2>3 DEF OrphansNext
  <1>2. BeatIsRecent /\ [OrphansNext]_orphanVars
            => [caught' /\ ~caught /\ pc # "over"
                   => age = Unbeaten \/ slept \/ calls = 2]_orphanVars
    BY <1>1
  <1> QED BY <1>2, BeatAlwaysRecent, PTL DEF OrphansSpec, ReapsTheDead
=============================================================================
