------------------------------ MODULE Session -------------------------------
(***************************************************************************)
(* The life of one session: SessionRunner.run and what it awaits.          *)
(*                                                                         *)
(* The coroutine gives way only where it awaits: a model call, the wait    *)
(* between ticks, the wait between two attempts to flatten.  pc names the  *)
(* await (or the synchronous stretch) the runner is in; the fast loop, the *)
(* feed and the clock move only while it awaits, and the KILL file at any  *)
(* time.  The book is one position that is held or not: Book and FastLoop  *)
(* have the detail.                                                        *)
(***************************************************************************)
EXTENDS Naturals

CONSTANTS StopOpening,   \* when the loop over ticks ends
          Ends,          \* the end of the session, the flatten's deadline
          Grace,         \* _FLATTEN_GRACE_MS, the deadline of a failed session
          MaxRaises      \* bound: exceptions

ASSUME SessionAssumption ==
    /\ StopOpening \in Nat /\ Ends \in Nat /\ StopOpening <= Ends
    /\ Grace \in Nat /\ MaxRaises \in Nat

VARIABLES
    pc,          \* where the runner is
    status,      \* sessions.status
    reason,      \* sessions.halt_reason, as the set of facts it names
    halted,      \* SessionRunner._halted, likewise
    held,        \* the book holds a position
    watched,     \* exit_plans has an active row for it
    armed,       \* pending_entries has a waiting row
    fast,        \* the fast loop's task is alive
    failing,     \* the runner is in run()'s exception handler
    deadline,    \* when the flatten in progress gives up
    killSeen,    \* what _flatten_until_flat sampled of the kill switch
    stuck,       \* what the last attempt to flatten returned: still holding
    fresh,       \* the feed's price is one the risk layer accepts
    losing,      \* the marks are below the session's loss limit
    killed,      \* the KILL file exists
    now,         \* the clock
    raises       \* exceptions so far (bound: MaxRaises)

rowVars == <<status, reason>>
deskVars == <<held, watched, armed>>
flatVars == <<failing, deadline, killSeen, stuck>>
worldVars == <<fresh, losing, killed, now>>
vars == <<pc, rowVars, halted, deskVars, fast, flatVars, worldVars, raises>>

Awaits == {"planning", "asking", "sleeping", "retry", "review"}
Places == Awaits \cup {"created", "started", "loop", "flatten", "attempt", "finish", "over"}
Facts == {"kill", "loss", "model", "error", "held", "interrupted"}
Settled == {"done", "halted", "failed"}
MaxTime == Ends + Grace

\* The variables have their types, and the fast loop's task lives only between
\* the plan and the flatten, or under run()'s exception handler.
SessionTypeOK ==
    /\ pc \in Places
    /\ status \in {"planned", "running", "flattening"} \cup Settled
    /\ reason \subseteq Facts /\ halted \subseteq Facts
    /\ {held, watched, armed, fast, failing, killSeen, stuck, fresh, losing,
         killed} \subseteq BOOLEAN
    /\ deadline \in 0..MaxTime /\ now \in 0..MaxTime
    /\ raises \in 0..MaxRaises
    /\ fast => failing \/ pc \in {"loop", "asking", "sleeping"}

CanTrade == fresh /\ ~killed
\* Mutant: the risk layer is not told that the session is halted.
CanOpenThoughHalted == CanTrade /\ ~losing

CanOpen == CanTrade /\ halted = {} /\ ~losing

-----------------------------------------------------------------------------
(* From create() to the loop over ticks. *)

Start ==
    /\ pc = "created" /\ pc' = "started"
    /\ status' = "running"
    /\ UNCHANGED <<reason, halted, deskVars, fast, flatVars, worldVars, raises>>

\* The first beat, and on to the call that asks for a plan.
AskForPlan ==
    /\ pc = "started" /\ pc' = "planning"
    /\ UNCHANGED <<rowVars, halted, deskVars, fast, flatVars, worldVars, raises>>

\* _ask(): the model answers, or cannot be reached and the session is halted.
Answered == UNCHANGED halted
Unreachable == halted' = {"model"}

PlanReturns ==
    /\ pc = "planning" /\ pc' = "loop"
    /\ Answered \/ Unreachable
    /\ fast' = TRUE
    /\ UNCHANGED <<rowVars, deskVars, flatVars, worldVars, raises>>

-----------------------------------------------------------------------------
(* The loop over ticks. *)

\* _stopped(): why the session must stop now; {} if it need not.
StoppedBy ==
    IF killed THEN {"kill"}
    ELSE IF halted # {} THEN halted
    ELSE IF (held => fresh) /\ losing THEN {"loss"} ELSE {}

BeginTick ==
    /\ pc = "loop" /\ pc' = "asking"
    /\ now < StopOpening /\ StoppedBy = {}
    /\ UNCHANGED <<rowVars, halted, deskVars, fast, flatVars, worldVars, raises>>

\* Mutant: the loop over ticks ends and its fast loop is left alive.
LeaveLoopFastAlive ==
    /\ pc = "loop" /\ pc' = "flatten"
    /\ \/ now >= StopOpening /\ UNCHANGED halted
       \/ now < StopOpening /\ StoppedBy # {} /\ halted' = StoppedBy
    /\ UNCHANGED <<rowVars, deskVars, fast, failing, deadline, killSeen, stuck, worldVars,
                   raises>>

\* The clock, the kill switch, the loss limit or an earlier halt ends the loop;
\* the clock is asked first.  The fast loop is stopped before the flatten.
LeaveLoop ==
    /\ pc = "loop" /\ pc' = "flatten"
    /\ \/ now >= StopOpening /\ UNCHANGED halted
       \/ now < StopOpening /\ StoppedBy # {} /\ halted' = StoppedBy
    /\ fast' = FALSE
    /\ UNCHANGED <<rowVars, deskVars, failing, deadline, killSeen, stuck, worldVars,
                   raises>>

\* One effect of a decision on the desk; a decision has any number of them, and
\* the ones that undo each other are the behaviours that skip both.
DeskEffect ==
    \/ UNCHANGED deskVars
    \/ ~held /\ CanOpen /\ held' = TRUE /\ watched' = TRUE /\ UNCHANGED armed
    \/ held /\ CanTrade /\ held' = FALSE /\ UNCHANGED <<watched, armed>>
    \/ armed' = ~armed /\ UNCHANGED <<held, watched>>

\* _apply_decision() on an answer, however late; or there is none to apply.
TickReturns ==
    /\ pc = "asking" /\ pc' = "sleeping"
    /\ \/ Answered /\ DeskEffect
       \/ Unreachable /\ UNCHANGED deskVars
    /\ UNCHANGED <<rowVars, fast, flatVars, worldVars, raises>>

\* The wait ends with the tick's period or the clock, or because _stopped() is
\* asked every second and answers.
WakeUp ==
    /\ pc = "sleeping" /\ pc' = "loop"
    /\ UNCHANGED halted \/ (StoppedBy # {} /\ halted' = StoppedBy)
    /\ UNCHANGED <<rowVars, deskVars, fast, flatVars, worldVars, raises>>

-----------------------------------------------------------------------------
(* _flatten_until_flat().  The five seconds between two attempts are less than
   a unit of the clock. *)

\* Mutant: the status is not moved before the flatten.
BeginFlattenQuietly ==
    /\ pc = "flatten" /\ pc' = "attempt"
    /\ deadline' = IF failing THEN now + Grace ELSE Ends
    /\ killSeen' = killed
    /\ UNCHANGED <<rowVars, halted, deskVars, fast, failing, stuck, worldVars, raises>>

\* Status first in the ordinary case; the exception handler goes straight here.
\* The kill switch is sampled once.
BeginFlatten ==
    /\ pc = "flatten" /\ pc' = "attempt"
    /\ status' = IF failing THEN status ELSE "flattening"
    /\ deadline' = IF failing THEN now + Grace ELSE Ends
    /\ killSeen' = killed
    /\ UNCHANGED <<reason, halted, deskVars, fast, failing, stuck, worldVars, raises>>

\* _flatten(): armed entries are withdrawn, then every open position is sold if
\* the risk layer accepts the order.
Flatten ==
    /\ armed' = FALSE
    /\ held' = (held /\ ~CanTrade)
    /\ UNCHANGED watched

AfterFlatten == IF failing THEN "finish" ELSE "review"

\* Mutants: one attempt to flatten whatever it left; retries past the deadline.
OnwardAfterOneAttempt == AfterFlatten
OnwardUntilFlat == IF stuck' THEN "retry" ELSE AfterFlatten

\* Whether there is time for another attempt is asked before the wait for it.
Onward == IF stuck' /\ now < deadline THEN "retry" ELSE AfterFlatten

\* The first attempt.  Against a kill switch that was engaged when sampled it is
\* also the last.
Attempt ==
    /\ pc = "attempt"
    /\ Flatten
    /\ stuck' = held'
    /\ pc' = IF killSeen THEN AfterFlatten ELSE Onward
    /\ UNCHANGED <<rowVars, halted, fast, failing, deadline, killSeen, worldVars, raises>>

\* Only a position the feed prices is tried again.
Retry ==
    /\ pc = "retry"
    /\ Flatten
    /\ stuck' = held'
    /\ pc' = Onward
    /\ UNCHANGED <<rowVars, halted, fast, failing, deadline, killSeen, worldVars, raises>>

-----------------------------------------------------------------------------
(* _review() and _finish(). *)

ReviewReturns ==
    /\ pc = "review" /\ pc' = "finish"
    /\ Answered \/ Unreachable
    /\ UNCHANGED <<rowVars, deskVars, fast, flatVars, worldVars, raises>>

\* Mutant: what the flatten left reaches the row only when nothing else stopped
\* the session.
VerdictKeepsFirst == IF stuck /\ halted = {} THEN {"held"} ELSE halted

\* The terminal status and reason, from what stopped the session early and what
\* the flatten left.
Verdict == IF stuck THEN halted \cup {"held"} ELSE halted

Settle ==
    /\ status' = IF Verdict = {} THEN "done" ELSE "halted"
    /\ reason' = IF Verdict = {} THEN reason ELSE Verdict

Finish ==
    /\ pc = "finish" /\ ~failing /\ pc' = "over"
    /\ Settle
    /\ halted' = Verdict
    /\ UNCHANGED <<deskVars, fast, flatVars, worldVars, raises>>

-----------------------------------------------------------------------------
(* An exception out of anything run() calls: the database, mostly. *)

MayRaise == raises < MaxRaises /\ raises' = raises + 1

\* Booked, and the exception came before a plan was attached.
UnprotectedFill == ~held /\ CanOpen /\ held' = TRUE /\ UNCHANGED <<watched, armed>>

\* What the try block had done by then stands, _finish's status included.
Raise ==
    /\ MayRaise /\ ~failing
    /\ pc \in Awaits \cup {"attempt", "finish"} /\ pc' = "flatten"
    /\ failing' = TRUE
    /\ halted' = {"error"}
    /\ \/ UNCHANGED deskVars
       \/ pc = "asking" /\ (DeskEffect \/ UnprotectedFill)
       \/ pc \in {"attempt", "retry"} /\ Flatten
    /\ \/ UNCHANGED rowVars
       \/ pc = "finish" /\ Settle
    /\ UNCHANGED <<fast, deadline, killSeen, stuck, worldVars>>

\* An exception out of the handler's own attempt to flatten, its first say()
\* included, is suppressed and ends the attempt.
RaiseAgain ==
    /\ MayRaise /\ failing
    /\ pc \in {"flatten", "attempt", "retry"} /\ pc' = "finish"
    /\ \/ UNCHANGED deskVars
       \/ pc \in {"attempt", "retry"} /\ Flatten
    /\ UNCHANGED <<rowVars, halted, fast, flatVars, worldVars>>

\* The handler's last write, and the finally clause.
Fail ==
    /\ pc = "finish" /\ failing /\ pc' = "over"
    /\ status' = "failed" /\ reason' = halted
    /\ fast' = FALSE
    /\ UNCHANGED <<halted, deskVars, flatVars, worldVars, raises>>

\* An exception before the try block or out of the handler's last write ends the
\* task and leaves the row as it was.
Abandon ==
    /\ MayRaise
    /\ pc \in {"created", "started"} \/ (pc = "finish" /\ failing)
    /\ pc' = "over" /\ fast' = FALSE
    /\ UNCHANGED <<rowVars, halted, deskVars, flatVars, worldVars>>

-----------------------------------------------------------------------------
(* The fast loop, alive and between two of its own waits, while the runner awaits. *)

FastRuns == fast /\ pc \in Awaits
FastOnly == UNCHANGED <<pc, rowVars, halted, fast, flatVars, worldVars>>

FastFire ==
    /\ FastRuns /\ held /\ watched /\ CanTrade
    /\ held' = FALSE /\ watched' = FALSE
    /\ UNCHANGED <<armed, raises>> /\ FastOnly

FastClosePlan ==
    /\ FastRuns /\ watched /\ ~held
    /\ watched' = FALSE
    /\ UNCHANGED <<held, armed, raises>> /\ FastOnly

\* An armed entry whose trigger printed: filled and protected, unwound by
\* protect(), or refused.
FastEntry ==
    /\ FastRuns /\ armed /\ fresh /\ now < StopOpening
    /\ armed' = FALSE
    /\ \/ CanOpen /\ held' = TRUE /\ watched' = TRUE
       \/ CanOpen /\ held' = FALSE /\ UNCHANGED watched
       \/ ~CanOpen /\ UNCHANGED <<held, watched>>
    /\ UNCHANGED raises /\ FastOnly

FastExpire ==
    /\ FastRuns /\ armed /\ now >= StopOpening
    /\ armed' = FALSE
    /\ UNCHANGED <<held, watched, raises>> /\ FastOnly

\* run() survives an exception between the fill of an armed entry and its plan.
FastFault ==
    /\ FastRuns /\ armed /\ CanOpen /\ now < StopOpening
    /\ MayRaise
    /\ held' = TRUE /\ armed' \in {TRUE, FALSE} /\ UNCHANGED watched
    /\ FastOnly

FastLoop == FastFire \/ FastClosePlan \/ FastEntry \/ FastExpire \/ FastFault

-----------------------------------------------------------------------------
(* The clock, the feed and the operator.  The clock stops where nobody compares
   with it any more. *)

SessionOnly == UNCHANGED <<pc, rowVars, halted, deskVars, fast, flatVars, raises>>

Tick ==
    /\ pc # "over"
    /\ now < Ends \/ (failing /\ now < deadline)
    /\ now' = now + 1
    /\ UNCHANGED <<fresh, losing, killed>> /\ SessionOnly

\* A print arrives or grows old; prices move under a position.
PriceTurns ==
    /\ pc \in Awaits
    /\ \/ fresh' = ~fresh /\ UNCHANGED losing
       \/ held /\ losing' = ~losing /\ UNCHANGED fresh
    /\ UNCHANGED <<killed, now>> /\ SessionOnly

KillSwitched ==
    /\ pc # "over"
    /\ killed' = ~killed
    /\ UNCHANGED <<fresh, losing, now>> /\ SessionOnly

-----------------------------------------------------------------------------

Init ==
    /\ pc = "created" /\ status = "planned" /\ reason = {} /\ halted = {}
    /\ held = FALSE /\ watched = FALSE /\ armed = FALSE /\ fast = FALSE
    /\ failing = FALSE /\ deadline = 0 /\ killSeen = FALSE /\ stuck = FALSE
    /\ fresh \in BOOLEAN /\ losing = FALSE /\ killed = FALSE /\ now = 0
    /\ raises = 0

Runner ==
    \/ Start \/ AskForPlan \/ PlanReturns
    \/ BeginTick \/ TickReturns \/ WakeUp \/ LeaveLoop
    \/ BeginFlatten \/ Attempt \/ Retry
    \/ ReviewReturns \/ Finish \/ Fail

Next ==
    \/ Runner \/ Raise \/ RaiseAgain \/ Abandon
    \/ FastLoop
    \/ Tick \/ PriceTurns \/ KillSwitched

Spec == Init /\ [][Next]_vars

\* claude.ask() gives up after TIMEOUT_S and every other wait is a sleep, so the
\* runner goes on; and time passes.  Nothing is asked of the fast loop, the feed
\* or the operator.
FairSpec == Spec /\ WF_vars(Runner) /\ WF_vars(Tick)

-----------------------------------------------------------------------------
(* Properties. *)

\* A session that settled in the ordinary way says it ended holding exactly when
\* it did, so that one recorded as done without a word is flat; although the
\* review's model call lies between the last attempt to flatten and the status.
HeldIsNamed == status \in {"done", "halted"} /\ ~failing => (held <=> "held" \in reason)

\* The review begins with a position left only when the flatten window is over
\* or the kill switch was engaged as the flatten began.
GivesUpOnlyAtDeadline == pc = "review" /\ stuck => killSeen \/ now >= deadline

\* Once a session is halted nothing opens a position: not the answer that was
\* already under way, not an entry armed before.  And past the last moment for
\* opening only that answer still can, before the loop is left.
HaltStopsTrading ==
    [][~held /\ held' => halted = {} /\ (now < StopOpening \/ pc = "asking")]_vars

\* What a session row tells its reader, see Lifecycle.
Row == INSTANCE Lifecycle WITH holding <- held
SessionIsALifecycle == Row!Spec

\* Every session ends, with the clock, whatever the feed, the fast loop and the
\* operator do.
Terminates == <>(pc = "over")

=============================================================================
