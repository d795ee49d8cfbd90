------------------------------ MODULE Orphans -------------------------------
(***************************************************************************)
(* Sessions and the process that drives them: the heartbeat of a runner,   *)
(* api/main.py's _reap_orphans, and a restart of the API.                  *)
(*                                                                         *)
(* A session runs as a task of the API process.  Restart it and the task   *)
(* is gone, with the row as it was; the reaper, called on every read of    *)
(* the sessions, tells such rows by their heartbeat.  It runs in a thread  *)
(* of the same process, in two transactions, while runners are alive: its  *)
(* read and its write are steps of their own, between any two of Session.  *)
(***************************************************************************)
EXTENDS Session

CONSTANTS CallTime,     \* TIMEOUT_S + KILL_DRAIN_S: the longest a model call lasts
          Margin,       \* what SESSION_STALE_S adds to it
          Pause,        \* _FLATTEN_RETRY_MS: the longest wait between two beats
          Unbeaten,     \* heartbeat_ms IS NULL
          MaxSleeps,    \* bound: times the machine is suspended
          MaxCrashes    \* bound: restarts of the API process

ASSUME OrphansAssumption ==
    /\ CallTime \in Nat \ {0}
    /\ Margin \in Nat /\ Pause \in Nat /\ Pause <= Margin
    /\ Unbeaten \notin Nat
    /\ MaxSleeps \in Nat /\ MaxCrashes \in Nat

VARIABLES
    age,      \* since the last heartbeat; since created_ms while there is none to ask for
    caught,   \* the reaper has read this session as dead and has yet to write
    slept,    \* the machine was suspended since the last heartbeat
    spent,    \* the time the model call in progress has taken
    calls,    \* model calls the last heartbeat has lain through, this one included; 2: or more
    sleeps,   \* suspensions so far (bound: MaxSleeps)
    crashes   \* restarts so far (bound: MaxCrashes)

beatVars == <<age, slept, spent, calls>>
orphanVars == <<vars, beatVars, caught, sleeps, crashes>>

\* Older than SESSION_STALE_S, which is a model call and the margin.
Stale == CallTime + Margin + 1

Calls == {"planning", "asking", "review"}

-----------------------------------------------------------------------------
(* The heartbeat. *)

FirstBeat == age' = 0 /\ slept' = FALSE

\* The steps that beat on their way, and raise if they cannot: run() before the
\* plan, a tick as it begins, the wait for another attempt to flatten.
BeatsOnTheWay == pc' \in {"planning", "asking", "retry"}

\* Session's steps.  The row is 'running' before it has a heartbeat.  The wait
\* between ticks beats only if there is anything to wait for, and a review none.
Drive ==
    /\ Runner
    /\ \/ pc' = "started" /\ age' = Unbeaten /\ UNCHANGED <<slept, calls>>
       \/ BeatsOnTheWay /\ FirstBeat /\ calls' = IF pc' = "retry" THEN 0 ELSE 1
       \/ pc' = "review" /\ calls' = (IF calls = 0 THEN 1 ELSE 2) /\ UNCHANGED <<age, slept>>
       \/ ~BeatsOnTheWay /\ pc' \notin {"started", "review"} /\ UNCHANGED <<age, slept, calls>>
    /\ spent' = 0
    /\ UNCHANGED <<caught, sleeps, crashes>>

Environs ==
    /\ Raise \/ RaiseAgain \/ Abandon \/ FastLoop \/ PriceTurns \/ KillSwitched
    /\ spent' = IF pc' = pc THEN spent ELSE 0
    /\ UNCHANGED <<age, slept, calls, caught, sleeps, crashes>>

SessionTick == Tick /\ UNCHANGED <<beatVars, caught, sleeps, crashes>>

\* A wait beats every second; the beat beside a model call may fail and is
\* suppressed, which is this action not taken.
Beat ==
    /\ pc \in Awaits
    /\ FirstBeat
    /\ calls' = IF pc \in Calls THEN 1 ELSE 0
    /\ UNCHANGED <<vars, spent, caught, sleeps, crashes>>

\* Time passes for a live runner in a model call, as long as that lasts, or in a
\* wait that has beaten.
Lasts ==
    IF pc \in Calls THEN spent < CallTime /\ spent' = spent + 1
    ELSE calls = 0 /\ age < Pause /\ UNCHANGED spent

Elapse ==
    /\ age # Unbeaten /\ age < Stale
    /\ IF pc = "over" THEN UNCHANGED spent ELSE Lasts
    /\ age' = age + 1
    /\ UNCHANGED <<vars, slept, calls, caught, sleeps, crashes>>

\* The laptop's lid: everything stops, and the clock has jumped when it goes on.
Suspend ==
    /\ sleeps < MaxSleeps /\ sleeps' = sleeps + 1
    /\ pc \in Awaits \cup {"created"}
    /\ age' = Stale /\ slept' = TRUE
    /\ UNCHANGED <<vars, spent, calls, caught, crashes>>

-----------------------------------------------------------------------------
(* The reaper. *)

\* Mutant: the threshold a slow model call can reach.
OverdueMidCall == age \in CallTime..Stale

Overdue == age = Stale

\* Mutant: a session that never got to 'running' is not looked for.
ReapableOnceRunning ==
    status \in {"running", "flattening"} /\ (age = Unbeaten \/ Overdue)

Reapable ==
    \/ status \in {"running", "flattening"} /\ (age = Unbeaten \/ Overdue)
    \/ status = "planned" /\ Overdue

ReapRead ==
    /\ ~caught /\ Reapable
    /\ caught' = TRUE
    /\ UNCHANGED <<vars, beatVars, sleeps, crashes>>

\* Mutant: the plans of a dead session stay active.
ReapWritesStatusOnly ==
    /\ caught /\ caught' = FALSE
    /\ status' = "halted"
    /\ reason' = IF reason = {} THEN {"interrupted"} ELSE reason
    /\ UNCHANGED <<pc, halted, deskVars, fast, flatVars, worldVars, raises>>
    /\ UNCHANGED <<beatVars, sleeps, crashes>>

\* By id, whatever the row has become since it was read; a reason it has stays.
ReapWrite ==
    /\ caught /\ caught' = FALSE
    /\ status' = "halted"
    /\ reason' = IF reason = {} THEN {"interrupted"} ELSE reason
    /\ watched' = FALSE /\ armed' = FALSE
    /\ UNCHANGED <<pc, halted, held, fast, flatVars, worldVars, raises>>
    /\ UNCHANGED <<beatVars, sleeps, crashes>>

\* The transaction raises and the read that called the reaper fails.
ReapFails ==
    /\ caught /\ caught' = FALSE
    /\ MayRaise
    /\ UNCHANGED <<pc, rowVars, halted, deskVars, fast, flatVars, worldVars>>
    /\ UNCHANGED <<beatVars, sleeps, crashes>>

-----------------------------------------------------------------------------

\* The API process is restarted: runner, fast loop and reaper are gone, perhaps
\* between a fill and its plan, and the rows are as they were committed.  What is
\* remembered of a live runner's beats is forgotten.
Crash ==
    /\ crashes < MaxCrashes /\ crashes' = crashes + 1
    /\ pc # "over" \/ caught
    /\ pc' = "over" /\ fast' = FALSE /\ caught' = FALSE
    /\ UNCHANGED deskVars \/ (pc = "asking" /\ UnprotectedFill)
    /\ slept' = FALSE /\ spent' = 0 /\ calls' = 0
    /\ UNCHANGED <<rowVars, halted, flatVars, worldVars, raises, age, sleeps>>

OrphansInit ==
    /\ Init
    /\ age = 0 /\ slept = FALSE /\ spent = 0 /\ calls = 0
    /\ caught = FALSE /\ sleeps = 0 /\ crashes = 0

OrphansNext ==
    \/ Drive \/ Environs \/ SessionTick
    \/ Beat \/ Elapse \/ Suspend
    \/ ReapRead \/ ReapWrite \/ ReapFails
    \/ Crash

OrphansSpec == OrphansInit /\ [][OrphansNext]_orphanVars

\* Session's fairness, the passing of time after the runner has gone, and a
\* dashboard that is open: it reads the sessions, so the reaper is called.
OrphansFairSpec ==
    /\ OrphansSpec
    /\ WF_orphanVars(Drive) /\ WF_orphanVars(SessionTick) /\ WF_orphanVars(Elapse)
    /\ WF_orphanVars(ReapRead) /\ WF_orphanVars(ReapWrite)

-----------------------------------------------------------------------------
(* Properties. *)

\* The reaper takes a session whose task is alive for a dead one only in the gap
\* between 'running' and its first beat, when the machine was suspended, or when the
\* beats of two model calls in a row all failed: not because one call is slow and
\* its beats fail, a flatten retries or a session is about to start.
ReapsTheDead ==
    [][caught' /\ ~caught /\ pc # "over" => age = Unbeaten \/ slept \/ calls = 2]_orphanVars

\* Whatever dies, and wherever, and even if the reaper writes over a session that
\* is alive, in the end the row says how the session ended and goes on saying so.
RowsSettle == <>[](status \in Settled)

\* What a dead session left behind is cleared with its status: nothing goes on
\* showing a stop as watched, or an entry as waiting, that no code enforces.
OrphansAreCleared ==
    pc = "over" /\ status \notin Settled
        ~> status \in Settled /\ ~watched /\ ~armed

-----------------------------------------------------------------------------
(* What a comment in the source says, and the code does not do; see the README. *)

=============================================================================
