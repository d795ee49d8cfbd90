------------------------------- MODULE Engine -------------------------------
(***************************************************************************)
(* Stopping the engine process: engine/main.py run() and the watchdog of   *)
(* engine/killswitch.py.  The handshake is a specification of its own;     *)
(* Process composes it with the polling loops.                             *)
(*                                                                         *)
(* Two threads meet here.  The event loop boots, probes the feeds, waits   *)
(* for `stopping` and cleans up.  The watchdog thread looks at the KILL    *)
(* file once per unit of the clock and ends the process if the loop has    *)
(* not acknowledged within the grace period.  What it has seen and what it *)
(* does about it are two steps, and the loop, or the operator, may come in *)
(* between.  The loop may wedge in a call that does not return, and may    *)
(* come back from it.                                                      *)
(***************************************************************************)
EXTENDS Naturals

CONSTANTS GraceTime   \* Watchdog.grace_s, in polls of the watchdog

ASSUME EngineAssumption == GraceTime \in Nat \ {0}

VARIABLES
    pc,        \* where run() is
    handlers,  \* the event loop implements add_signal_handler (not on Windows)
    wedged,    \* the event loop is inside a call that does not return
    killed,    \* the KILL file exists
    queued,    \* call_soon_threadsafe(stopping.set) is still to run
    stopping,  \* the asyncio event
    ack,       \* Watchdog._ack
    armed,     \* Watchdog.triggered_at is set
    waited,    \* the time since then, up to the grace period
    dog,       \* what the watchdog has seen and not yet acted on
    looked,    \* the watchdog has polled in this unit of the clock
    lapsed,    \* history: KILL was seen gone while an acknowledgement stood
    late,      \* history: the loop acknowledged inside a poll too far on to see it
    exit       \* how the process ended

loopVars == <<pc, stopping, exit>>
pollVars == <<dog, looked>>
watchVars == <<queued, ack, armed, waited, lapsed, late>>
worldVars == <<handlers, wedged, killed>>
engineVars == <<loopVars, pollVars, watchVars, worldVars>>

\* The ways run() leaves by itself, and the watchdog's way.
Left == {"refused", "clean", "raised", "unclosed", "interrupted"}
Exits == Left \cup {"none", "EXIT_WEDGED"}
Running == exit = "none"

\* A poll that has found the switch clear, or has given the loop up, does not look
\* at the acknowledgement again.
Blind == {"clear", "exiting"}

\* What has been acknowledged is a shutdown under way.
EngineTypeOK ==
    /\ pc \in {"boot", "probing", "waiting", "cleaning", "gone"}
    /\ {handlers, wedged, killed, queued, stopping, ack, armed, looked, lapsed, late} \subseteq BOOLEAN
    /\ waited \in 0..GraceTime
    /\ dog \in Blind \cup {"asleep", "engaged"}
    /\ exit \in Exits
    /\ pc = "gone" <=> exit \in Left
    /\ pc = "cleaning" => stopping
    /\ ack => pc \in {"cleaning", "gone"}

-----------------------------------------------------------------------------
(* The event loop. *)

LoopTurns == Running /\ ~wedged

\* run() refuses to start into an engaged switch, and without a database it can
\* open, migrate and find healthy; the watchdog starts before any feed is touched.
Boot ==
    /\ LoopTurns /\ pc = "boot"
    /\ \/ pc' = "gone" /\ exit' = "refused"
       \/ ~killed /\ pc' = "probing" /\ UNCHANGED exit
    /\ UNCHANGED <<stopping, pollVars, watchVars, worldVars>>

\* probe_all() is done: signal handlers and tasks are in place.
ProbesDone ==
    /\ LoopTurns /\ pc = "probing"
    /\ pc' = "waiting"
    /\ UNCHANGED <<stopping, exit, pollVars, watchVars, worldVars>>

\* The callback the watchdog queued runs when the loop next turns.
RunQueued ==
    /\ LoopTurns /\ queued
    /\ queued' = FALSE /\ stopping' = TRUE
    /\ UNCHANGED <<pc, exit, pollVars, ack, armed, waited, lapsed, late, worldVars>>

\* _watch_kill(), once a second.
WatchKill ==
    /\ LoopTurns /\ pc = "waiting" /\ killed /\ ~stopping
    /\ stopping' = TRUE
    /\ UNCHANGED <<pc, exit, pollVars, watchVars, worldVars>>

\* Mutant: the signal handler acknowledges, while run() may be wedged.
SignalAcks ==
    /\ LoopTurns /\ pc = "waiting" /\ handlers /\ ~stopping
    /\ stopping' = TRUE /\ ack' = TRUE
    /\ UNCHANGED <<pc, exit, pollVars, queued, armed, waited, lapsed, late, worldVars>>

\* SIGINT or SIGTERM, where the loop has a handler for it.
Signal ==
    /\ LoopTurns /\ pc = "waiting" /\ handlers /\ ~stopping
    /\ stopping' = TRUE
    /\ UNCHANGED <<pc, exit, pollVars, watchVars, worldVars>>

\* The same where there is none: before the handlers are added, and throughout on
\* Windows.  It leaves asyncio.run() as KeyboardInterrupt, past every cleanup.
Interrupt ==
    /\ Running
    /\ pc \in {"boot", "probing"} \/ (~handlers /\ pc \in {"waiting", "cleaning"})
    /\ pc' = "gone" /\ exit' = "interrupted"
    /\ UNCHANGED <<stopping, pollVars, watchVars, worldVars>>

\* Mutant: acknowledged at the end of the cleanup.
AcknowledgeLate ==
    /\ LoopTurns /\ pc = "waiting" /\ stopping
    /\ pc' = "cleaning"
    /\ UNCHANGED <<stopping, exit, pollVars, watchVars, worldVars>>

\* stopping.wait() returns: the watchdog is told before anything is torn down.
Acknowledge ==
    /\ LoopTurns /\ pc = "waiting" /\ stopping
    /\ ack' = TRUE
    /\ late' = IF dog \in Blind THEN TRUE ELSE late
    /\ pc' = "cleaning"
    /\ UNCHANGED <<stopping, exit, pollVars, queued, armed, waited, lapsed, worldVars>>

\* An exception leaves run(): during the probes, where a cancelled task is
\* awaited, or out of the checkpoint of the WAL.
RunRaises ==
    /\ LoopTurns /\ pc \in {"probing", "cleaning"}
    /\ pc' = "gone" /\ exit' = "raised"
    /\ UNCHANGED <<stopping, pollVars, watchVars, worldVars>>

\* aclose() of a client raises: the WAL is not checkpointed.
ClosingRaises ==
    /\ LoopTurns /\ pc = "cleaning"
    /\ pc' = "gone" /\ exit' = "unclosed"
    /\ UNCHANGED <<stopping, pollVars, watchVars, worldVars>>

\* Tasks cancelled, clients closed, the WAL checkpointed, the watchdog stopped.
CleanedUp ==
    /\ LoopTurns /\ pc = "cleaning"
    /\ pc' = "gone" /\ exit' = "clean"
    /\ UNCHANGED <<stopping, pollVars, watchVars, worldVars>>

-----------------------------------------------------------------------------
(* The watchdog thread: a poll looks at the switch, and then acts on what it  *)
(* saw, whatever happened to the switch and the acknowledgement meanwhile.    *)

\* engaged().
DogLooks ==
    /\ Running /\ pc # "boot" /\ dog = "asleep" /\ ~looked
    /\ dog' = IF killed THEN "engaged" ELSE "clear"
    /\ lapsed' = IF ~killed /\ ack THEN TRUE ELSE lapsed
    /\ UNCHANGED <<loopVars, looked, queued, ack, armed, waited, late, worldVars>>

\* The rest of a poll, and the wait for the next one.
DogActs(saw) ==
    /\ Running /\ dog = saw
    /\ dog' = "asleep" /\ looked' = TRUE
    /\ UNCHANGED <<pc, stopping, lapsed, late, worldVars>>

DogArms ==
    /\ DogActs("engaged") /\ ~armed
    /\ armed' = TRUE /\ waited' = 0 /\ queued' = TRUE
    /\ UNCHANGED <<exit, ack>>

\* Mutant: every poll restarts the grace period.
DogWaitsAnew ==
    /\ DogActs("engaged") /\ armed
    /\ ack \/ waited < GraceTime
    /\ waited' = 0
    /\ UNCHANGED <<exit, queued, ack, armed>>

DogWaits ==
    /\ DogActs("engaged") /\ armed
    /\ ack \/ waited < GraceTime
    /\ UNCHANGED <<exit, queued, ack, armed, waited>>

\* Not acknowledged within the grace period, as far as this poll has looked...
DogGivesUp ==
    /\ Running /\ dog = "engaged" /\ armed
    /\ ~ack /\ waited = GraceTime
    /\ dog' = "exiting"
    /\ UNCHANGED <<loopVars, looked, watchVars, worldVars>>

\* ...and the process ends, acknowledged meanwhile or not.
DogExits ==
    /\ DogActs("exiting")
    /\ exit' = "EXIT_WEDGED"
    /\ UNCHANGED <<queued, ack, armed, waited>>

\* Not engaged: disarmed, and whatever was acknowledged is forgotten.
DogRests ==
    /\ DogActs("clear")
    /\ armed' = FALSE /\ ack' = FALSE /\ waited' = 0
    /\ UNCHANGED <<exit, queued>>

Dog == DogLooks \/ DogArms \/ DogWaits \/ DogGivesUp \/ DogExits \/ DogRests

-----------------------------------------------------------------------------
(* Time, the operator, and what can go wrong with the loop. *)

\* The poll interval passes.
Tick ==
    /\ Running /\ looked
    /\ looked' = FALSE
    /\ waited' = IF armed /\ waited < GraceTime THEN waited + 1 ELSE waited
    /\ UNCHANGED <<loopVars, dog, queued, ack, armed, lapsed, late, worldVars>>

TouchKill ==
    /\ Running
    /\ killed' = ~killed
    /\ UNCHANGED <<loopVars, pollVars, watchVars, handlers, wedged>>

Wedge ==
    /\ Running /\ pc # "boot"
    /\ wedged' = ~wedged
    /\ UNCHANGED <<loopVars, pollVars, watchVars, handlers, killed>>

EngineInit ==
    /\ pc = "boot" /\ handlers \in BOOLEAN /\ wedged = FALSE /\ killed \in BOOLEAN
    /\ queued = FALSE /\ stopping = FALSE /\ ack = FALSE
    /\ armed = FALSE /\ waited = 0 /\ dog = "asleep" /\ looked = FALSE
    /\ lapsed = FALSE /\ late = FALSE
    /\ exit = "none"

\* The steps that leave the polling loops as they are.
EngineStep ==
    \/ Boot \/ RunQueued \/ WatchKill \/ Acknowledge \/ Signal \/ Interrupt
    \/ Dog \/ Tick \/ TouchKill \/ Wedge

EngineNext == EngineStep \/ ProbesDone \/ RunRaises \/ ClosingRaises \/ CleanedUp

EngineSpec == EngineInit /\ [][EngineNext]_engineVars

-----------------------------------------------------------------------------
(* Properties. *)

\* Cleanup that has been acknowledged is cut short only if the KILL file was seen
\* gone after it, or if the acknowledgement fell between what a poll of the watchdog
\* saw and what it did about it.  Otherwise an engaged switch lets an orderly
\* shutdown finish however long it takes.
CutOnlyIfLateOrLapsed == exit = "EXIT_WEDGED" /\ pc = "cleaning" => lapsed \/ late

\* A kill that stays ends the process whatever state its event loop is in, or
\* the loop is in a cleanup it has acknowledged.
KillEndsProcess ==
    <>[](killed /\ pc # "boot") => <>(~Running \/ (pc = "cleaning" /\ ack))
=============================================================================
