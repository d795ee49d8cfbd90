------------------------------ MODULE Process -------------------------------
(***************************************************************************)
(* The engine process: the stop handshake of Engine and the polling loops  *)
(* of Poller on one event loop (engine/main.py run()).                     *)
(*                                                                         *)
(* A loop polls only while the event loop turns and run() waits.  A stop   *)
(* cancels the loops and awaits them, and there an exception that ended    *)
(* one of them comes up, however long ago that was.  The clients are       *)
(* closed and the WAL is checkpointed after that.                          *)
(***************************************************************************)
EXTENDS Engine, Poller

vars == <<engineVars, pollerVars>>

-----------------------------------------------------------------------------
(* Probes, one feed after the other, before anything else runs. *)

Probing ==
    /\ LoopTurns /\ pc = "probing"
    /\ \E f \in Feeds : (f = "edgar" => last["price"] # "none") /\ Probe(f)
    /\ UNCHANGED engineVars

ProbingRaises ==
    /\ pc = "probing" /\ RunRaises
    /\ \E f \in Feeds : (f = "edgar" => last["price"] # "none") /\ ProbeRaises(f)

ProbingEnds ==
    /\ \A f \in Feeds : last[f] # "none"
    /\ ProbesDone
    /\ UNCHANGED pollerVars

-----------------------------------------------------------------------------
(* The poller's task. *)

PollerTurns == LoopTurns /\ pc = "waiting" /\ UNCHANGED engineVars

PollerStarts == PollerTurns /\ RunLoops

PollerCycles ==
    PollerTurns /\ \E l \in Loops : CycleOk(l) \/ CycleEmpty(l) \/ CycleRaises(l)

-----------------------------------------------------------------------------
(* The end.  Poller.run() awaits its loops and suppresses only their          *)
(* cancellation; run() does the same with its tasks.                          *)

CleanupEnds ==
    /\ Died = {}
    /\ CleanedUp
    /\ UNCHANGED pollerVars

\* The exception of a loop that died comes up where its task is awaited.
AwaitRaises ==
    /\ pc = "cleaning" /\ Died # {}
    /\ RunRaises
    /\ UNCHANGED pollerVars

\* A client that cannot be closed.
ClientRaises ==
    /\ Died = {}
    /\ ClosingRaises
    /\ UNCHANGED pollerVars

\* The database refuses the checkpoint.
CheckpointRaises ==
    /\ pc = "cleaning" /\ Died = {}
    /\ RunRaises
    /\ Raises
    /\ UNCHANGED <<booted, health, last, alive>>

-----------------------------------------------------------------------------

Init == EngineInit /\ PollerInit

Next ==
    \/ EngineStep /\ UNCHANGED pollerVars
    \/ Probing \/ ProbingRaises \/ ProbingEnds
    \/ PollerStarts \/ PollerCycles
    \/ CleanupEnds \/ AwaitRaises \/ ClientRaises \/ CheckpointRaises

Spec == Init /\ [][Next]_vars

\* The watchdog is a thread of its own and keeps polling.  Nothing is asked of
\* the event loop, which may be wedged or slow for ever, nor of the loops on it.
FairSpec == Spec /\ WF_engineVars(Dog) /\ WF_engineVars(Tick)

-----------------------------------------------------------------------------
(* Properties. *)

\* The types of both halves; the loops exist only after the probes, and a feed is
\* counted only once a loop polls it.
ProcessTypeOK ==
    /\ EngineTypeOK
    /\ PollerTypeOK
    /\ booted => pc \in {"waiting", "cleaning", "gone"}
    /\ ~booted => alive = {} /\ \A f \in Feeds : fails[f] = 0

\* An exception comes up in a stop, out of the probes, a loop's task or the checkpoint,
\* only because the database refused a write some time in the process's life: no
\* outage of a provider, however long ago, is found again there.  An interrupt without
\* a handler and a client that cannot be closed skip the checkpoint too; they are
\* exits of their own.
NoOutageSpoilsAStop == exit = "raised" => busy > 0
=============================================================================
