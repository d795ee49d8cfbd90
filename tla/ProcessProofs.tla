--------------------------- MODULE ProcessProofs ----------------------------
(***************************************************************************)
(* What holds of the engine process for every grace period, every limit at *)
(* which a feed is degraded and any number of writes that raise.           *)
(*                                                                         *)
(* A step moves the stop handshake, the polling loops, or both where one   *)
(* waits for the other; each half has its type lemma, and the invariants   *)
(* that relate the two follow step by step.                                *)
(***************************************************************************)
EXTENDS Process, TLAPS

(* The polling loops' half of a step; the other is EngineNext. *)
PollerMoves ==
    \/ \E f \in Feeds : Probe(f) \/ ProbeRaises(f)
    \/ RunLoops
    \/ \E l \in Loops : CycleOk(l) \/ CycleEmpty(l) \/ CycleRaises(l)
    \/ Raises /\ UNCHANGED <<booted, health, last, alive>>

(* Every step is one of the two, or both at a moment that is known.        *)
LEMMA StepParts ==
    ASSUME [Next]_vars
    PROVE  /\ [EngineNext]_engineVars
           /\ PollerMoves \/ UNCHANGED pollerVars
  <1>1. CASE EngineStep /\ UNCHANGED pollerVars
    BY <1>1 DEF EngineNext
  <1>2. CASE Probing
    BY <1>2 DEF Probing, PollerMoves
  <1>3. CASE ProbingRaises
    BY <1>3 DEF ProbingRaises, PollerMoves, EngineNext
  <1>4. CASE ProbingEnds
    BY <1>4 DEF ProbingEnds, EngineNext
  <1>5. CASE PollerStarts
    BY <1>5 DEF PollerStarts, PollerTurns, PollerMoves
  <1>6. CASE PollerCycles
    BY <1>6 DEF PollerCycles, PollerTurns, PollerMoves
  <1>7. CASE CleanupEnds
    BY <1>7 DEF CleanupEnds, EngineNext
  <1>8. CASE AwaitRaises \/ ClientRaises
    BY <1>8 DEF AwaitRaises, ClientRaises, EngineNext
  <1>9. CASE CheckpointRaises
    BY <1>9 DEF CheckpointRaises, PollerMoves, EngineNext
  <1>10. CASE UNCHANGED vars
    BY <1>10 DEF vars
  <1> QED
    BY <1>1, <1>2, <1>3, <1>4, <1>5, <1>6, <1>7, <1>8, <1>9, <1>10 DEF Next

-----------------------------------------------------------------------------
(* Types. *)

LEMMA EngineTypeStep ==
    ASSUME EngineTypeOK, [EngineNext]_engineVars
    PROVE  EngineTypeOK'
  <1> USE EngineAssumption
      DEF EngineTypeOK, loopVars, pollVars, watchVars, worldVars, LoopTurns, Running,
          Left, Exits, Blind
  <1>1. CASE Boot
    BY <1>1 DEF Boot
  <1>2. CASE RunQueued
    BY <1>2 DEF RunQueued
  <1>3. CASE WatchKill
    BY <1>3 DEF WatchKill
  <1>4. CASE Acknowledge
    BY <1>4 DEF Acknowledge
  <1>5. CASE Signal
    BY <1>5 DEF Signal
  <1>6. CASE Interrupt
    BY <1>6 DEF Interrupt
  <1>7. CASE DogLooks
    BY <1>7 DEF DogLooks
  <1>8. CASE DogArms
    BY <1>8 DEF DogArms, DogActs
  <1>9. CASE DogWaits
    BY <1>9 DEF DogWaits, DogActs
  <1>10. CASE DogGivesUp
    BY <1>10 DEF DogGivesUp
  <1>11. CASE DogExits
    BY <1>11 DEF DogExits, DogActs
  <1>12. CASE DogRests
    <2>1. /\ dog' = "asleep" /\ looked' = TRUE
          /\ armed' = FALSE /\ ack' = FALSE /\ waited' = 0
          /\ UNCHANGED <<pc, exit, stopping, queued, lapsed, late, handlers, wedged, killed>>
      BY ONLY <1>12 DEF DogRests, DogActs, worldVars
    <2>2. waited' \in 0..GraceTime
      BY ONLY EngineAssumption, <2>1
    <2>3. {handlers', wedged', killed', queued', stopping', ack', armed', looked', lapsed',
           late'} \subseteq BOOLEAN
      BY <2>1
    <2> QED BY ONLY EngineTypeOK, <2>1, <2>2, <2>3 DEF EngineTypeOK, Left, Exits, Blind
  <1>13. CASE Tick
    <2>1. waited' \in 0..GraceTime
      BY ONLY <1>13, EngineAssumption, waited \in 0..GraceTime DEF Tick
    <2> QED BY <1>13, <2>1 DEF Tick
  <1>14. CASE TouchKill
    BY <1>14 DEF TouchKill
  <1>15. CASE Wedge
    BY <1>15 DEF Wedge
  <1>16. CASE ProbesDone
    BY <1>16 DEF ProbesDone
  <1>17. CASE RunRaises \/ ClosingRaises
    BY <1>17 DEF RunRaises, ClosingRaises
  <1>18. CASE CleanedUp
    BY <1>18 DEF CleanedUp
  <1>19. CASE UNCHANGED engineVars
    BY <1>19 DEF engineVars
  <1> QED
    BY <1>1, <1>2, <1>3, <1>4, <1>5, <1>6, <1>7, <1>8, <1>9, <1>10, <1>11, <1>12,
       <1>13, <1>14, <1>15, <1>16, <1>17, <1>18, <1>19
    DEF EngineNext, EngineStep, Dog

(* Noting how a cycle went keeps a feed that reached the limit degraded.   *)
LEMMA NotingType ==
    ASSUME PollerTypeOK, NEW f \in Feeds,
           \/ FailureNoted(f) \/ FailureRaises(f) \/ FailureRaisesInside(f)
           \/ SuccessNoted(f) \/ SuccessRaises(f)
    PROVE  /\ fails' \in [Feeds -> 0..MaxFails]
           /\ degraded' \in [Feeds -> BOOLEAN]
           /\ \A g \in Feeds : fails'[g] >= DegradeAfter => degraded'[g]
           /\ last' \in [Feeds -> Kinds]
           /\ busy' \in 0..MaxBusy
  <1> USE PollerAssumption DEF PollerTypeOK
  <1>1. Count(f) \in 0..MaxFails /\ fails[f] \in 0..MaxFails
    BY DEF Count
  <1>2. Degrades(f) <=> ~degraded[f] /\ Count(f) >= DegradeAfter
    BY DEF Degrades
  <1>3. busy' \in 0..MaxBusy
    BY DEF FailureNoted, FailureRaises, FailureRaisesInside, SuccessNoted, SuccessRaises,
           Raises, Writes
  <1>4. CASE FailureNoted(f)
    BY <1>1, <1>2, <1>3, <1>4 DEF FailureNoted, Failed, Kinds, Outages
  <1>5. CASE FailureRaises(f)
    BY <1>1, <1>2, <1>3, <1>5 DEF FailureRaises, Failed
  <1>6. CASE FailureRaisesInside(f)
    <2>1. fails'[f] \in 0..MaxFails
      BY <1>1, <1>6 DEF FailureRaisesInside
    <2> QED BY <1>3, <1>6, <2>1 DEF FailureRaisesInside
  <1>7. CASE SuccessNoted(f)
    BY <1>3, <1>7 DEF SuccessNoted, Kinds
  <1>8. CASE SuccessRaises(f)
    <2>1. 1 \in 0..MaxFails
      OBVIOUS
    <2> QED BY <1>3, <1>8, <2>1 DEF SuccessRaises
  <1> QED BY <1>4, <1>5, <1>6, <1>7, <1>8

LEMMA CycleParts ==
    ASSUME NEW l \in Loops, CycleOk(l) \/ CycleEmpty(l) \/ CycleRaises(l)
    PROVE  /\ FeedOf(l) \in Feeds
           /\ booted /\ l \in alive /\ UNCHANGED booted
           /\ \/ UNCHANGED <<fails, degraded, last, busy>> /\ UNCHANGED alive
              \/ /\ \/ SuccessNoted(FeedOf(l)) \/ SuccessRaises(FeedOf(l))
                    \/ FailureNoted(FeedOf(l)) \/ FailureRaisesInside(FeedOf(l))
                 /\ UNCHANGED alive
              \/ FailureRaises(FeedOf(l)) /\ alive' = alive \ {l}
  <1>1. FeedOf(l) \in Feeds
    BY DEF FeedOf, Feeds
  <1>2. CASE CycleOk(l)
    BY <1>1, <1>2 DEF CycleOk, Cycles, Survives, health
  <1>3. CASE CycleEmpty(l)
    BY <1>1, <1>3 DEF CycleEmpty, Cycles, Survives, health
  <1>4. CASE CycleRaises(l)
    BY <1>1, <1>4 DEF CycleRaises, Cycles, Survives
  <1> QED BY <1>2, <1>3, <1>4

LEMMA PollerTypeStep ==
    ASSUME PollerTypeOK, ~booted => \A f \in Feeds : fails[f] = 0,
           PollerMoves \/ UNCHANGED pollerVars
    PROVE  PollerTypeOK'
  <1> USE PollerAssumption
  <1>1. ASSUME NEW f \in Feeds, Probe(f)
        PROVE  PollerTypeOK'
    <2>1. PICK kind \in Kinds : ProbeResult(f, kind)
      BY <1>1 DEF Probe, Kinds, Outages
    <2>2. degraded' \in [Feeds -> BOOLEAN] /\ last' \in [Feeds -> Kinds]
      BY <2>1 DEF ProbeResult, PollerTypeOK
    <2>3. \A g \in Feeds : ~(fails'[g] >= DegradeAfter)
      BY <1>1 DEF Probe
    <2> QED BY <1>1, <2>2, <2>3 DEF Probe, PollerTypeOK
  <1>2. ASSUME NEW f \in Feeds, ProbeRaises(f)
        PROVE  PollerTypeOK'
    <2>1. \A g \in Feeds : ~(fails'[g] >= DegradeAfter)
      BY <1>2 DEF ProbeRaises
    <2>2. degraded' \in [Feeds -> BOOLEAN]
      BY <1>2 DEF ProbeRaises, PollerTypeOK
    <2> QED BY <1>2, <2>1, <2>2 DEF ProbeRaises, Raises, PollerTypeOK
  <1>3. CASE RunLoops
    BY <1>3 DEF RunLoops, health, PollerTypeOK
  <1>4. ASSUME NEW l \in Loops, CycleOk(l) \/ CycleEmpty(l) \/ CycleRaises(l)
        PROVE  PollerTypeOK'
    <2>1. FeedOf(l) \in Feeds /\ UNCHANGED booted /\ alive' \subseteq alive
      BY <1>4, CycleParts
    <2>2. CASE UNCHANGED <<fails, degraded, last, busy>>
      BY <2>1, <2>2 DEF PollerTypeOK
    <2>3. CASE \/ FailureNoted(FeedOf(l)) \/ FailureRaises(FeedOf(l))
               \/ FailureRaisesInside(FeedOf(l))
               \/ SuccessNoted(FeedOf(l)) \/ SuccessRaises(FeedOf(l))
      BY <2>1, <2>3, NotingType DEF PollerTypeOK
    <2> QED BY <1>4, <2>2, <2>3, CycleParts
  <1>5. CASE Raises /\ UNCHANGED <<booted, health, last, alive>>
    BY <1>5 DEF Raises, health, PollerTypeOK
  <1>6. CASE UNCHANGED pollerVars
    BY <1>6 DEF pollerVars, health, PollerTypeOK
  <1> QED
    BY <1>1, <1>2, <1>3, <1>4, <1>5, <1>6 DEF PollerMoves

(* Where run() goes on a step that leaves the polling loops alone.         *)
LEMMA PcMoves ==
    ASSUME EngineStep
    PROVE  /\ pc' = pc \/ pc' \in {"gone", "cleaning"} \/ (pc = "boot" /\ pc' = "probing")
           /\ exit' # "raised" \/ exit' = exit
  <1> USE DEF loopVars
  <1>1. CASE Boot \/ RunQueued \/ WatchKill \/ Acknowledge \/ Signal \/ Interrupt
    BY <1>1 DEF Boot, RunQueued, WatchKill, Acknowledge, Signal, Interrupt
  <1>2. CASE Dog
    BY <1>2 DEF Dog, DogLooks, DogActs, DogArms, DogWaits, DogGivesUp, DogExits, DogRests
  <1>3. CASE Tick \/ TouchKill \/ Wedge
    BY <1>3 DEF Tick, TouchKill, Wedge
  <1> QED BY <1>1, <1>2, <1>3 DEF EngineStep

(* The loops come to exist once, while run() waits; until then nothing is  *)
(* counted.                                                                *)
LEMMA BootOrder ==
    ASSUME ProcessTypeOK, [Next]_vars
    PROVE  /\ booted' => pc' \in {"waiting", "cleaning", "gone"}
           /\ ~booted' => alive' = {} /\ \A f \in Feeds : fails'[f] = 0
  <1> USE DEF ProcessTypeOK
  <1>1. CASE EngineStep /\ UNCHANGED pollerVars
    BY <1>1, PcMoves DEF pollerVars, health
  <1>2. CASE Probing
    BY <1>2 DEF Probing, Probe, ProbeResult, engineVars, loopVars
  <1>3. CASE ProbingRaises
    BY <1>3 DEF ProbingRaises, ProbeRaises
  <1>4. CASE ProbingEnds
    BY <1>4 DEF ProbingEnds, ProbesDone, pollerVars, health
  <1>5. CASE PollerStarts
    BY <1>5 DEF PollerStarts, PollerTurns, RunLoops, engineVars, loopVars
  <1>6. CASE PollerCycles
    BY <1>6, CycleParts DEF PollerCycles, PollerTurns, engineVars, loopVars
  <1>7. CASE CleanupEnds
    BY <1>7 DEF CleanupEnds, CleanedUp, pollerVars, health
  <1>8. CASE AwaitRaises \/ ClientRaises \/ CheckpointRaises
    BY <1>8 DEF AwaitRaises, ClientRaises, CheckpointRaises, RunRaises, ClosingRaises,
                pollerVars, health
  <1>9. CASE UNCHANGED vars
    BY <1>9 DEF vars, engineVars, loopVars, pollerVars, health
  <1> QED
    BY <1>1, <1>2, <1>3, <1>4, <1>5, <1>6, <1>7, <1>8, <1>9 DEF Next

(* Types, and the order of a boot: no loop polls before the probes are     *)
(* done, and a feed at the limit is degraded, whoever counted              *)
(* (engine/main.py run(), engine/poller.py _note_failure()).               *)
THEOREM ProcessTypeCorrect == Spec => []ProcessTypeOK
  <1>1. Init => ProcessTypeOK
    <2> SUFFICES ASSUME Init
                 PROVE  ProcessTypeOK
      OBVIOUS
    <2>1. EngineTypeOK
      <3>1. /\ pc = "boot" /\ handlers \in BOOLEAN /\ wedged = FALSE /\ killed \in BOOLEAN
            /\ queued = FALSE /\ stopping = FALSE /\ ack = FALSE /\ armed = FALSE
            /\ waited = 0 /\ dog = "asleep" /\ looked = FALSE /\ lapsed = FALSE
            /\ late = FALSE /\ exit = "none"
        BY DEF Init, EngineInit
      <3>2. {handlers, wedged, killed, queued, stopping, ack, armed, looked, lapsed, late}
               \subseteq BOOLEAN
        BY ONLY <3>1
      <3>3. waited \in 0..GraceTime
        BY <3>1, EngineAssumption
      <3> QED BY ONLY <3>1, <3>2, <3>3 DEF EngineTypeOK, Left, Exits, Blind
    <2>2. PollerTypeOK
      <3>1. fails \in [Feeds -> 0..MaxFails]
        BY PollerAssumption DEF Init, PollerInit
      <3>2. degraded \in [Feeds -> BOOLEAN] /\ last \in [Feeds -> Kinds]
        BY DEF Init, PollerInit, Kinds
      <3>3. \A f \in Feeds : ~(fails[f] >= DegradeAfter)
        BY PollerAssumption DEF Init, PollerInit
      <3>4. busy \in 0..MaxBusy
        BY PollerAssumption DEF Init, PollerInit
      <3> QED BY <3>1, <3>2, <3>3, <3>4 DEF Init, PollerInit, PollerTypeOK
    <2> QED BY <2>1, <2>2 DEF Init, EngineInit, PollerInit, ProcessTypeOK
  <1>2. ProcessTypeOK /\ [Next]_vars => ProcessTypeOK'
    <2> SUFFICES ASSUME ProcessTypeOK, [Next]_vars
                 PROVE  ProcessTypeOK'
      OBVIOUS
    <2>1. EngineTypeOK'
      BY StepParts, EngineTypeStep DEF ProcessTypeOK
    <2>2. PollerTypeOK'
      BY StepParts, PollerTypeStep DEF ProcessTypeOK
    <2> QED BY <2>1, <2>2, BootOrder DEF ProcessTypeOK
  <1> QED BY <1>1, <1>2, PTL DEF Spec

-----------------------------------------------------------------------------
(* The stop. *)

(* Every step of the process is a step of the handshake or leaves it as it *)
(* is: what holds of the one by itself holds of the process (engine/main.py*)
(* run(), engine/killswitch.py Watchdog).                                  *)
THEOREM ProcessIsEngine == Spec => EngineSpec
  <1>1. Init => EngineInit
    BY DEF Init
  <1>2. [Next]_vars => [EngineNext]_engineVars
    BY StepParts
  <1> QED BY <1>1, <1>2, PTL DEF Spec, EngineSpec

(* A cleanup under way has been acknowledged, unless the acknowledgement   *)
(* lapsed or came too late; and a poll that will not look again holds one  *)
(* of the two against it already.                                          *)
CutInv ==
    /\ CutOnlyIfLateOrLapsed
    /\ pc = "cleaning" /\ Running => ack \/ lapsed \/ late
    /\ pc = "cleaning" /\ Running /\ dog \in Blind => lapsed \/ late

(* The watchdog cuts an acknowledged cleanup only after the KILL file was  *)
(* seen gone, or if the acknowledgement came inside a poll that had made   *)
(* up its mind, for every grace period, wherever the loop wedges and       *)
(* however the two threads interleave (engine/killswitch.py Watchdog._run, *)
(* engine/main.py:135).                                                    *)
THEOREM CutSafe == Spec => []CutOnlyIfLateOrLapsed
  <1>1. EngineInit => CutInv
    BY DEF EngineInit, CutInv, CutOnlyIfLateOrLapsed, Running
  <1>2. CutInv /\ [EngineNext]_engineVars => CutInv'
    <2> SUFFICES ASSUME CutInv, [EngineNext]_engineVars
                 PROVE  CutInv'
      OBVIOUS
    <2> USE DEF CutInv, CutOnlyIfLateOrLapsed, Running, LoopTurns, Blind,
                loopVars, pollVars, watchVars, worldVars
    <2>1. CASE Boot \/ ProbesDone \/ Interrupt
      BY <2>1 DEF Boot, ProbesDone, Interrupt
    <2>2. CASE RunRaises \/ ClosingRaises \/ CleanedUp
      BY <2>2 DEF RunRaises, ClosingRaises, CleanedUp
    <2>3. CASE RunQueued \/ WatchKill \/ Signal
      BY <2>3 DEF RunQueued, WatchKill, Signal
    <2>4. CASE Acknowledge
      BY <2>4 DEF Acknowledge
    <2>5. CASE DogLooks
      BY <2>5 DEF DogLooks
    <2>6. CASE DogArms \/ DogWaits \/ DogRests
      BY <2>6 DEF DogActs, DogArms, DogWaits, DogRests
    <2>7. CASE DogGivesUp
      BY <2>7 DEF DogGivesUp
    <2>8. CASE DogExits
      BY <2>8 DEF DogActs, DogExits
    <2>9. CASE Tick \/ TouchKill \/ Wedge
      BY <2>9 DEF Tick, TouchKill, Wedge
    <2>10. CASE UNCHANGED engineVars
      BY <2>10 DEF engineVars
    <2> QED
      BY <2>1, <2>2, <2>3, <2>4, <2>5, <2>6, <2>7, <2>8, <2>9, <2>10
      DEF EngineNext, EngineStep, Dog
  <1>3. CutInv => CutOnlyIfLateOrLapsed
    BY DEF CutInv
  <1>4. EngineSpec => []CutOnlyIfLateOrLapsed
    BY <1>1, <1>2, <1>3, PTL DEF EngineSpec
  <1> QED BY <1>4, ProcessIsEngine, PTL

(* What the outcome of a stop rests on: a loop that is gone after the boot *)
(* was ended by the database.                                              *)
SpoilInv == NoOutageSpoilsAStop /\ (booted /\ alive # Loops => busy > 0)

(* The probes, the loops' tasks and the checkpoint spoil a stop with an    *)
(* exception only if the database refused a write, whatever the providers  *)
(* did and whenever (engine/main.py:109, 143, 147, engine/poller.py run()).*)
THEOREM StopSafe == Spec => []NoOutageSpoilsAStop
  <1>1. Init => SpoilInv
    BY DEF Init, EngineInit, PollerInit, SpoilInv, NoOutageSpoilsAStop
  <1>2. ProcessTypeOK /\ SpoilInv /\ [Next]_vars => SpoilInv'
    <2> SUFFICES ASSUME ProcessTypeOK, SpoilInv, [Next]_vars
                 PROVE  SpoilInv'
      OBVIOUS
    <2>0. busy \in Nat
      BY PollerAssumption DEF ProcessTypeOK, PollerTypeOK
    <2> USE <2>0 DEF SpoilInv, NoOutageSpoilsAStop
    <2>1. CASE EngineStep /\ UNCHANGED pollerVars
      BY <2>1, PcMoves DEF pollerVars
    <2>2. CASE Probing
      BY <2>2 DEF Probing, Probe, engineVars, loopVars
    <2>3. CASE ProbingRaises
      BY <2>3 DEF ProbingRaises, ProbeRaises, Raises
    <2>4. CASE ProbingEnds
      BY <2>4 DEF ProbingEnds, ProbesDone, pollerVars
    <2>5. CASE PollerStarts
      BY <2>5 DEF PollerStarts, PollerTurns, RunLoops, engineVars, loopVars
    <2>6. CASE PollerCycles
      <3>1. PICK l \in Loops : CycleOk(l) \/ CycleEmpty(l) \/ CycleRaises(l)
        BY <2>6 DEF PollerCycles
      <3>2. UNCHANGED exit
        BY <2>6 DEF PollerCycles, PollerTurns, engineVars, loopVars
      <3>3. UNCHANGED <<alive, busy>> \/ busy' = busy + 1
        BY <3>1, CycleParts
        DEF SuccessNoted, SuccessRaises, FailureNoted, FailureRaises, FailureRaisesInside,
            Raises, Writes
      <3>4. UNCHANGED booted
        BY <3>1, CycleParts
      <3> QED BY <3>2, <3>3, <3>4
    <2>7. CASE CleanupEnds
      BY <2>7 DEF CleanupEnds, CleanedUp, pollerVars
    <2>8. CASE AwaitRaises
      BY <2>8 DEF AwaitRaises, RunRaises, Died, pollerVars
    <2>9. CASE ClientRaises
      BY <2>9 DEF ClientRaises, ClosingRaises, pollerVars
    <2>10. CASE CheckpointRaises
      BY <2>10 DEF CheckpointRaises, Raises
    <2>11. CASE UNCHANGED vars
      BY <2>11 DEF vars, engineVars, loopVars, pollerVars
    <2> QED
      BY <2>1, <2>2, <2>3, <2>4, <2>5, <2>6, <2>7, <2>8, <2>9, <2>10, <2>11
      DEF Next
  <1>3. SpoilInv => NoOutageSpoilsAStop
    BY DEF SpoilInv
  <1> QED BY <1>1, <1>2, <1>3, ProcessTypeCorrect, PTL DEF Spec

-----------------------------------------------------------------------------
(* The health of a feed. *)

LEMMA CycleTellsHealth ==
    ASSUME PollerTypeOK, EventsTellHealth,
           NEW l \in Loops, CycleOk(l) \/ CycleEmpty(l) \/ CycleRaises(l)
    PROVE  EventsTellHealth'
  <1> DEFINE f == FeedOf(l)
  <1>0. f \in Feeds /\ busy \in Nat
    BY CycleParts, PollerAssumption DEF PollerTypeOK
  <1>1. CASE UNCHANGED <<fails, degraded, last, busy>>
    BY <1>1 DEF EventsTellHealth
  <1>2. CASE FailureRaises(f) \/ FailureRaisesInside(f) \/ SuccessRaises(f)
    <2>1. busy' # 0
      BY <1>0, <1>2 DEF FailureRaises, FailureRaisesInside, SuccessRaises, Raises
    <2> QED BY <2>1 DEF EventsTellHealth
  <1>3. CASE FailureNoted(f)
    <2> HIDE DEF f
    <2> SUFFICES ASSUME busy = 0, NEW g \in Feeds
                 PROVE  degraded'[g] <=> last'[g] \in Outages
      BY <1>3 DEF FailureNoted, Writes, EventsTellHealth
    <2>1. degraded[g] <=> last[g] \in Outages
      BY DEF EventsTellHealth
    <2>2. degraded' = [degraded EXCEPT ![f] = degraded[f] \/ Degrades(f)]
      BY <1>3 DEF FailureNoted, Failed
    <2>3. CASE Degrades(f)
      BY <1>0, <1>3, <2>1, <2>2, <2>3 DEF FailureNoted, PollerTypeOK, Outages
    <2>4. CASE ~Degrades(f)
      BY <1>0, <1>3, <2>1, <2>2, <2>4 DEF FailureNoted, PollerTypeOK
    <2> QED BY <2>3, <2>4
  <1>4. CASE SuccessNoted(f)
    <2> HIDE DEF f
    <2> SUFFICES ASSUME busy = 0, NEW g \in Feeds
                 PROVE  degraded'[g] <=> last'[g] \in Outages
      BY <1>4 DEF SuccessNoted, Writes, EventsTellHealth
    <2>1. \A h \in Feeds : degraded[h] <=> last[h] \in Outages
      BY DEF EventsTellHealth
    <2> QED BY <1>0, <1>4, <2>1 DEF SuccessNoted, PollerTypeOK, Outages
  <1> QED BY <1>1, <1>2, <1>3, <1>4, CycleParts

(* While every write succeeded, the newest health event says whether a feed  *)
(* is degraded, whichever loops counted and in whatever order              *)
(* (engine/poller.py _note_failure(), _note_success(), probe_all()).       *)
THEOREM HealthTold == Spec => []EventsTellHealth
  <1>1. Init => EventsTellHealth
    BY DEF Init, PollerInit, EventsTellHealth, Outages
  <1>2. ProcessTypeOK /\ EventsTellHealth /\ [Next]_vars => EventsTellHealth'
    <2> SUFFICES ASSUME PollerTypeOK, EventsTellHealth,
                        PollerMoves \/ UNCHANGED pollerVars
                 PROVE  EventsTellHealth'
      BY StepParts DEF ProcessTypeOK
    <2>1. ASSUME NEW f \in Feeds, Probe(f)
          PROVE  EventsTellHealth'
      <3>1. PICK kind \in Kinds : /\ ProbeResult(f, kind)
                                  /\ kind \in Outages => kind = "feed_unavailable"
        BY <2>1 DEF Probe, Kinds, Outages
      <3> QED BY <2>1, <3>1 DEF Probe, ProbeResult, EventsTellHealth, PollerTypeOK, Outages
    <2>2. ASSUME NEW f \in Feeds, ProbeRaises(f)
          PROVE  EventsTellHealth'
      BY <2>2, PollerAssumption DEF ProbeRaises, Raises, EventsTellHealth, PollerTypeOK
    <2>3. CASE RunLoops \/ UNCHANGED pollerVars
      BY <2>3 DEF RunLoops, pollerVars, health, EventsTellHealth
    <2>4. CASE Raises /\ UNCHANGED <<booted, health, last, alive>>
      BY <2>4, PollerAssumption DEF Raises, EventsTellHealth, PollerTypeOK
    <2> QED BY <2>1, <2>2, <2>3, <2>4, CycleTellsHealth DEF PollerMoves
  <1> QED BY <1>1, <1>2, ProcessTypeCorrect, PTL DEF Spec

(* No outage of a provider ends a polling loop: one that ends was in the   *)
(* cycle that declares its feed degraded, and could not write it           *)
(* (engine/poller.py _quote_loop(), _bar_loop(), _news_loop()).            *)
THEOREM LoopsSafe == Spec => FeedsEndNoLoop
  <1> DEFINE Spared(l) ==
        busy' > busy /\ degraded'[FeedOf(l)] /\ ~degraded[FeedOf(l)]
  <1>1. ProcessTypeOK /\ [Next]_vars => [\A l \in alive \ alive' : Spared(l)]_pollerVars
    <2> SUFFICES ASSUME PollerTypeOK, PollerMoves \/ UNCHANGED pollerVars,
                        NEW m \in alive, m \notin alive'
                 PROVE  Spared(m)
      BY StepParts DEF ProcessTypeOK
    <2>1. PICK l \in Loops : CycleOk(l) \/ CycleEmpty(l) \/ CycleRaises(l)
      BY DEF PollerMoves, Probe, ProbeRaises, RunLoops, pollerVars, PollerTypeOK,
             health
    <2>2. FeedOf(l) \in Feeds /\ FailureRaises(FeedOf(l)) /\ m = l
      BY <2>1, CycleParts
    <2>3. busy' > busy
      BY <2>2, PollerAssumption DEF FailureRaises, Raises, PollerTypeOK
    <2>4. Degrades(FeedOf(l)) /\ ~degraded[FeedOf(l)]
      BY <2>2 DEF FailureRaises, Degrades
    <2>5. degraded'[FeedOf(l)] = (degraded[FeedOf(l)] \/ Degrades(FeedOf(l)))
      BY <2>2 DEF FailureRaises, Failed, PollerTypeOK
    <2> QED BY <2>2, <2>3, <2>4, <2>5
  <1> QED BY <1>1, ProcessTypeCorrect, PTL DEF Spec, FeedsEndNoLoop
=============================================================================
