------------------------------- MODULE Cohort -------------------------------
(***************************************************************************)
(* The experiment: sessions of a model and of the baseline that is its      *)
(* control, and how the evaluation pairs them.  api/main.py session_start,  *)
(* store/schema/007_twin.sql, eval/cohort.py classify, meta and pair,       *)
(* eval/pnl.py mark_instant.                                                *)
(*                                                                         *)
(* The rows of sessions are written by API processes of the code before     *)
(* and after migration 007, and read by a report at any moment.  A session  *)
(* is its lifetime, whether it decided and whether it traded; the money is  *)
(* in Trades.  A start is synchronous, but each of its statements commits    *)
(* by itself and may raise.                                                 *)
(***************************************************************************)
EXTENDS Naturals, FiniteSets, SequencesExt

CONSTANTS Universes,    \* lists of symbols a session may trade
          Overlap,      \* pair(overlap=): <<num, den>> of the shorter session
          None,         \* a column that is NULL
          MaxRows,      \* bound: rows of sessions
          MaxTime,      \* bound: the clock
          MaxFaults     \* bound: restarts of the API, and what raises in it

ASSUME CohortAssumption ==
    /\ None \notin Nat
    /\ Overlap \in (Nat \X Nat) /\ Overlap[1] <= Overlap[2] /\ Overlap[2] > 0
    /\ {MaxRows, MaxTime, MaxFaults} \subseteq Nat

VARIABLES
    migrated,   \* 007 has been applied: the columns arm and twin_of exist
    twinning,   \* the API runs the code that writes them
    rows,       \* sessions, by id
    driven,     \* the sessions a task of the API is driving
    now,
    faults      \* (bound: MaxFaults)

vars == <<migrated, twinning, rows, driven, now, faults>>

Ids == DOMAIN rows
Arms == {"llm", "baseline"}
Live(i) == rows[i].status # "ended"

\* kind and control are history: what really decides, and the session it was
\* started with.  traded: it left decisions and fills.  beat: its last, known
\* once nothing drives it.
RowType == [arm: Arms \cup {None}, twin_of: 1..MaxRows \cup {None},
            universe: Universes, status: {"planned", "running", "ended"},
            started: 0..MaxTime \cup {None}, beat: 0..MaxTime \cup {None},
            finished: 0..MaxTime \cup {None}, traded: BOOLEAN,
            kind: Arms, control: 0..MaxRows]

\* A session that ended has a moment it can be valued at.
CohortTypeOK ==
    /\ {migrated, twinning} \subseteq BOOLEAN
    /\ rows \in Seq(RowType) /\ Len(rows) <= MaxRows
    /\ driven \subseteq {i \in Ids : Live(i)}
    /\ now \in 0..MaxTime
    /\ faults \in 0..MaxFaults
    /\ \A i \in Ids :
          /\ ~Live(i) => rows[i].finished # None \/ rows[i].beat # None
          /\ rows[i].finished # None => ~Live(i)
          /\ rows[i].arm # None \/ rows[i].twin_of # None => migrated
          /\ rows[i].traded => rows[i].started # None

-----------------------------------------------------------------------------
(* create() and session_start(). *)

NewRow(kind, u, twin_of, control) ==
    [arm |-> IF twinning THEN kind ELSE None, twin_of |-> twin_of, universe |-> u,
     status |-> "planned", started |-> None, beat |-> None, finished |-> None,
     traded |-> FALSE, kind |-> kind, control |-> control]

\* The code of before 007 names neither column, the code of after it needs both.
Creates == twinning => migrated
NextId == Len(rows) + 1

\* A session without a control, and every session of the older code.
StartAlone(kind, u) ==
    /\ Creates /\ NextId <= MaxRows
    /\ rows' = Append(rows, NewRow(kind, u, None, 0))
    /\ driven' = driven \cup {NextId}
    /\ UNCHANGED <<migrated, twinning, now, faults>>

\* The model's row, the twin's row that points at it, and the pointer back.
Pair(u, back) ==
    <<NewRow("llm", u, back, NextId + 1), NewRow("baseline", u, NextId, NextId)>>

MayTwin == twinning /\ Creates /\ NextId + 1 <= MaxRows

StartTwins(u) ==
    /\ MayTwin
    /\ rows' = rows \o Pair(u, NextId + 1)
    /\ driven' = driven \cup {NextId, NextId + 1}
    /\ UNCHANGED <<migrated, twinning, now, faults>>

\* Mutant: both arms are set running before the pointer back is written.
StartTwinsRaisesLate(u) ==
    /\ MayTwin /\ faults < MaxFaults /\ faults' = faults + 1
    /\ rows' = rows \o Pair(u, None)
    /\ driven' = driven \cup {NextId, NextId + 1}
    /\ UNCHANGED <<migrated, twinning, now>>

\* The second or the third statement raises: the rows stay, nothing drives them.
StartTwinsRaises(u) ==
    /\ MayTwin /\ faults < MaxFaults /\ faults' = faults + 1
    /\ \/ rows' = Append(rows, NewRow("llm", u, None, 0))
       \/ rows' = rows \o Pair(u, None)
    /\ UNCHANGED <<migrated, twinning, driven, now>>

-----------------------------------------------------------------------------
(* The life of a session: gather() runs the two arms apart, so one may fail *)
(* and the other go on.                                                    *)

Drives(i) == i \in driven
Update(i, row) == rows' = [rows EXCEPT ![i] = row]
Elsewhere == UNCHANGED <<migrated, twinning, now, faults>>

\* run(): the status is its first statement.
Runs(i) ==
    /\ Drives(i) /\ rows[i].status = "planned"
    /\ Update(i, [rows[i] EXCEPT !.status = "running", !.started = now])
    /\ UNCHANGED driven /\ Elsewhere

\* Whatever it did until its end is seen from here on.
Ended(i, row) ==
    {[row EXCEPT !.status = "ended", !.traded = traded] :
        traded \in {FALSE} \cup {rows[i].started # None}}

\* Mutant: the finish is left to the reaper.
SettledUnstamped(i) == Ended(i, rows[i])

\* The row is settled now.
Settled(i) == Ended(i, [rows[i] EXCEPT !.finished = now])

\* _finish().
Finishes(i) ==
    /\ Drives(i) /\ rows[i].status = "running"
    /\ \E row \in Settled(i) : Update(i, row)
    /\ driven' = driven \ {i} /\ Elsewhere

\* The exception handler's last write: 'failed' has no finish.
Fails(i) ==
    /\ Drives(i) /\ rows[i].status = "running"
    /\ faults < MaxFaults /\ faults' = faults + 1
    /\ \E row \in Ended(i, [rows[i] EXCEPT !.beat = now]) : Update(i, row)
    /\ driven' = driven \ {i}
    /\ UNCHANGED <<migrated, twinning, now>>

\* Its task ends on a write that raises, or with its API: the row stays behind.
LeftBehind(i) == IF rows[i].started = None THEN rows[i] ELSE [rows[i] EXCEPT !.beat = now]

Dies(i) ==
    /\ Drives(i) /\ faults < MaxFaults /\ faults' = faults + 1
    /\ Update(i, LeftBehind(i)) /\ driven' = driven \ {i}
    /\ UNCHANGED <<migrated, twinning, now>>

\* The API is restarted, and may come back as newer code.
Restart ==
    /\ faults < MaxFaults /\ faults' = faults + 1
    /\ rows' = [i \in Ids |-> IF Drives(i) THEN LeftBehind(i) ELSE rows[i]]
    /\ driven' = {}
    /\ twinning' \in {twinning, TRUE}
    /\ UNCHANGED <<migrated, now>>

\* _reap_orphans() settles what nothing drives, when it next looks.
Reaps(i) ==
    /\ ~Drives(i) /\ Live(i)
    /\ \E row \in Settled(i) : Update(i, row)
    /\ UNCHANGED driven /\ Elsewhere

\* An engine of the newer code starts: ALTER TABLE leaves both columns NULL.
Migrate ==
    /\ ~migrated /\ migrated' = TRUE
    /\ UNCHANGED <<twinning, rows, driven, now, faults>>

\* drive() is scheduled at once.
Clock ==
    /\ \A i \in driven : rows[i].status # "planned"
    /\ now < MaxTime /\ now' = now + 1
    /\ UNCHANGED <<migrated, twinning, rows, driven, faults>>

Init ==
    /\ migrated \in BOOLEAN /\ twinning = migrated
    /\ rows = <<>> /\ driven = {}
    /\ now = 0 /\ faults = 0

Next ==
    \/ \E u \in Universes :
          \/ \E kind \in Arms : StartAlone(kind, u)
          \/ StartTwins(u) \/ StartTwinsRaises(u)
    \/ \E i \in Ids :
          Runs(i) \/ Finishes(i) \/ Fails(i) \/ Dies(i) \/ Reaps(i)
    \/ Restart \/ Migrate \/ Clock

Spec == Init /\ [][Next]_vars

-----------------------------------------------------------------------------
(* The report. *)

\* Mutant: whatever is not known to be the stub's is the model's.
ClassifyTwoValued(i) == IF rows[i].arm # None THEN rows[i].arm ELSE "llm"

\* The recorded arm, or what the decisions show, or unknown.
Classify(i) ==
    IF rows[i].arm # None THEN rows[i].arm
    ELSE IF rows[i].traded THEN rows[i].kind ELSE "unknown"

\* Neither in flight, nor of an unknown arm, nor without fills.
Scorable(i) == ~Live(i) /\ Classify(i) # "unknown" /\ rows[i].traded

ScorableArm(arm) == {i \in Ids : Scorable(i) /\ Classify(i) = arm}

\* Whoever is scored has started and ended: a heartbeat stands in for a finish.
Begun(i) == rows[i].started
MarkInstant(i) == IF rows[i].finished # None THEN rows[i].finished ELSE rows[i].beat

Lesser(a, b) == IF a <= b THEN a ELSE b
Greater(a, b) == IF a <= b THEN b ELSE a

\* _overlap_fraction() >= overlap; a session of no length overlaps nothing.
Overlaps(a, b) ==
    LET shorter == Lesser(MarkInstant(a) - Begun(a), MarkInstant(b) - Begun(b))
        from == Greater(Begun(a), Begun(b))
        to == Lesser(MarkInstant(a), MarkInstant(b))
    IN  /\ shorter > 0 /\ from <= to
        /\ (to - from) * Overlap[2] >= Overlap[1] * shorter

Alike(a, b) == rows[a].universe = rows[b].universe /\ Overlaps(a, b)

TwinPairs ==
    {p \in ScorableArm("llm") \X ScorableArm("baseline") : rows[p[1]].twin_of = p[2]}

PairedIn(pairs) == UNION {{p[1], p[2]} : p \in pairs}
WithFirst(pairs, a, bs) == IF bs = {} THEN pairs ELSE pairs \cup {<<a, Min(bs)>>}
Waits(pairs, a) == Scorable(a) /\ Classify(a) = "llm" /\ a \notin PairedIn(pairs)

\* The first baseline nobody has taken yet.
Guess(pairs, a) ==
    IF ~Waits(pairs, a) THEN pairs
    ELSE WithFirst(pairs, a,
             {b \in ScorableArm("baseline") \ PairedIn(pairs) : Alike(a, b)})

\* pair(): twins first, then the rest of the model's sessions in order of id.
Pairs == FoldLeft(Guess, TwinPairs, [i \in Ids |-> i])

-----------------------------------------------------------------------------
(* Properties. *)

(* Whatever raised or died while they were started, two arms that were      *)
(* started together and can both be scored are compared with each other and *)
(* with nothing else.                                                       *)
TwinsAreCompared ==
    LET pairs == Pairs
    IN  \A a \in ScorableArm("llm"), b \in ScorableArm("baseline") :
            rows[a].control = b =>
                {p \in pairs : {a, b} \cap {p[1], p[2]} # {}} = {<<a, b>>}

(* No session enters the comparison twice, none is on the wrong side of it,  *)
(* and no two that were alike are both left out.                             *)
ComparisonIsFair ==
    LET pairs == Pairs
        left(arm) == ScorableArm(arm) \ PairedIn(pairs)
    IN  /\ \A p, q \in pairs : p # q => {p[1], p[2]} \cap {q[1], q[2]} = {}
        /\ \A p \in pairs : rows[p[1]].kind = "llm" /\ rows[p[2]].kind = "baseline"
        /\ \A a \in left("llm"), b \in left("baseline") : ~Alike(a, b)

-----------------------------------------------------------------------------
(* What a comment says, and the code does not do; see the README. *)

(* mark_instant(): "its last heartbeat for one that was interrupted.  [...]  *)
(* Never 'now'": a session nobody drove to its end is valued no later than   *)
(* when it was last alive.                                                   *)
InterruptedMarkedAtBeat ==
    \A i \in Ids : Scorable(i) /\ rows[i].beat # None => MarkInstant(i) <= rows[i].beat
=============================================================================
