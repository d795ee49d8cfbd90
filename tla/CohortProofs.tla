---------------------------- MODULE CohortProofs ----------------------------
(***************************************************************************)
(* Theorems about Cohort: whom the evaluation compares with whom, for any   *)
(* number of sessions, of restarts and of statements that raise, and for    *)
(* every order in which sessions live.                                      *)
(***************************************************************************)
EXTENDS Cohort, DataInduction

\* The part of the type that concerns one row.
SoundRow(i) ==
    /\ ~Live(i) => rows[i].finished # None \/ rows[i].beat # None
    /\ rows[i].finished # None => ~Live(i)
    /\ rows[i].traded => rows[i].started # None

\* What a life may do to a row: it starts only if something drives it.
Lived(i) ==
    /\ rows'[i].arm = rows[i].arm /\ rows'[i].twin_of = rows[i].twin_of
    /\ rows'[i].kind = rows[i].kind /\ rows'[i].control = rows[i].control
    /\ rows'[i].started # None => rows[i].started # None \/ i \in driven
    /\ i \in driven' => i \in driven /\ Live(i)'
    /\ SoundRow(i)'

LifeStep ==
    /\ rows' \in Seq(RowType) /\ Len(rows') = Len(rows)
    /\ driven' \subseteq driven
    /\ now' = now /\ faults' \in 0..MaxFaults /\ migrated' = migrated
    /\ twinning' \in BOOLEAN
    /\ \A i \in Ids : Lived(i)

Lives(i) == Runs(i) \/ Finishes(i) \/ Fails(i) \/ Dies(i) \/ Reaps(i)

LEMMA RowsOfIds ==
    ASSUME CohortTypeOK
    PROVE  /\ Len(rows) \in Nat /\ Ids = 1..Len(rows) /\ Ids \subseteq Nat
           /\ \A i \in Ids : rows[i] \in RowType /\ SoundRow(i)
  <1>1. Len(rows) \in Nat /\ Ids = 1..Len(rows) /\ \A i \in Ids : rows[i] \in RowType
    BY LenProperties, ElementOfSeq DEF CohortTypeOK, Ids
  <1>2. \A i \in Ids : SoundRow(i)
    BY DEF CohortTypeOK, SoundRow
  <1> QED BY <1>1, <1>2

LEMMA MoreFaults ==
    ASSUME CohortTypeOK, faults < MaxFaults, faults' = faults + 1
    PROVE  faults' \in 0..MaxFaults
  <1>1. faults \in 0..MaxFaults /\ MaxFaults \in Nat
    BY CohortAssumption DEF CohortTypeOK
  <1> QED BY <1>1

LEMMA TimesAreNumbers == \A t \in 0..MaxTime : t # None
  BY CohortAssumption

(* One row is written.                                                      *)
LEMMA RowWritten ==
    ASSUME CohortTypeOK, NEW i \in Ids, NEW row \in RowType, Update(i, row)
    PROVE  /\ rows' \in Seq(RowType) /\ Len(rows') = Len(rows) /\ Ids' = Ids
           /\ rows'[i] = row /\ \A j \in Ids \ {i} : rows'[j] = rows[j]
  <1>1. rows \in [1..Len(rows) -> RowType] /\ Len(rows) \in Nat /\ Ids = 1..Len(rows)
    BY RowsOfIds, LenProperties DEF CohortTypeOK
  <1>2. rows' = [rows EXCEPT ![i] = row]
    BY DEF Update
  <1>3. rows' \in [1..Len(rows) -> RowType]
    BY <1>1, <1>2
  <1>4. rows' \in Seq(RowType)
    BY <1>1, <1>3, IsASeq
  <1>5. DOMAIN rows' = 1..Len(rows)
    BY <1>3
  <1>6. Len(rows') = Len(rows)
    BY <1>1, <1>4, <1>5, LenProperties
  <1> QED BY <1>1, <1>2, <1>4, <1>5, <1>6 DEF Ids

(* A row that is ended at t is sound and keeps what its start wrote.        *)
LEMMA EndedRow ==
    ASSUME CohortTypeOK, NEW i \in Ids, NEW t \in 0..MaxTime, NEW r,
           r = [rows[i] EXCEPT !.finished = t] \/ r = [rows[i] EXCEPT !.beat = t],
           NEW row \in Ended(i, r)
    PROVE  /\ row \in RowType /\ row.status = "ended"
           /\ row.finished # None \/ row.beat # None
           /\ row.started = rows[i].started /\ (row.traded => row.started # None)
           /\ row.arm = rows[i].arm /\ row.twin_of = rows[i].twin_of
           /\ row.kind = rows[i].kind /\ row.control = rows[i].control
  <1>1. rows[i] \in RowType /\ t # None
    BY RowsOfIds, TimesAreNumbers
  <1>2. PICK traded \in {FALSE} \cup {rows[i].started # None} :
            row = [r EXCEPT !.status = "ended", !.traded = traded]
    BY DEF Ended
  <1>3. traded \in BOOLEAN /\ (traded => rows[i].started # None)
    BY <1>2
  <1>4. CASE r = [rows[i] EXCEPT !.finished = t]
    BY <1>1, <1>2, <1>3, <1>4 DEF RowType
  <1>5. CASE r = [rows[i] EXCEPT !.beat = t]
    BY <1>1, <1>2, <1>3, <1>5 DEF RowType
  <1> QED BY <1>4, <1>5

(* One row is written as a life may, and at most its driver goes.           *)
LEMMA OneLives ==
    ASSUME CohortTypeOK, NEW i \in Ids, NEW row \in RowType, Update(i, row),
           row.arm = rows[i].arm /\ row.twin_of = rows[i].twin_of,
           row.kind = rows[i].kind /\ row.control = rows[i].control,
           row.started # None => rows[i].started # None \/ i \in driven,
           row.status = "ended" => row.finished # None \/ row.beat # None,
           row.finished # None => row.status = "ended",
           row.traded => row.started # None,
           \/ driven' = driven \ {i}
           \/ driven' = driven /\ (i \in driven => row.status # "ended")
    PROVE  /\ rows' \in Seq(RowType) /\ Len(rows') = Len(rows)
           /\ driven' \subseteq driven
           /\ \A j \in Ids : Lived(j)
  <1>1. /\ rows' \in Seq(RowType) /\ Len(rows') = Len(rows)
        /\ rows'[i] = row /\ \A j \in Ids \ {i} : rows'[j] = rows[j]
    BY RowWritten
  <1>2. Lived(i)
    BY <1>1 DEF Lived, SoundRow, Live
  <1>3. ASSUME NEW j \in Ids, j # i
        PROVE  Lived(j)
    <2>1. SoundRow(j) /\ (j \in driven => Live(j)) /\ rows'[j] = rows[j]
      BY <1>1, <1>3, RowsOfIds DEF CohortTypeOK
    <2>2. j \in driven' <=> j \in driven
      BY <1>3
    <2> QED BY <2>1, <2>2 DEF Lived, SoundRow, Live
  <1> QED BY <1>1, <1>2, <1>3

(* The row that is left behind is that of a session that still lives.       *)
LEMMA RowLeftBehind ==
    ASSUME CohortTypeOK, NEW i \in Ids
    PROVE  /\ LeftBehind(i) \in RowType
           /\ LeftBehind(i).arm = rows[i].arm /\ LeftBehind(i).twin_of = rows[i].twin_of
           /\ LeftBehind(i).kind = rows[i].kind /\ LeftBehind(i).control = rows[i].control
           /\ LeftBehind(i).started = rows[i].started
           /\ LeftBehind(i).status = rows[i].status
           /\ LeftBehind(i).finished = rows[i].finished
           /\ LeftBehind(i).traded = rows[i].traded
           /\ rows[i].beat # None => LeftBehind(i).beat # None
  <1>1. rows[i] \in RowType /\ now \in 0..MaxTime /\ now # None
    BY RowsOfIds, TimesAreNumbers DEF CohortTypeOK
  <1>2. CASE rows[i].started = None
    BY <1>1, <1>2 DEF LeftBehind
  <1>3. CASE rows[i].started # None
    <2>1. LeftBehind(i) = [rows[i] EXCEPT !.beat = now]
      BY <1>3 DEF LeftBehind
    <2> QED BY <1>1, <2>1 DEF RowType
  <1> QED BY <1>2, <1>3

LEMMA RunsIsALife ==
    ASSUME CohortTypeOK, NEW i \in Ids, Runs(i)
    PROVE  LifeStep
  <1> DEFINE row == [rows[i] EXCEPT !.status = "running", !.started = now]
  <1>1. rows[i] \in RowType /\ SoundRow(i) /\ now \in 0..MaxTime /\ now # None
    BY RowsOfIds, TimesAreNumbers DEF CohortTypeOK
  <1>2. /\ row \in RowType /\ row.status = "running" /\ row.started = now
        /\ row.arm = rows[i].arm /\ row.twin_of = rows[i].twin_of
        /\ row.kind = rows[i].kind /\ row.control = rows[i].control
        /\ row.finished = rows[i].finished /\ row.traded = rows[i].traded
    BY <1>1 DEF RowType
  <1>3. /\ Update(i, row) /\ driven' = driven /\ i \in driven /\ rows[i].status = "planned"
        /\ UNCHANGED <<migrated, twinning, now, faults>>
    BY DEF Runs, Drives, Elsewhere
  <1>4. rows[i].finished = None
    BY <1>1, <1>3 DEF SoundRow, Live
  <1> HIDE DEF row
  <1>5. /\ rows' \in Seq(RowType) /\ Len(rows') = Len(rows)
        /\ driven' \subseteq driven /\ \A j \in Ids : Lived(j)
    BY <1>1, <1>2, <1>3, <1>4, OneLives
  <1> QED BY <1>3, <1>5 DEF LifeStep, CohortTypeOK

LEMMA EndIsALife ==
    ASSUME CohortTypeOK, NEW i \in Ids, Finishes(i) \/ Fails(i) \/ Reaps(i)
    PROVE  LifeStep
  <1>0. now \in 0..MaxTime /\ (i \in driven => Live(i))
    BY DEF CohortTypeOK
  <1>1. PICK r : /\ r = [rows[i] EXCEPT !.finished = now] \/ r = [rows[i] EXCEPT !.beat = now]
                 /\ \E row \in Ended(i, r) : Update(i, row)
    <2>1. CASE Fails(i)
      BY <2>1 DEF Fails
    <2>2. CASE Finishes(i) \/ Reaps(i)
      BY <2>2 DEF Finishes, Reaps, Settled
    <2> QED BY <2>1, <2>2
  <1>6. PICK row \in Ended(i, r) : Update(i, row)
    BY <1>1
  <1>2. /\ row \in RowType /\ row.status = "ended"
        /\ row.finished # None \/ row.beat # None
        /\ row.started = rows[i].started /\ (row.traded => row.started # None)
        /\ row.arm = rows[i].arm /\ row.twin_of = rows[i].twin_of
        /\ row.kind = rows[i].kind /\ row.control = rows[i].control
    BY <1>0, <1>1, <1>6, EndedRow
  <1>3. /\ driven' = driven \ {i} \/ (driven' = driven /\ i \notin driven)
        /\ migrated' = migrated /\ twinning' = twinning /\ now' = now
        /\ faults' \in 0..MaxFaults
    <2>1. CASE Fails(i)
      <3>1. /\ driven' = driven \ {i} /\ migrated' = migrated
            /\ twinning' = twinning /\ now' = now
        BY <2>1 DEF Fails
      <3>2. faults < MaxFaults /\ faults' = faults + 1
        BY <2>1 DEF Fails
      <3>3. faults' \in 0..MaxFaults
        BY ONLY CohortTypeOK, <3>2, MoreFaults
      <3> QED BY <3>1, <3>3
    <2>2. CASE Finishes(i)
      <3>1. driven' = driven \ {i} /\ UNCHANGED <<migrated, twinning, now, faults>>
        BY <2>2 DEF Finishes, Elsewhere
      <3> QED BY <3>1 DEF CohortTypeOK
    <2>3. CASE Reaps(i)
      BY <2>3 DEF Reaps, Drives, Elsewhere, CohortTypeOK
    <2> QED BY <2>1, <2>2, <2>3
  <1>4. /\ rows' \in Seq(RowType) /\ Len(rows') = Len(rows)
        /\ driven' \subseteq driven /\ \A j \in Ids : Lived(j)
    BY <1>2, <1>3, <1>6, OneLives
  <1> QED BY <1>3, <1>4 DEF LifeStep, CohortTypeOK

LEMMA DeathIsALife ==
    ASSUME CohortTypeOK, NEW i \in Ids, Dies(i)
    PROVE  LifeStep
  <1> DEFINE row == LeftBehind(i)
  <1>1. /\ row \in RowType /\ row.started = rows[i].started /\ row.status = rows[i].status
        /\ row.arm = rows[i].arm /\ row.twin_of = rows[i].twin_of
        /\ row.kind = rows[i].kind /\ row.control = rows[i].control
        /\ row.finished = rows[i].finished /\ row.traded = rows[i].traded
        /\ rows[i].beat # None => row.beat # None
    BY RowLeftBehind
  <1>2. Update(i, row) /\ driven' = driven \ {i} /\ UNCHANGED <<migrated, twinning, now>>
    BY DEF Dies
  <1>3. faults' \in 0..MaxFaults
    BY MoreFaults DEF Dies
  <1>4. SoundRow(i)
    BY RowsOfIds
  <1> HIDE DEF row
  <1>5. /\ row.status = "ended" => row.finished # None \/ row.beat # None
        /\ row.finished # None => row.status = "ended"
        /\ row.traded => row.started # None
    BY <1>1, <1>4 DEF SoundRow, Live
  <1>6. /\ rows' \in Seq(RowType) /\ Len(rows') = Len(rows)
        /\ driven' \subseteq driven /\ \A j \in Ids : Lived(j)
    BY <1>1, <1>2, <1>5, OneLives
  <1> QED BY <1>2, <1>3, <1>6 DEF LifeStep, CohortTypeOK

LEMMA RestartIsALife ==
    ASSUME CohortTypeOK, Restart
    PROVE  LifeStep
  <1>1. /\ driven' = {} /\ UNCHANGED <<migrated, now>>
        /\ faults < MaxFaults /\ faults' = faults + 1
    BY DEF Restart
  <1>0. faults' \in 0..MaxFaults /\ twinning' \in BOOLEAN
    <2>1. twinning \in BOOLEAN /\ twinning' \in {twinning, TRUE}
      BY DEF Restart, CohortTypeOK
    <2> QED BY <1>1, <2>1, MoreFaults
  <1>2. rows' = [i \in Ids |-> IF Drives(i) THEN LeftBehind(i) ELSE rows[i]]
    BY DEF Restart
  <1>3. \A i \in Ids : rows'[i] = LeftBehind(i) \/ rows'[i] = rows[i]
    BY <1>2
  <1>4. /\ Len(rows) \in Nat /\ Ids = 1..Len(rows)
        /\ \A i \in Ids : rows[i] \in RowType /\ SoundRow(i)
    BY RowsOfIds
  <1>5. \A i \in Ids : LeftBehind(i) \in RowType
    BY RowLeftBehind
  <1>6. rows' \in [1..Len(rows) -> RowType]
    BY <1>2, <1>4, <1>5
  <1>7. rows' \in Seq(RowType) /\ DOMAIN rows' = 1..Len(rows)
    BY <1>4, <1>6, IsASeq
  <1>8. Len(rows') = Len(rows)
    BY <1>4, <1>7, LenProperties
  <1>9. ASSUME NEW i \in Ids
        PROVE  Lived(i)
    <2>1. CASE rows'[i] = rows[i]
      BY <1>1, <1>4, <2>1 DEF Lived, SoundRow, Live
    <2>2. CASE rows'[i] = LeftBehind(i)
      BY <1>1, <1>4, <2>2, RowLeftBehind DEF Lived, SoundRow, Live
    <2> QED BY <1>3, <2>1, <2>2
  <1> QED BY <1>0, <1>1, <1>7, <1>8, <1>9 DEF LifeStep

LEMMA EveryLife ==
    ASSUME CohortTypeOK, Restart \/ \E i \in Ids : Lives(i)
    PROVE  LifeStep
  BY RunsIsALife, EndIsALife, DeathIsALife, RestartIsALife DEF Lives

-----------------------------------------------------------------------------
(* The start. *)

\* What the start leaves between a session of a model and its control: the
\* columns tell nothing that is not so, and the pointer back was written before
\* anything drove the row.
WellStarted(i) ==
    /\ rows[i].arm # None => rows[i].arm = rows[i].kind
    /\ rows[i].kind = "llm" =>
          /\ rows[i].twin_of # None => rows[i].twin_of = i + 1
          /\ rows[i].control # 0 =>
                /\ rows[i].control = i + 1
                /\ rows[i].started # None \/ i \in driven => rows[i].twin_of = i + 1

StartInv == \A i \in Ids : WellStarted(i)

New(i) ==
    /\ rows[i].status = "planned" /\ ~rows[i].traded
    /\ rows[i].started = None /\ rows[i].beat = None /\ rows[i].finished = None
    /\ rows[i].arm # None \/ rows[i].twin_of # None => migrated
    /\ WellStarted(i)

StartStep ==
    /\ rows' \in Seq(RowType) /\ Len(rows') \in Len(rows)..MaxRows
    /\ \A i \in Ids : rows'[i] = rows[i] /\ (i \in driven' <=> i \in driven)
    /\ \A i \in Ids' \ Ids : New(i)'
    /\ driven' \subseteq Ids'
    /\ migrated' = migrated /\ twinning' = twinning /\ now' = now
    /\ faults' \in 0..MaxFaults

LEMMA NewRowType ==
    ASSUME NEW kind \in Arms, NEW u \in Universes, NEW twin_of \in 1..MaxRows \cup {None},
           NEW control \in 0..MaxRows, NEW row, row = NewRow(kind, u, twin_of, control),
           twinning \in BOOLEAN
    PROVE  /\ row \in RowType /\ row.status = "planned" /\ ~row.traded
           /\ row.started = None /\ row.beat = None /\ row.finished = None
           /\ row.twin_of = twin_of /\ row.kind = kind /\ row.control = control
           /\ IF twinning THEN row.arm = kind ELSE row.arm = None
  <1>1. CASE twinning
    BY <1>1 DEF NewRow, RowType
  <1>2. CASE ~twinning
    BY <1>2 DEF NewRow, RowType
  <1> QED BY <1>1, <1>2

LEMMA RowsAppended ==
    ASSUME CohortTypeOK, NEW s \in Seq(RowType), rows' = rows \o s
    PROVE  /\ rows' \in Seq(RowType) /\ Len(rows') = Len(rows) + Len(s)
           /\ \A i \in Ids : rows'[i] = rows[i]
           /\ Ids' = 1..(Len(rows) + Len(s))
           /\ \A k \in 1..Len(s) : rows'[Len(rows) + k] = s[k]
  <1>1. /\ rows \in Seq(RowType) /\ Len(rows) \in Nat /\ Ids = 1..Len(rows)
        /\ Len(s) \in Nat
    BY RowsOfIds, LenProperties DEF CohortTypeOK
  <1>2. /\ rows \o s \in Seq(RowType) /\ Len(rows \o s) = Len(rows) + Len(s)
        /\ \A i \in 1..(Len(rows) + Len(s)) :
              (rows \o s)[i] = IF i <= Len(rows) THEN rows[i] ELSE s[i - Len(rows)]
    BY <1>1, ConcatProperties
  <1>3. DOMAIN rows' = 1..(Len(rows) + Len(s))
    BY <1>1, <1>2, LenProperties
  <1>4. ASSUME NEW k \in 1..Len(s)
        PROVE  rows'[Len(rows) + k] = s[k]
    <2> DEFINE i == Len(rows) + k
    <2>1. i \in 1..(Len(rows) + Len(s)) /\ ~(i <= Len(rows)) /\ i - Len(rows) = k
      BY <1>1
    <2> HIDE DEF i
    <2>2. (rows \o s)[i] = s[k]
      BY <1>2, <2>1
    <2> QED BY <2>2 DEF i
  <1>5. ASSUME NEW i \in Ids
        PROVE  rows'[i] = rows[i]
    BY <1>1, <1>2
  <1> QED BY <1>1, <1>2, <1>3, <1>4, <1>5 DEF Ids

(* One row is created.                                                      *)
LEMMA OneStarts ==
    ASSUME CohortTypeOK, NEW kind \in Arms, NEW u \in Universes,
           Creates, NextId <= MaxRows,
           rows' = Append(rows, NewRow(kind, u, None, 0)),
           driven' = driven \/ driven' = driven \cup {NextId},
           migrated' = migrated, twinning' = twinning, now' = now,
           faults' \in 0..MaxFaults
    PROVE  StartStep
  <1> DEFINE row == NewRow(kind, u, None, 0)
  <1>1. MaxRows \in Nat /\ twinning \in BOOLEAN /\ rows \in Seq(RowType)
    BY CohortAssumption DEF CohortTypeOK
  <1>2. /\ row \in RowType /\ row.status = "planned" /\ ~row.traded
        /\ row.started = None /\ row.beat = None /\ row.finished = None
        /\ row.twin_of = None /\ row.kind = kind /\ row.control = 0
        /\ IF twinning THEN row.arm = kind ELSE row.arm = None
    <2>1. CASE twinning
      BY <1>1, <2>1 DEF NewRow, RowType
    <2>2. CASE ~twinning
      BY <1>1, <2>2 DEF NewRow, RowType
    <2> QED BY <2>1, <2>2
  <1> HIDE DEF row
  <1> DEFINE s == <<row>>
  <1>3. s \in Seq(RowType) /\ Len(s) = 1 /\ s[1] = row
    BY <1>2
  <1>4. rows' = rows \o s
    BY <1>1, <1>2, AppendIsConcat DEF row
  <1> HIDE DEF s
  <1>5. /\ rows' \in Seq(RowType) /\ Len(rows') = Len(rows) + 1
        /\ \A i \in Ids : rows'[i] = rows[i]
        /\ Ids' = 1..(Len(rows) + 1) /\ rows'[Len(rows) + 1] = row
    <2>1. /\ rows' \in Seq(RowType) /\ Len(rows') = Len(rows) + Len(s)
          /\ \A i \in Ids : rows'[i] = rows[i]
          /\ Ids' = 1..(Len(rows) + Len(s))
          /\ \A k \in 1..Len(s) : rows'[Len(rows) + k] = s[k]
      BY ONLY CohortTypeOK, <1>3, <1>4, RowsAppended
    <2>2. 1 \in 1..Len(s)
      BY <1>3
    <2> QED BY <1>3, <2>1, <2>2
  <1>6. Len(rows) \in Nat /\ Ids = 1..Len(rows)
    BY RowsOfIds
  <1>7. ASSUME NEW i \in Ids' \ Ids
        PROVE  New(i)'
    <2>1. rows'[i] = row
      BY <1>5, <1>6
    <2> QED BY <1>2, <2>1 DEF New, WellStarted, Creates
  <1>8. driven \subseteq Ids
    BY DEF CohortTypeOK
  <1>9. NextId \notin Ids /\ NextId \in Ids' /\ Ids \subseteq Ids'
    BY <1>5, <1>6 DEF NextId
  <1>10. driven' \subseteq Ids' /\ \A i \in Ids : i \in driven' <=> i \in driven
    BY <1>8, <1>9
  <1>11. Len(rows') \in Len(rows)..MaxRows
    BY <1>1, <1>5, <1>6 DEF NextId
  <1> QED BY <1>5, <1>7, <1>10, <1>11 DEF StartStep

(* Two rows are created, and nothing drives them before the pointer back.   *)
LEMMA TwoStart ==
    ASSUME CohortTypeOK, NEW u \in Universes, NEW back, MayTwin,
           rows' = rows \o Pair(u, back),
           \/ back = None /\ driven' = driven
           \/ back = NextId + 1 /\ driven' = driven \cup {NextId, NextId + 1},
           migrated' = migrated, twinning' = twinning, now' = now,
           faults' \in 0..MaxFaults
    PROVE  StartStep
  <1> DEFINE n == Len(rows)
             model == NewRow("llm", u, back, NextId + 1)
             control == NewRow("baseline", u, NextId, NextId)
  <1>1. /\ MaxRows \in Nat /\ twinning /\ migrated /\ n \in Nat /\ Ids = 1..n
        /\ NextId = n + 1 /\ n + 2 <= MaxRows
    BY CohortAssumption, RowsOfIds DEF MayTwin, Creates, NextId
  <1>2. back = None \/ back = n + 2
    BY <1>1
  <1>3. /\ model \in RowType /\ model.status = "planned" /\ ~model.traded
        /\ model.started = None /\ model.beat = None /\ model.finished = None
        /\ model.twin_of = back /\ model.kind = "llm" /\ model.control = n + 2
        /\ model.arm = "llm"
    <2>1. "llm" \in Arms /\ back \in 1..MaxRows \cup {None} /\ NextId + 1 \in 0..MaxRows
      BY <1>1, <1>2 DEF Arms
    <2> QED BY ONLY <1>1, <2>1, u \in Universes, NewRowType
  <1>4. /\ control \in RowType /\ control.status = "planned" /\ ~control.traded
        /\ control.started = None /\ control.beat = None /\ control.finished = None
        /\ control.kind = "baseline" /\ control.arm = "baseline"
    <2>1. "baseline" \in Arms /\ NextId \in 1..MaxRows \cup {None} /\ NextId \in 0..MaxRows
      BY <1>1 DEF Arms
    <2> QED BY ONLY <1>1, <2>1, u \in Universes, NewRowType
  <1>5. Pair(u, back) = <<model, control>>
    BY DEF Pair
  <1> HIDE DEF model, control
  <1> DEFINE s == <<model, control>>
  <1>6. s \in Seq(RowType) /\ Len(s) = 2 /\ s[1] = model /\ s[2] = control
    BY <1>3, <1>4
  <1>7. rows' = rows \o s
    BY <1>5
  <1> HIDE DEF s
  <1>8. /\ rows' \in Seq(RowType) /\ Len(rows') = n + 2
        /\ \A i \in Ids : rows'[i] = rows[i]
        /\ Ids' = 1..(n + 2) /\ rows'[n + 1] = model /\ rows'[n + 2] = control
    <2>1. /\ rows' \in Seq(RowType) /\ Len(rows') = n + Len(s)
          /\ \A i \in Ids : rows'[i] = rows[i]
          /\ Ids' = 1..(n + Len(s)) /\ \A k \in 1..Len(s) : rows'[n + k] = s[k]
      BY ONLY CohortTypeOK, <1>6, <1>7, RowsAppended
    <2>2. 1 \in 1..Len(s) /\ 2 \in 1..Len(s)
      BY <1>6
    <2> HIDE DEF n
    <2> QED BY <1>6, <2>1, <2>2
  <1> HIDE DEF n
  <1>9. ASSUME NEW i \in Ids' \ Ids
        PROVE  New(i)'
    <2>1. i = n + 1 \/ i = n + 2
      BY <1>1, <1>8
    <2>2. CASE i = n + 1
      <3>1. back = None => n + 1 \notin driven'
        <4>1. driven \subseteq Ids
          BY DEF CohortTypeOK
        <4>2. back = None => driven' = driven
          BY <1>1, CohortAssumption
        <4> QED BY <1>1, <4>1, <4>2
      <3>2. rows'[i] = model /\ n + 2 = i + 1 /\ rows'[i].started = None
        BY <1>1, <1>3, <1>8, <2>2
      <3>3. WellStarted(i)'
        BY <1>2, <1>3, <2>2, <3>1, <3>2 DEF WellStarted
      <3> QED BY <1>1, <1>3, <3>2, <3>3 DEF New
    <2>3. CASE i = n + 2
      BY <1>1, <1>4, <1>8, <2>3 DEF New, WellStarted
    <2> QED BY <2>1, <2>2, <2>3
  <1>10. driven \subseteq Ids
    BY DEF CohortTypeOK
  <1>11. \A i \in Ids : i \in driven' <=> i \in driven
    BY <1>1
  <1>12. driven' \subseteq Ids'
    <2>1. driven' \subseteq driven \cup {n + 1, n + 2}
      BY <1>1
    <2>2. Ids \subseteq Ids' /\ {n + 1, n + 2} \subseteq Ids'
      BY <1>1, <1>8
    <2> QED BY ONLY <1>10, <2>1, <2>2
  <1>13. Len(rows') \in Len(rows)..MaxRows
    BY <1>1, <1>8 DEF n
  <1> QED BY <1>8, <1>9, <1>11, <1>12, <1>13 DEF StartStep

LEMMA EveryStart ==
    ASSUME CohortTypeOK, NEW u \in Universes,
           (\E kind \in Arms : StartAlone(kind, u)) \/ StartTwins(u) \/ StartTwinsRaises(u)
    PROVE  StartStep
  <1>1. faults \in 0..MaxFaults
    BY DEF CohortTypeOK
  <1>2. CASE \E kind \in Arms : StartAlone(kind, u)
    BY <1>1, <1>2, OneStarts DEF StartAlone
  <1>3. CASE StartTwins(u)
    BY <1>1, <1>3, TwoStart DEF StartTwins
  <1>4. CASE StartTwinsRaises(u)
    <2>1. /\ MayTwin /\ driven' = driven /\ faults' \in 0..MaxFaults
          /\ migrated' = migrated /\ twinning' = twinning /\ now' = now
      <3>1. faults' \in 0..MaxFaults
        BY <1>4, MoreFaults DEF StartTwinsRaises
      <3> QED BY <1>4, <3>1 DEF StartTwinsRaises
    <2>2. CASE rows' = Append(rows, NewRow("llm", u, None, 0))
      <3>1. "llm" \in Arms /\ Creates /\ NextId <= MaxRows
        BY <2>1, RowsOfIds, CohortAssumption DEF Arms, MayTwin, NextId
      <3> QED BY <2>1, <2>2, <3>1, OneStarts
    <2>3. CASE rows' = rows \o Pair(u, None)
      BY <2>1, <2>3, TwoStart
    <2> QED BY <1>4, <2>2, <2>3 DEF StartTwinsRaises
  <1> QED BY <1>2, <1>3, <1>4

-----------------------------------------------------------------------------
(* The invariant. *)

CohortInv == CohortTypeOK /\ StartInv

LEMMA StartKeepsInv ==
    ASSUME CohortInv, StartStep
    PROVE  CohortInv'
  <1>1. /\ Len(rows) \in Nat /\ Ids = 1..Len(rows)
        /\ \A i \in Ids : rows[i] \in RowType /\ SoundRow(i)
    BY RowsOfIds DEF CohortInv
  <1>2. \A i \in Ids : rows'[i] = rows[i] /\ (i \in driven' <=> i \in driven)
    BY DEF StartStep
  <1>3. ASSUME NEW i \in Ids'
        PROVE  /\ SoundRow(i)' /\ WellStarted(i)' /\ (i \in driven' => Live(i)')
               /\ rows'[i].arm # None \/ rows'[i].twin_of # None => migrated'
    <2>1. CASE i \in Ids
      <3>1. /\ SoundRow(i) /\ WellStarted(i) /\ (i \in driven => Live(i))
            /\ rows[i].arm # None \/ rows[i].twin_of # None => migrated
        BY <1>1, <2>1 DEF CohortInv, CohortTypeOK, StartInv
      <3>2. rows'[i] = rows[i] /\ (i \in driven' <=> i \in driven) /\ migrated' = migrated
        BY <1>2, <2>1 DEF StartStep
      <3> QED BY <3>1, <3>2 DEF SoundRow, WellStarted, Live
    <2>2. CASE i \notin Ids
      <3>1. New(i)'
        BY <1>3, <2>2 DEF StartStep
      <3> QED BY <3>1 DEF New, SoundRow, Live
    <2> QED BY <2>1, <2>2
  <1>4. rows' \in Seq(RowType) /\ Len(rows') <= MaxRows
    BY <1>1, CohortAssumption DEF StartStep
  <1>5. driven' \subseteq {i \in Ids' : Live(i)'}
    BY <1>3 DEF StartStep
  <1>6. /\ {migrated', twinning'} \subseteq BOOLEAN
        /\ now' \in 0..MaxTime /\ faults' \in 0..MaxFaults
    BY DEF StartStep, CohortInv, CohortTypeOK
  <1> QED BY <1>3, <1>4, <1>5, <1>6 DEF CohortInv, CohortTypeOK, StartInv, SoundRow

LEMMA LifeKeepsInv ==
    ASSUME CohortInv, LifeStep
    PROVE  CohortInv'
  <1>1. /\ Len(rows) \in Nat /\ Ids = 1..Len(rows)
        /\ \A i \in Ids : rows[i] \in RowType /\ SoundRow(i)
    BY RowsOfIds DEF CohortInv
  <1>2. rows' \in Seq(RowType) /\ Len(rows') = Len(rows) /\ Ids' = Ids
    <2>1. rows' \in Seq(RowType) /\ Len(rows') = Len(rows)
      BY DEF LifeStep
    <2>2. DOMAIN rows' = 1..Len(rows')
      BY <2>1, LenProperties
    <2> QED BY <1>1, <2>1, <2>2 DEF Ids
  <1>3. ASSUME NEW i \in Ids
        PROVE  /\ SoundRow(i)' /\ WellStarted(i)' /\ (i \in driven' => Live(i)')
               /\ rows'[i].arm # None \/ rows'[i].twin_of # None => migrated'
    <2>1. /\ WellStarted(i)
          /\ rows[i].arm # None \/ rows[i].twin_of # None => migrated
      BY DEF CohortInv, CohortTypeOK, StartInv
    <2>2. Lived(i) /\ migrated' = migrated
      BY DEF LifeStep
    <2> QED BY <2>1, <2>2 DEF Lived, WellStarted
  <1>4. Len(rows') <= MaxRows
    BY <1>2 DEF CohortInv, CohortTypeOK
  <1>5. driven' \subseteq {i \in Ids' : Live(i)'}
    <2>1. driven' \subseteq Ids
      BY DEF LifeStep, CohortInv, CohortTypeOK
    <2> QED BY <1>2, <1>3, <2>1
  <1>6. /\ {migrated', twinning'} \subseteq BOOLEAN
        /\ now' \in 0..MaxTime /\ faults' \in 0..MaxFaults
    BY DEF LifeStep, CohortInv, CohortTypeOK
  <1>7. \A i \in Ids' : SoundRow(i)' /\ WellStarted(i)'
                        /\ (rows'[i].arm # None \/ rows'[i].twin_of # None => migrated')
    BY <1>2, <1>3
  <1> QED BY <1>2, <1>4, <1>5, <1>6, <1>7 DEF CohortInv, CohortTypeOK, StartInv, SoundRow

LEMMA CohortInvInductive ==
    /\ Init => CohortInv
    /\ CohortInv /\ [Next]_vars => CohortInv'
  <1>1. Init => CohortInv
    <2> SUFFICES ASSUME Init PROVE CohortInv
      OBVIOUS
    <2>1. Len(<<>>) = 0 /\ DOMAIN <<>> = {}
      OBVIOUS
    <2> QED BY <2>1, CohortAssumption
            DEF Init, CohortInv, CohortTypeOK, StartInv, Ids
  <1>2. ASSUME CohortInv, [Next]_vars
        PROVE  CohortInv'
    <2>1. CASE \E u \in Universes :
                  \/ \E kind \in Arms : StartAlone(kind, u)
                  \/ StartTwins(u) \/ StartTwinsRaises(u)
      BY <1>2, <2>1, EveryStart, StartKeepsInv DEF CohortInv
    <2>2. CASE Restart \/ \E i \in Ids : Lives(i)
      BY <1>2, <2>2, EveryLife, LifeKeepsInv DEF CohortInv
    <2>3. CASE Migrate
      BY <1>2, <2>3 DEF Migrate, CohortInv, CohortTypeOK, StartInv, WellStarted, Ids, Live
    <2>4. CASE Clock
      <3>1. UNCHANGED <<migrated, twinning, rows, driven, faults>>
        BY <2>4 DEF Clock
      <3>2. now' \in 0..MaxTime
        BY <1>2, <2>4, CohortAssumption DEF Clock, CohortInv, CohortTypeOK
      <3> QED BY <1>2, <3>1, <3>2 DEF CohortInv, CohortTypeOK, StartInv, WellStarted, Ids, Live
    <2>5. CASE UNCHANGED vars
      BY <1>2, <2>5 DEF vars, CohortInv, CohortTypeOK, StartInv, WellStarted, Ids, Live
    <2> QED BY <1>2, <2>1, <2>2, <2>3, <2>4, <2>5 DEF Next, Lives
  <1> QED BY <1>1, <1>2

(* The rows of sessions, whoever wrote them: what ended has a moment it can  *)
(* be valued at, and what traded had started.                               *)
THEOREM CohortTypeCorrect == Spec => []CohortTypeOK
  <1>1. CohortInv => CohortTypeOK
    BY DEF CohortInv
  <1> QED BY <1>1, CohortInvInductive, PTL DEF Spec

-----------------------------------------------------------------------------
(* The pairs.  pair() goes over the sessions in order of id, so they are the *)
(* value of a recursive function over the sets of sessions seen so far.     *)

InOrder == [i \in Ids |-> i]

PairsEquation(g) ==
    g = [u \in SUBSET (DOMAIN InOrder) |->
            IF u = {} THEN TwinPairs ELSE Guess(g[u \ {Max(u)}], InOrder[Max(u)])]

Candidates == ScorableArm("llm") \X ScorableArm("baseline")

GuessStep == [pa \in (SUBSET Candidates) \X Ids |-> Guess(pa[1], pa[2])]

LEMMA PairsUnfold == Pairs = (CHOOSE g : PairsEquation(g))[DOMAIN InOrder]
  BY DEF Pairs, PairsEquation, FoldLeft, MapThenFoldSet, InOrder

Joins(pairs, a, b, after) == after = pairs \cup {<<a, b>>}

\* What a guess is: nothing, or a pair of sessions nobody has.
Guessed(pairs, a, after) ==
    \/ /\ after = pairs
       /\ a \in ScorableArm("llm") \ PairedIn(pairs) =>
             \A b \in ScorableArm("baseline") \ PairedIn(pairs) : ~Alike(a, b)
    \/ /\ a \in ScorableArm("llm") \ PairedIn(pairs)
       /\ \E b \in ScorableArm("baseline") \ PairedIn(pairs) : Joins(pairs, a, b, after)

LEMMA AGuess ==
    ASSUME CohortTypeOK, NEW pairs \in SUBSET Candidates, NEW a \in Ids
    PROVE  Guessed(pairs, a, Guess(pairs, a)) /\ Guess(pairs, a) \in SUBSET Candidates
  <1> DEFINE bs == {b \in ScorableArm("baseline") \ PairedIn(pairs) : Alike(a, b)}
  <1>1. Waits(pairs, a) <=> a \in ScorableArm("llm") \ PairedIn(pairs)
    BY DEF Waits, ScorableArm
  <1>2. CASE ~Waits(pairs, a)
    <2>1. Guess(pairs, a) = pairs
      BY <1>2 DEF Guess
    <2> QED BY <1>1, <1>2, <2>1 DEF Guessed
  <1>3. CASE Waits(pairs, a)
    <2>1. Guess(pairs, a) = WithFirst(pairs, a, bs)
      BY <1>3 DEF Guess
    <2>2. CASE bs = {}
      <3>1. Guess(pairs, a) = pairs
        BY <2>1, <2>2 DEF WithFirst
      <3> QED BY <2>2, <3>1 DEF Guessed
    <2>3. CASE bs # {}
      <3>1. bs \in SUBSET Nat
        BY RowsOfIds DEF ScorableArm
      <3>2. Min(bs) \in bs
        <4> HIDE DEF bs
        <4> QED BY <2>3, <3>1, MinIsLeast
      <3>3. Joins(pairs, a, Min(bs), Guess(pairs, a))
        BY <2>1, <2>3 DEF WithFirst, Joins
      <3>4. Min(bs) \in ScorableArm("baseline") \ PairedIn(pairs)
        BY <3>2
      <3>5. <<a, Min(bs)>> \in Candidates
        BY <1>1, <1>3, <3>4 DEF Candidates
      <3> HIDE DEF bs
      <3>6. Guess(pairs, a) \in SUBSET Candidates
        BY <3>3, <3>5 DEF Joins
      <3> QED BY <1>1, <1>3, <3>3, <3>4, <3>6 DEF Guessed
    <2> QED BY <2>2, <2>3
  <1> QED BY <1>2, <1>3

LEMMA PairsFold ==
    ASSUME CohortTypeOK
    PROVE  \E g : /\ g \in [SUBSET Ids -> SUBSET Candidates]
                  /\ g[{}] = TwinPairs /\ g[Ids] = Pairs
                  /\ \A u \in SUBSET Ids : u # {} =>
                        /\ Max(u) \in u
                        /\ Guessed(g[u \ {Max(u)}], Max(u), g[u])
  <1> DEFINE A == SUBSET Candidates
             g == CHOOSE h : PairsEquation(h)
  <1>1. /\ Len(rows) \in Nat /\ Ids = 1..Len(rows)
        /\ DOMAIN InOrder = Ids /\ \A i \in Ids : InOrder[i] = i
    BY RowsOfIds DEF InOrder
  <1>2. InOrder \in Seq(Ids)
    <2>1. InOrder \in [1..Len(rows) -> Ids]
      BY <1>1 DEF InOrder
    <2> QED BY <1>1, <2>1, IsASeq
  <1>3. \A u \in SUBSET Ids : u # {} => Max(u) \in u
    BY <1>1, LastIsMax
  <1>4. TwinPairs \in A
    BY DEF TwinPairs, Candidates
  <1>5. GuessStep \in [A \X Ids -> A]
    <2>1. \A pairs \in A, a \in Ids : Guess(pairs, a) \in A
      BY AGuess
    <2> QED BY <2>1 DEF GuessStep
  <1>6. \A pairs \in A, a \in Ids : GuessStep[<<pairs, a>>] = Guess(pairs, a)
    BY DEF GuessStep
  <1> HIDE DEF A
  <1>7. PICK h : SeqFold(h, TwinPairs, GuessStep, InOrder, A)
    BY <1>2, <1>4, <1>5, SeqFoldExists
  <1>8. h \in [SUBSET Ids -> A]
    BY <1>1, <1>7 DEF SeqFold
  <1>9. ASSUME NEW u \in SUBSET Ids, u # {}
        PROVE  h[u] = Guess(h[u \ {Max(u)}], InOrder[Max(u)])
    <2>1. Max(u) \in Ids /\ h[u \ {Max(u)}] \in A /\ InOrder[Max(u)] = Max(u)
      BY <1>1, <1>3, <1>8, <1>9
    <2>2. h[u] = GuessStep[<<h[u \ {Max(u)}], InOrder[Max(u)]>>]
      BY <1>1, <1>7, <1>9 DEF SeqFold
    <2> QED BY <1>6, <2>1, <2>2
  <1>10. PairsEquation(h)
    <2>1. h[{}] = TwinPairs
      BY <1>1, <1>7 DEF SeqFold
    <2> QED BY <1>1, <1>8, <1>9, <2>1 DEF PairsEquation
  <1>11. PairsEquation(g)
    BY <1>10
  <1>12. Pairs = g[Ids]
    BY <1>1, PairsUnfold
  <1> HIDE DEF g
  <1> DEFINE Typed == {u \in SUBSET Ids : g[u] \in A}
  <1>13. /\ g = [u \in SUBSET Ids |->
                    IF u = {} THEN TwinPairs ELSE Guess(g[u \ {Max(u)}], InOrder[Max(u)])]
    BY <1>1, <1>11 DEF PairsEquation
  <1>14. ASSUME NEW u \in SUBSET Ids, u # {}
         PROVE  g[u] = Guess(g[u \ {Max(u)}], Max(u))
    BY <1>1, <1>3, <1>13, <1>14
  <1>15. g[{}] = TwinPairs
    BY <1>13
  <1>16. ASSUME NEW u \in SUBSET Ids, \A v \in SUBSET u : v # u => v \in Typed
         PROVE  u \in Typed
    <2>1. CASE u = {}
      BY <1>4, <1>15, <2>1
    <2>2. CASE u # {}
      <3>1. Max(u) \in u /\ g[u \ {Max(u)}] \in A
        BY <1>3, <1>16, <2>2
      <3>2. Max(u) \in Ids /\ g[u] = Guess(g[u \ {Max(u)}], Max(u))
        BY <1>14, <2>2, <3>1
      <3>3. g[u] \in A
        BY <3>1, <3>2, AGuess DEF A
      <3> QED BY <3>3
    <2> QED BY <2>1, <2>2
  <1>17. \A u \in SUBSET Ids : g[u] \in A
    <2>1. IsFiniteSet(Ids)
      BY <1>1, FS_Interval
    <2>2. SUBSET Ids \subseteq Typed
      <3> HIDE DEF Typed
      <3> QED BY ONLY <1>16, <2>1, SubsetInduction
    <2> QED BY <2>2
  <1>18. ASSUME NEW u \in SUBSET Ids, u # {}
         PROVE  Guessed(g[u \ {Max(u)}], Max(u), g[u])
    <2>1. Max(u) \in Ids /\ g[u \ {Max(u)}] \in A
      BY <1>3, <1>17, <1>18
    <2> QED BY <1>14, <1>18, <2>1, AGuess DEF A
  <1>19. g \in [SUBSET Ids -> A]
    BY <1>13, <1>17
  <1> QED BY <1>3, <1>12, <1>15, <1>18, <1>19 DEF A

-----------------------------------------------------------------------------
(* Whom is compared with whom. *)

Disjoint(pairs) ==
    \A p, q \in pairs : p # q => {p[1], p[2]} \cap {q[1], q[2]} = {}

\* What the pairs promise when the sessions of u have been seen.
Matched(u, pairs) ==
    /\ TwinPairs \subseteq pairs /\ Disjoint(pairs)
    /\ \A a \in (ScorableArm("llm") \cap u) \ PairedIn(pairs),
          b \in ScorableArm("baseline") \ PairedIn(pairs) : ~Alike(a, b)

\* Whoever is scored was started as what it is taken for.
LEMMA ScoredAsStarted ==
    ASSUME CohortInv, NEW arm, NEW i \in ScorableArm(arm)
    PROVE  i \in Ids /\ WellStarted(i) /\ rows[i].kind = arm /\ rows[i].started # None
  <1>1. i \in Ids /\ Classify(i) = arm /\ arm # "unknown" /\ rows[i].traded
    BY DEF ScorableArm, Scorable
  <1>2. WellStarted(i) /\ SoundRow(i)
    BY <1>1, RowsOfIds DEF CohortInv, StartInv
  <1>3. rows[i].kind = arm
    BY <1>1, <1>2 DEF Classify, WellStarted
  <1> QED BY <1>1, <1>2, <1>3 DEF SoundRow

LEMMA TwinsAreDisjoint ==
    ASSUME CohortInv
    PROVE  Disjoint(TwinPairs)
  <1> SUFFICES ASSUME NEW p \in TwinPairs, NEW q \in TwinPairs,
                      {p[1], p[2]} \cap {q[1], q[2]} # {}
               PROVE  p = q
    BY DEF Disjoint
  <1>1. /\ p = <<p[1], p[2]>> /\ p[1] \in ScorableArm("llm")
        /\ p[2] \in ScorableArm("baseline") /\ rows[p[1]].twin_of = p[2]
        /\ q = <<q[1], q[2]>> /\ q[1] \in ScorableArm("llm")
        /\ q[2] \in ScorableArm("baseline") /\ rows[q[1]].twin_of = q[2]
    BY DEF TwinPairs
  <1>2. /\ p[1] \in Nat /\ p[2] \in Nat /\ rows[p[1]].kind = "llm" /\ WellStarted(p[1])
        /\ q[1] \in Nat /\ q[2] \in Nat /\ rows[q[1]].kind = "llm" /\ WellStarted(q[1])
        /\ rows[p[2]].kind = "baseline" /\ rows[q[2]].kind = "baseline"
    BY <1>1, ScoredAsStarted, RowsOfIds DEF CohortInv
  <1>3. p[2] = p[1] + 1 /\ q[2] = q[1] + 1
    BY <1>1, <1>2, CohortAssumption DEF WellStarted
  <1>4. p[1] # q[2] /\ p[2] # q[1]
    BY <1>2
  <1>5. p[1] = q[1] /\ p[2] = q[2]
    BY <1>2, <1>3, <1>4
  <1> QED BY <1>1, <1>5

LEMMA OneMorePair ==
    ASSUME NEW pairs, NEW a, NEW b, NEW after, Joins(pairs, a, b, after)
    PROVE  \A x : x \in PairedIn(after) <=> x \in PairedIn(pairs) \/ x = a \/ x = b
  <1>1. \A x : x \in PairedIn(after) <=> \E p \in after : x \in {p[1], p[2]}
    BY DEF PairedIn
  <1>2. \A x : x \in PairedIn(pairs) <=> \E p \in pairs : x \in {p[1], p[2]}
    BY DEF PairedIn
  <1>3. \A x : x \in {<<a, b>>[1], <<a, b>>[2]} <=> x \in {a, b}
    OBVIOUS
  <1>4. ASSUME NEW x
        PROVE  x \in PairedIn(after) <=> x \in PairedIn(pairs) \/ x \in {a, b}
    <2>1. (\E p \in after : x \in {p[1], p[2]})
            <=> (\E p \in pairs : x \in {p[1], p[2]}) \/ x \in {<<a, b>>[1], <<a, b>>[2]}
      BY DEF Joins
    <2> QED BY <1>1, <1>2, <1>3, <2>1
  <1> QED BY <1>4

LEMMA AGuessMatches ==
    ASSUME CohortTypeOK, NEW u \in SUBSET Ids, NEW a \in u,
           NEW pairs \in SUBSET Candidates, Matched(u \ {a}, pairs),
           NEW after, Guessed(pairs, a, after)
    PROVE  Matched(u, after)
  <1>1. CASE after = pairs
    <2>1. ASSUME NEW c \in (ScorableArm("llm") \cap u) \ PairedIn(pairs),
                 NEW b \in ScorableArm("baseline") \ PairedIn(pairs)
          PROVE  ~Alike(c, b)
      <3>1. CASE c = a
        <4>1. a \in ScorableArm("llm") \ PairedIn(pairs)
          BY <3>1
        <4>2. ASSUME NEW d \in ScorableArm("baseline") \ PairedIn(pairs),
                     Joins(pairs, a, d, pairs)
              PROVE  FALSE
          <5>1. \A x : x \in PairedIn(pairs) <=> x \in PairedIn(pairs) \/ x = a \/ x = d
            BY <4>2, OneMorePair
          <5> QED BY <4>1, <5>1
        <4> QED BY <1>1, <3>1, <4>1, <4>2 DEF Guessed
      <3>2. CASE c # a
        BY <3>2 DEF Matched
      <3> QED BY <3>1, <3>2
    <2> QED BY <1>1, <2>1 DEF Matched
  <1>2. CASE after # pairs
    <2>1. /\ a \in ScorableArm("llm") \ PairedIn(pairs)
          /\ \E b \in ScorableArm("baseline") \ PairedIn(pairs) : Joins(pairs, a, b, after)
      BY <1>2 DEF Guessed
    <2>2. PICK b \in ScorableArm("baseline") \ PairedIn(pairs) : Joins(pairs, a, b, after)
      BY <2>1
    <2>3. \A x : x \in PairedIn(after) <=> x \in PairedIn(pairs) \/ x = a \/ x = b
      BY <2>2, OneMorePair
    <2>4. \A p \in pairs : p[1] \in PairedIn(pairs) /\ p[2] \in PairedIn(pairs)
      BY DEF PairedIn
    <2>5. \A p \in pairs : {p[1], p[2]} \cap {a, b} = {}
      BY <2>1, <2>4
    <2>6. Disjoint(after)
      <3> SUFFICES ASSUME NEW p \in after, NEW q \in after, p # q
                   PROVE  {p[1], p[2]} \cap {q[1], q[2]} = {}
        BY DEF Disjoint
      <3>1. CASE p \in pairs /\ q \in pairs
        BY <3>1 DEF Matched, Disjoint
      <3>2. CASE p \in pairs /\ q = <<a, b>>
        BY <2>5, <3>2
      <3>3. CASE q \in pairs /\ p = <<a, b>>
        BY <2>5, <3>3
      <3> QED BY <2>2, <3>1, <3>2, <3>3 DEF Joins
    <2>7. ASSUME NEW c \in (ScorableArm("llm") \cap u) \ PairedIn(after),
                 NEW d \in ScorableArm("baseline") \ PairedIn(after)
          PROVE  ~Alike(c, d)
      BY <2>3 DEF Matched
    <2>8. TwinPairs \subseteq after
      BY <2>2 DEF Matched, Joins
    <2> QED BY <2>6, <2>7, <2>8 DEF Matched
  <1> QED BY <1>1, <1>2

LEMMA PairsMatch ==
    ASSUME CohortInv
    PROVE  Matched(Ids, Pairs) /\ Pairs \in SUBSET Candidates
  <1>0. CohortTypeOK
    BY DEF CohortInv
  <1>1. PICK g : /\ g \in [SUBSET Ids -> SUBSET Candidates]
                 /\ g[{}] = TwinPairs /\ g[Ids] = Pairs
                 /\ \A u \in SUBSET Ids : u # {} =>
                       /\ Max(u) \in u
                       /\ Guessed(g[u \ {Max(u)}], Max(u), g[u])
    BY <1>0, PairsFold
  <1> DEFINE Good == {u \in SUBSET Ids : Matched(u, g[u])}
  <1>2. ASSUME NEW u \in SUBSET Ids, \A v \in SUBSET u : v # u => v \in Good
        PROVE  u \in Good
    <2>1. CASE u = {}
      BY <1>1, <2>1, TwinsAreDisjoint DEF Matched
    <2>2. CASE u # {}
      <3> DEFINE m == Max(u)
      <3>1. m \in u /\ Guessed(g[u \ {m}], m, g[u])
        BY <1>1, <2>2
      <3> HIDE DEF m
      <3>2. Matched(u \ {m}, g[u \ {m}]) /\ g[u \ {m}] \in SUBSET Candidates
        BY <1>1, <1>2, <3>1
      <3>3. Matched(u, g[u])
        BY <1>0, <3>1, <3>2, AGuessMatches
      <3> QED BY <3>3
    <2> QED BY <2>1, <2>2
  <1>3. SUBSET Ids \subseteq Good
    <2>1. IsFiniteSet(Ids)
      BY <1>0, RowsOfIds, FS_Interval
    <2> HIDE DEF Good
    <2> QED BY ONLY <1>2, <2>1, SubsetInduction
  <1>4. Ids \in SUBSET Ids
    OBVIOUS
  <1> QED BY <1>1, <1>3, <1>4

(* session_start writes the pointer back before it sets either arm running   *)
(* (api/main.py), and pair() takes the twins first (eval/cohort.py): two     *)
(* arms that were started together and can both be scored are compared with  *)
(* each other and with nothing else, whatever raised half way.              *)
THEOREM TwinsMeet == Spec => []TwinsAreCompared
  <1>1. ASSUME CohortInv
        PROVE  TwinsAreCompared
    <2> SUFFICES ASSUME NEW a \in ScorableArm("llm"), NEW b \in ScorableArm("baseline"),
                        rows[a].control = b
                 PROVE  {p \in Pairs : {a, b} \cap {p[1], p[2]} # {}} = {<<a, b>>}
      BY DEF TwinsAreCompared
    <2>1. /\ a \in Ids /\ WellStarted(a) /\ rows[a].kind = "llm" /\ rows[a].started # None
          /\ b \in Ids
      BY <1>1, ScoredAsStarted
    <2>2. b # 0
      BY <1>1, <2>1, RowsOfIds DEF CohortInv
    <2>3. rows[a].twin_of = b
      BY <2>1, <2>2 DEF WellStarted
    <2>4. <<a, b>> \in Pairs
      BY <1>1, <2>3, PairsMatch DEF TwinPairs, Matched
    <2>5. ASSUME NEW p \in Pairs, {a, b} \cap {p[1], p[2]} # {}
          PROVE  p = <<a, b>>
      BY <1>1, <2>4, <2>5, PairsMatch DEF Matched, Disjoint
    <2>6. {a, b} \cap {<<a, b>>[1], <<a, b>>[2]} # {}
      OBVIOUS
    <2> QED BY <2>4, <2>5, <2>6
  <1> QED BY <1>1, CohortInvInductive, PTL DEF Spec

(* pair() and classify() (eval/cohort.py): no session enters the comparison  *)
(* twice, none on the wrong side of it, and no two that were alike are both  *)
(* left over, with rows of before migration 007 among them.                 *)
THEOREM ComparisonsAreFair == Spec => []ComparisonIsFair
  <1>1. ASSUME CohortInv
        PROVE  ComparisonIsFair
    <2>1. Matched(Ids, Pairs) /\ Pairs \in SUBSET Candidates
      BY <1>1, PairsMatch
    <2>2. \A p, q \in Pairs : p # q => {p[1], p[2]} \cap {q[1], q[2]} = {}
      BY <2>1 DEF Matched, Disjoint
    <2>3. ASSUME NEW p \in Pairs
          PROVE  rows[p[1]].kind = "llm" /\ rows[p[2]].kind = "baseline"
      <3>1. p[1] \in ScorableArm("llm") /\ p[2] \in ScorableArm("baseline")
        BY <2>1 DEF Candidates
      <3> QED BY <1>1, <3>1, ScoredAsStarted
    <2>4. ASSUME NEW a \in ScorableArm("llm") \ PairedIn(Pairs),
                 NEW b \in ScorableArm("baseline") \ PairedIn(Pairs)
          PROVE  ~Alike(a, b)
      <3>1. a \in Ids
        BY DEF ScorableArm
      <3> QED BY <2>1, <3>1 DEF Matched
    <2> QED BY <2>2, <2>3, <2>4 DEF ComparisonIsFair
  <1> QED BY <1>1, CohortInvInductive, PTL DEF Spec
=============================================================================
