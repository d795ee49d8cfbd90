----------------------------- MODULE NewsProofs -----------------------------
(***************************************************************************)
(* What holds of the polling of filings for any list of forms, any page    *)
(* size, any number of filings and any failures and stops: its types, and  *)
(* what a filing can be lost to.                                           *)
(*                                                                         *)
(* A fetch accounts for every filing of its form that is out: it is on the *)
(* page, or no newer than the watermark, or it fell off the page, and then *)
(* the page is all newer than the watermark and a warning says so, unless  *)
(* the table was empty.  So a filing the watermark passes was accounted    *)
(* for by the fetch that brought the newer one, or that one is of another  *)
(* form.                                                                   *)
(***************************************************************************)
EXTENDS News, DataInduction, SequenceTheorems, TLAPS

\* What a poll holds is out, and what the last one covered was out before it began.
PollWithin ==
    Polling => /\ poll.got \subseteq DOMAIN filed /\ poll.missed \subseteq DOMAIN filed
               /\ covered <= poll.out /\ poll.out <= Len(filed)

NewsInv == NewsTypeOK /\ PollWithin

-----------------------------------------------------------------------------
(* The watermark. *)

LEMMA FiledIsTyped ==
    ASSUME NewsTypeOK
    PROVE  /\ Len(filed) \in 0..MaxFilings /\ DOMAIN filed = 1..Len(filed)
           /\ \A k \in DOMAIN filed :
                 /\ filed[k].form \in FormSet /\ filed[k].time \in 1..MaxTime
                 /\ filed[k].wanted \in BOOLEAN
  <1>1. filed \in Seq(FilingType) /\ Len(filed) <= MaxFilings
    BY DEF NewsTypeOK
  <1>2. Len(filed) \in Nat /\ DOMAIN filed = 1..Len(filed)
    BY <1>1, LenProperties
  <1>3. \A k \in DOMAIN filed : filed[k] \in FilingType
    BY <1>1, <1>2, ElementOfSeq
  <1> QED BY <1>1, <1>2, <1>3, NewsAssumption DEF FilingType

(* The newest of a set of seconds, 0 of none.                              *)
LEMMA NewestOf ==
    ASSUME NEW T \in SUBSET (1..MaxTime)
    PROVE  LET w == IF T = {} THEN 0 ELSE Max(T)
           IN  w \in 0..MaxTime /\ (\A t \in T : t <= w) /\ (w > 0 => w \in T)
  <1>1. CASE T = {}
    BY <1>1, NewsAssumption
  <1>2. CASE T # {}
    <2>1. T \in SUBSET Nat /\ MaxTime \in Nat /\ \A x \in T : x <= MaxTime
      BY NewsAssumption
    <2>2. Max(T) \in T /\ \A y \in T : y <= Max(T)
      BY <1>2, <2>1, MaxIsGreatest
    <2>3. \A x \in T : x \in 0..MaxTime
      BY <2>1
    <2>4. Max(T) \in 0..MaxTime
      BY ONLY <2>2, <2>3
    <2> QED BY ONLY <1>2, <2>2, <2>4
  <1> QED BY <1>1, <1>2

(* latest_published_ms(): the newest second stored, 0 if nothing is.       *)
LEMMA WatermarkIsNewest ==
    ASSUME NewsTypeOK
    PROVE  /\ Watermark \in 0..MaxTime
           /\ \A j \in stored : filed[j].time <= Watermark
           /\ Watermark > 0 => \E j \in stored : filed[j].time = Watermark
  <1> DEFINE T == {filed[k].time : k \in stored}
  <1>1. T \in SUBSET (1..MaxTime)
    BY FiledIsTyped DEF NewsTypeOK
  <1>2. Watermark = IF T = {} THEN 0 ELSE Max(T)
    BY DEF Watermark
  <1>3. Watermark \in 0..MaxTime /\ (\A t \in T : t <= Watermark) /\ (Watermark > 0 => Watermark \in T)
    <2> HIDE DEF T
    <2> QED BY <1>1, <1>2, NewestOf
  <1> QED BY <1>3

(* What is published later leaves every earlier filing where it was.       *)
LEMMA PublishAppends ==
    ASSUME NewsTypeOK, Publish
    PROVE  /\ filed' \in Seq(FilingType) /\ Len(filed') = Len(filed) + 1
           /\ Len(filed') <= MaxFilings
           /\ \A k \in DOMAIN filed : k \in DOMAIN filed' /\ filed'[k] = filed[k]
           /\ filed'[Len(filed')].time = now
           /\ Watermark' = Watermark
  <1>1. PICK form \in FormSet, wanted \in BOOLEAN :
            filed' = Append(filed, [form |-> form, time |-> now, wanted |-> wanted])
    BY DEF Publish
  <1> DEFINE f == [form |-> form, time |-> now, wanted |-> wanted]
  <1>2. f \in FilingType
    BY DEF FilingType, NewsTypeOK
  <1>3. filed \in Seq(FilingType) /\ Len(filed) \in Nat
    BY LenProperties DEF NewsTypeOK
  <1>4. /\ filed' \in Seq(FilingType) /\ Len(filed') = Len(filed) + 1
        /\ \A k \in 1..Len(filed) : filed'[k] = filed[k]
        /\ filed'[Len(filed) + 1] = f
    <2> HIDE DEF f
    <2> QED BY <1>1, <1>2, <1>3, AppendProperties DEF f
  <1>5. DOMAIN filed = 1..Len(filed) /\ DOMAIN filed' = 1..Len(filed')
    BY <1>3, <1>4, LenProperties
  <1>6. stored' = stored /\ \A k \in stored : filed'[k].time = filed[k].time
    BY <1>3, <1>4, <1>5 DEF Publish, NewsTypeOK, tableVars
  <1>7. {filed'[k].time : k \in stored'} = {filed[k].time : k \in stored}
    BY <1>6
  <1>8. Watermark' = Watermark
    BY <1>6, <1>7 DEF Watermark
  <1>9. Len(filed') <= MaxFilings
    BY <1>3, <1>4, NewsAssumption DEF Publish
  <1> QED BY <1>3, <1>4, <1>5, <1>8, <1>9

-----------------------------------------------------------------------------
(* Types. *)

LEMMA NewsInitInv == Init => NewsInv
  <1> SUFFICES ASSUME Init PROVE NewsInv
    OBVIOUS
  <1>1. filed \in Seq(FilingType) /\ Len(filed) = 0
    BY EmptySeq DEF Init
  <1>2. /\ now \in 1..MaxTime /\ Len(filed) <= MaxFilings
        /\ failures \in 0..MaxFailures /\ stops \in 0..MaxStops
    BY <1>1, NewsAssumption DEF Init
  <1>3. /\ covered \in 0..Len(filed) /\ stored \subseteq DOMAIN filed
        /\ reported \subseteq DOMAIN filed /\ opening \subseteq DOMAIN filed
        /\ away \subseteq DOMAIN filed /\ up \in BOOLEAN /\ poll = NoPoll
    BY <1>1 DEF Init
  <1> QED BY <1>1, <1>2, <1>3 DEF NewsInv, NewsTypeOK, PollWithin, Polling

LEMMA NewsInvStep ==
    ASSUME NewsInv, [Next]_vars
    PROVE  NewsInv'
  <1> USE NewsAssumption DEF NewsInv, edgarVars, tableVars, engineVars
  <1>1. Len(filed) \in 0..MaxFilings /\ DOMAIN filed = 1..Len(filed)
    BY FiledIsTyped
  <1>2. Watermark \in 0..MaxTime
    BY WatermarkIsNewest
  <1>3. Len(Forms) \in Nat
    BY LenProperties
  <1>4. CASE PollBegin
    <2>1. poll' \in PollType /\ poll'.got = {} /\ poll'.missed = {} /\ poll'.out = Len(filed)
      BY <1>1, <1>2, <1>3, <1>4 DEF PollBegin, NewPoll, PollType
    <2> QED BY <2>1, <1>1, <1>4 DEF PollBegin, NewsTypeOK, PollWithin, Polling
  <1>5. CASE FetchPage
    <2> DEFINE form == Forms[poll.next]
               new  == Parsed(form, poll.since)
               off  == Missed(form, poll.since)
    <2>1. /\ new \subseteq DOMAIN filed /\ \A k \in new : filed[k].time > poll.since
          /\ off \subseteq DOMAIN filed /\ Fallen(form) \subseteq DOMAIN filed
      BY DEF Parsed, Page, OfForm, Fallen, Missed
    <2>2. opening' \subseteq DOMAIN filed
      BY <1>5, <2>1 DEF FetchPage, NewsTypeOK
    <2>3. poll \in PollType /\ poll.next <= Len(Forms) /\ poll # NoPoll /\ up
      BY <1>5 DEF FetchPage, Fetching, Polling, NewsTypeOK
    <2>4. poll' = [poll EXCEPT !.next = @ + 1, !.got = @ \cup new, !.missed = @ \cup off]
      BY <1>5 DEF FetchPage
    <2>5. UNCHANGED <<filed, now, away, stored, covered, reported, failures, up, stops>>
      BY <1>5 DEF FetchPage
    <2> HIDE DEF form, new, off
    <2>6. poll' \in PollType /\ poll'.got = poll.got \cup new
          /\ poll'.missed = poll.missed \cup off
          /\ poll'.since = poll.since /\ poll'.out = poll.out
      <3>1. /\ poll.next + 1 \in 1..Len(Forms) + 1
            /\ poll.got \cup new \in SUBSET (1..MaxFilings)
            /\ poll.missed \cup off \in SUBSET (1..MaxFilings)
        BY <1>1, <1>3, <2>1, <2>3 DEF PollType
      <3> QED BY ONLY <2>3, <2>4, <3>1 DEF PollType
    <2> QED BY <2>1, <2>2, <2>3, <2>5, <2>6 DEF NewsTypeOK, PollWithin, Polling
  <1>6. CASE FetchFails
    <2>1. poll \in PollType /\ poll.next <= Len(Forms) /\ poll # NoPoll
      BY <1>6 DEF FetchFails, Fetching, Polling, NewsTypeOK
    <2>2. poll' \in PollType /\ poll'.got = poll.got /\ poll'.missed = poll.missed
          /\ poll'.since = poll.since /\ poll'.out = poll.out
      <3>1. poll' = [poll EXCEPT !.next = @ + 1, !.complete = FALSE]
        BY <1>6 DEF FetchFails
      <3>2. poll.next + 1 \in 1..Len(Forms) + 1
        BY <1>3, <2>1 DEF PollType
      <3> QED BY ONLY <2>1, <3>1, <3>2 DEF PollType
    <2> QED BY <1>6, <2>1, <2>2 DEF FetchFails, NewsTypeOK, PollWithin, Polling
  <1>7. CASE PollCommits
    <2>1. poll \in PollType /\ poll # NoPoll
      BY <1>7 DEF PollCommits, Polling, NewsTypeOK
    <2>2. covered' \in 0..Len(filed)
      BY <1>1, <1>7, <2>1 DEF PollCommits, PollType, NewsTypeOK, PollWithin, Polling
    <2> QED BY <1>7, <2>1, <2>2 DEF PollCommits, NewsTypeOK, PollWithin, Polling
  <1>8. CASE PollLost \/ Stop \/ Restart
    <2>1. UNCHANGED <<filed, now, away, stored, covered, reported, opening, failures>>
      BY <1>8 DEF PollLost, Stop, Restart
    <2>2. poll' = NoPoll /\ up' \in BOOLEAN
      BY <1>8 DEF PollLost, Stop, Restart, NewsTypeOK
    <2>3. stops' \in 0..MaxStops
      BY <1>8 DEF PollLost, Stop, Restart, NewsTypeOK
    <2> QED BY <2>1, <2>2, <2>3 DEF NewsTypeOK, PollWithin, Polling
  <1>9. CASE Publish
    <2>1. /\ filed' \in Seq(FilingType) /\ Len(filed') = Len(filed) + 1
          /\ Len(filed') <= MaxFilings
          /\ \A k \in DOMAIN filed : k \in DOMAIN filed' /\ filed'[k] = filed[k]
      BY <1>9, PublishAppends
    <2>2. UNCHANGED <<now, stored, covered, reported, poll, opening, failures, up, stops>>
      BY <1>9 DEF Publish
    <2>3. away' \subseteq DOMAIN filed'
      <3>1. Len(filed') \in DOMAIN filed'
        BY <1>1, <2>1, LenProperties
      <3> QED BY <1>9, <2>1, <3>1 DEF Publish, NewsTypeOK
    <2> QED BY <1>1, <2>1, <2>2, <2>3 DEF NewsTypeOK, PollWithin, Polling, PollType
  <1>10. CASE Second
    BY <1>10 DEF Second, NewsTypeOK, PollWithin, Polling
  <1>11. CASE UNCHANGED vars
    BY <1>11 DEF vars, NewsTypeOK, PollWithin, Polling
  <1> QED BY <1>4, <1>5, <1>6, <1>7, <1>8, <1>9, <1>10, <1>11 DEF Next

(* The poller's state is well typed whatever is published, fails, commits   *)
(* or is lost, and for any list of forms; a poll holds only filings that    *)
(* are out and newer than the watermark it began from.                      *)
THEOREM NewsTypeCorrect == Spec => []NewsTypeOK
  <1>1. NewsInv => NewsTypeOK
    BY DEF NewsInv
  <1> QED BY <1>1, NewsInitInv, NewsInvStep, PTL DEF Spec

-----------------------------------------------------------------------------
(* What a filing is lost to. *)

\* EDGAR stamps what it publishes, and its clock does not run backwards.
InOrder ==
    \A j, k \in DOMAIN filed :
        filed[j].time <= now /\ (j < k => filed[j].time <= filed[k].time)

\* Every poll begins from the watermark, and nothing else stores filings.
FromWatermark == Polling => poll.since = Watermark

\* What a fetch has made of a filing of its form.
Seen(k) ==
    \/ k \in poll.got \/ k \in poll.missed \/ k \in opening
    \/ filed[k].time <= poll.since

\* A poll accounts for all of its forms so far that was out before it, unless a
\* fetch failed, and for all of a form that is older than what it holds of it.
FetchSaw ==
    Polling =>
        /\ poll.complete =>
              \A i \in 1..(poll.next - 1) : \A k \in 1..poll.out :
                 filed[k].form = Forms[i] /\ filed[k].wanted => Seen(k)
        /\ \A j \in poll.got : \A k \in 1..j :
              filed[k].form = filed[j].form /\ filed[k].wanted => Seen(k)

Explained(k) == k \in reported \cup opening \/ Passed(k)

LossInv == NewsInv /\ InOrder /\ FromWatermark /\ FetchSaw /\ LostIsWarned

(* The page of a form is its newest filings: it is not empty once anything  *)
(* is out, and what is off it is older than all that is on it.              *)
LEMMA PageIsNewest ==
    ASSUME NewsTypeOK, NEW form
    PROVE  /\ Page(form) \subseteq OfForm(form) /\ OfForm(form) \subseteq DOMAIN filed
           /\ OfForm(form) # {} => Page(form) # {}
           /\ \A j \in Page(form), k \in Fallen(form) : k < j
  <1> DEFINE Later(k) == {i \in OfForm(form) : i > k}
  <1>1. Len(filed) \in Nat /\ DOMAIN filed = 1..Len(filed)
    BY FiledIsTyped
  <1>2. OfForm(form) \subseteq 1..Len(filed)
    BY <1>1 DEF OfForm
  <1>3. Page(form) = {k \in OfForm(form) : Cardinality(Later(k)) < PageSize}
    BY DEF Page
  <1>4. \A k \in OfForm(form) : IsFiniteSet(Later(k)) /\ Cardinality(Later(k)) \in Nat
    <2> TAKE k \in OfForm(form)
    <2>1. IsFiniteSet(1..Len(filed))
      BY <1>1, FS_Interval
    <2>2. Later(k) \in SUBSET (1..Len(filed))
      BY <1>2
    <2> HIDE DEF Later
    <2>3. IsFiniteSet(Later(k))
      BY <2>1, <2>2, FS_Subset
    <2> QED BY <2>3, FS_CardinalityType
  <1>5. ASSUME OfForm(form) # {}
        PROVE  Page(form) # {}
    <2> DEFINE S == OfForm(form)
    <2>1. S \in SUBSET Nat /\ S # {} /\ \A x \in S : x <= Len(filed)
      BY <1>1, <1>2, <1>5
    <2>2. Max(S) \in S /\ \A y \in S : y <= Max(S)
      <3> HIDE DEF S
      <3> QED BY <1>1, <2>1, MaxIsGreatest
    <2>3. PICK m \in OfForm(form) : \A y \in OfForm(form) : y <= m
      BY <2>2
    <2>4. Later(m) = {}
      BY <1>1, <1>2, <2>3
    <2>5. Cardinality(Later(m)) < PageSize
      <3> HIDE DEF Later
      <3>1. Cardinality(Later(m)) = 0
        BY <2>4, FS_EmptySet
      <3> QED BY <3>1, NewsAssumption
    <2>6. m \in Page(form)
      <3> HIDE DEF Later
      <3> QED BY <1>3, <2>3, <2>5
    <2> QED BY <2>6
  <1>6. ASSUME NEW j \in Page(form), NEW k \in OfForm(form), ~(k < j)
        PROVE  k \in Page(form)
    <2>1. j \in OfForm(form)
      BY <1>3
    <2>2. Later(k) \in SUBSET Later(j)
      BY <1>1, <1>2, <1>6, <2>1
    <2>3. Cardinality(Later(k)) <= Cardinality(Later(j))
      <3> HIDE DEF Later
      <3> QED BY <1>4, <2>1, <2>2, FS_Subset
    <2>4. Cardinality(Later(k)) < PageSize
      <3> HIDE DEF Later
      <3> QED BY <1>3, <1>4, <2>1, <2>3, NewsAssumption
    <2> QED BY <1>3, <2>4
  <1> HIDE DEF Later
  <1> QED BY <1>1, <1>2, <1>3, <1>5, <1>6 DEF Fallen

(* A fetch accounts for every filing of its form that is out.               *)
LEMMA FetchSeesForm ==
    ASSUME NewsInv, InOrder, FetchPage,
           NEW k \in DOMAIN filed, filed[k].form = Forms[poll.next], filed[k].wanted
    PROVE  \/ k \in Parsed(Forms[poll.next], poll.since)
           \/ k \in Missed(Forms[poll.next], poll.since)
           \/ k \in opening'
           \/ filed[k].time <= poll.since
  <1> DEFINE form == Forms[poll.next]
             page == Page(form)
  <1>1. k \in OfForm(form)
    BY DEF OfForm
  <1>2. poll.since \in 0..MaxTime
    BY DEF NewsInv, NewsTypeOK, FetchPage, Fetching, Polling, PollType
  <1>3. /\ page \subseteq DOMAIN filed /\ page # {}
        /\ \A j \in page, i \in Fallen(form) : i < j
    BY <1>1, PageIsNewest DEF NewsInv
  <1>4. \A j \in DOMAIN filed : filed[j].time \in 1..MaxTime
    BY FiledIsTyped DEF NewsInv
  <1> SUFFICES ASSUME filed[k].time > poll.since
               PROVE  k \in Parsed(form, poll.since) \/ k \in Missed(form, poll.since)
                      \/ k \in opening'
    BY <1>2, <1>4, NewsAssumption
  <1>5. CASE k \in page
    BY <1>5 DEF Parsed
  <1>6. CASE k \notin page /\ poll.since = 0
    BY <1>1, <1>6 DEF FetchPage, Fallen
  <1>7. CASE k \notin page /\ poll.since > 0
    <2> DEFINE Times == {filed[j].time : j \in page}
    <2>1. k \in Fallen(form)
      BY <1>1, <1>7 DEF Fallen
    <2>2. \A x \in Times : x \in Nat /\ x > poll.since
      <3> SUFFICES ASSUME NEW j \in page
                   PROVE  filed[j].time \in Nat /\ filed[j].time > poll.since
        OBVIOUS
      <3>1. k < j /\ j \in DOMAIN filed
        BY <1>3, <2>1
      <3>2. filed[k].time <= filed[j].time
        BY <3>1 DEF InOrder
      <3> QED BY <1>2, <1>4, <3>1, <3>2, NewsAssumption
    <2>3. Times \in SUBSET Nat /\ Times # {}
      BY <1>3, <2>2
    <2>4. Min(Times) > poll.since
      <3> HIDE DEF Times
      <3> QED BY <2>2, <2>3, MinIsLeast
    <2>5. Saturated(form, poll.since)
      BY <1>3, <1>7, <2>4 DEF Saturated
    <2> HIDE DEF form
    <2> QED BY <2>1, <2>5 DEF Missed
  <1> QED BY <1>2, <1>5, <1>6, <1>7, NewsAssumption

(* It leaves the poll accounting for one form more.                         *)
LEMMA FetchKeepsAccount ==
    ASSUME NewsInv, InOrder, FetchSaw, FetchPage
    PROVE  FetchSaw'
  <1> DEFINE form == Forms[poll.next]
             new  == Parsed(form, poll.since)
             off  == Missed(form, poll.since)
  <1>1. poll \in PollType /\ Polling /\ poll.next \in 1..Len(Forms) /\ Len(Forms) \in Nat
    BY LenProperties, NewsAssumption
    DEF NewsInv, NewsTypeOK, FetchPage, Fetching, Polling, PollType
  <1>2. poll' = [poll EXCEPT !.next = @ + 1, !.got = @ \cup new, !.missed = @ \cup off]
    BY DEF FetchPage
  <1>3. /\ poll'.next = poll.next + 1 /\ poll'.got = poll.got \cup new
        /\ poll'.missed = poll.missed \cup off /\ poll'.since = poll.since
        /\ poll'.complete = poll.complete /\ poll'.out = poll.out
    <2> HIDE DEF new, off
    <2> QED BY <1>1, <1>2 DEF PollType
  <1>4. /\ DOMAIN filed = 1..Len(filed) /\ Len(filed) \in Nat
        /\ poll.got \subseteq DOMAIN filed /\ poll.out \in Nat /\ poll.out <= Len(filed)
    BY <1>1, FiledIsTyped, NewsAssumption DEF NewsInv, PollWithin, PollType
  <1>5. filed' = filed /\ opening \subseteq opening'
    BY DEF FetchPage, edgarVars
  <1>6. ASSUME NEW k \in DOMAIN filed, Seen(k)
        PROVE  Seen(k)'
    BY <1>3, <1>5, <1>6 DEF Seen
  <1>7. ASSUME NEW k \in DOMAIN filed, filed[k].form = form, filed[k].wanted
        PROVE  Seen(k)'
    <2>1. k \in new \/ k \in off \/ k \in opening' \/ filed[k].time <= poll.since
      BY <1>7, FetchSeesForm
    <2> HIDE DEF new, off
    <2> QED BY <2>1, <1>3, <1>5 DEF Seen
  <1>8. ASSUME poll.complete, NEW i \in 1..poll.next, NEW k \in 1..poll.out,
               filed[k].form = Forms[i], filed[k].wanted
        PROVE  Seen(k)'
    <2>1. k \in DOMAIN filed
      BY <1>4
    <2>2. CASE i = poll.next
      BY <1>7, <1>8, <2>1, <2>2
    <2>3. CASE i \in 1..(poll.next - 1)
      <3>1. Seen(k)
        BY <1>1, <1>8, <2>3 DEF FetchSaw
      <3> QED BY <1>6, <2>1, <3>1
    <2> QED BY <1>1, <2>2, <2>3
  <1>9. ASSUME NEW j \in poll.got \cup new, NEW k \in 1..j,
               filed[k].form = filed[j].form, filed[k].wanted
        PROVE  Seen(k)'
    <2>1. new \subseteq DOMAIN filed /\ \A n \in new : filed[n].form = form
      BY DEF Parsed, Page, OfForm
    <2>2. k \in DOMAIN filed
      BY <1>4, <2>1
    <2>3. CASE j \in poll.got
      <3>1. Seen(k)
        BY <1>1, <1>9, <2>3 DEF FetchSaw
      <3> QED BY <1>6, <2>2, <3>1
    <2>4. CASE j \in new
      BY <1>7, <1>9, <2>1, <2>2, <2>4
    <2> QED BY <2>3, <2>4
  <1>10. 1..(poll'.next - 1) = 1..poll.next
    BY <1>1, <1>3
  <1> HIDE DEF form, new, off
  <1> QED BY <1>3, <1>5, <1>8, <1>9, <1>10 DEF FetchSaw

(* The commit of a poll leaves nothing unexplained behind.                  *)
LEMMA CommitExplains ==
    ASSUME LossInv, PollCommits
    PROVE  LostIsWarned'
  <1> USE DEF LossInv, NewsInv
  <1>1. /\ Polling /\ ~Fetching
        /\ stored' = stored \cup poll.got /\ reported' = reported \cup poll.missed
        /\ covered' = IF poll.complete THEN poll.out ELSE covered
        /\ filed' = filed /\ opening' = opening
    BY DEF PollCommits, edgarVars
  <1>2. poll \in PollType /\ poll.since = Watermark
    BY <1>1 DEF NewsTypeOK, Polling, FromWatermark
  <1>3. /\ DOMAIN filed = 1..Len(filed) /\ Len(filed) \in Nat
        /\ poll.got \subseteq DOMAIN filed /\ stored \subseteq DOMAIN filed
        /\ \A k \in DOMAIN filed : filed[k].time \in 1..MaxTime
        /\ \A k \in DOMAIN filed : filed[k].form \in FormSet
    BY <1>1, <1>2, FiledIsTyped DEF NewsTypeOK, PollWithin
  <1>4. /\ Watermark \in 0..MaxTime /\ Watermark' \in 0..MaxTime
        /\ Watermark' > 0 => \E j \in stored' : filed[j].time = Watermark'
        /\ \A j \in stored : filed[j].time <= Watermark
    <2> DEFINE T == {filed[j].time : j \in stored'}
    <2>1. T \in SUBSET (1..MaxTime)
      BY <1>1, <1>3
    <2>2. Watermark' = IF T = {} THEN 0 ELSE Max(T)
      BY <1>1 DEF Watermark
    <2>3. Watermark' \in 0..MaxTime /\ (Watermark' > 0 => Watermark' \in T)
      <3> HIDE DEF T
      <3> QED BY <2>1, <2>2, NewestOf
    <2> QED BY <2>3, WatermarkIsNewest
  <1> SUFFICES ASSUME NEW k \in DOMAIN filed, Lost(k)'
               PROVE  Explained(k)'
    BY <1>1 DEF LostIsWarned, Explained
  <1>5. /\ filed[k].wanted /\ k \notin stored /\ k \notin poll.got
        /\ k <= covered' \/ filed[k].time <= Watermark'
    BY <1>1 DEF Lost
  <1>6. ASSUME Explained(k)
        PROVE  Explained(k)'
    BY <1>1, <1>6 DEF Explained, Passed, SameSecond
  <1>7. ASSUME k <= covered \/ filed[k].time <= Watermark
        PROVE  Explained(k)'
    <2>1. Lost(k)
      BY <1>5, <1>7 DEF Lost
    <2>2. Explained(k)
      BY <2>1 DEF LostIsWarned, Explained
    <2> QED BY <1>6, <2>2
  <1>8. ASSUME Seen(k)
        PROVE  Explained(k)'
    <2>1. CASE filed[k].time <= poll.since
      BY <1>2, <1>7, <2>1
    <2>2. CASE k \in poll.missed \/ k \in opening
      BY <1>1, <2>2 DEF Explained
    <2> QED BY <1>5, <1>8, <2>1, <2>2 DEF Seen
  <1>9. CASE k <= covered' /\ poll.complete
    <2>1. k \in 1..poll.out
      BY <1>1, <1>2, <1>3, <1>9, NewsAssumption DEF PollType
    <2>2. PICK i \in 1..Len(Forms) : filed[k].form = Forms[i]
      BY <1>3 DEF FormSet
    <2>3. i \in 1..(poll.next - 1)
      BY <1>1, <1>2, LenProperties, NewsAssumption DEF Fetching, PollType
    <2>4. Seen(k)
      BY <1>1, <1>5, <1>9, <2>1, <2>2, <2>3 DEF FetchSaw
    <2> QED BY <1>8, <2>4
  <1>10. CASE filed[k].time <= Watermark' /\ ~(filed[k].time <= Watermark)
    <2>1. PICK j \in stored' : filed[j].time = Watermark'
      BY <1>3, <1>4, <1>10, NewsAssumption
    <2>2. j \in poll.got /\ j \in DOMAIN filed /\ filed[k].time <= filed[j].time
      BY <1>1, <1>3, <1>4, <1>10, <2>1
    <2>3. CASE filed[j].form # filed[k].form \/ filed[j].time = filed[k].time
      <3>1. filed[j].time = filed[k].time \/ filed[j].time > filed[k].time
        BY <1>3, <2>2, NewsAssumption
      <3>2. Passed(k)'
        BY <1>1, <2>1, <2>3, <3>1 DEF Passed, SameSecond
      <3> QED BY <3>2 DEF Explained
    <2>4. CASE filed[j].form = filed[k].form /\ filed[j].time # filed[k].time
      <3>1. k < j
        BY <1>3, <2>2, <2>4, NewsAssumption DEF InOrder
      <3>2. k \in 1..j
        BY <1>3, <2>2, <3>1
      <3>3. Seen(k)
        BY <1>1, <1>5, <2>2, <2>4, <3>2 DEF FetchSaw
      <3> QED BY <1>8, <3>3
    <2> QED BY <2>3, <2>4
  <1>11. CASE k <= covered' /\ ~poll.complete
    BY <1>1, <1>7, <1>11
  <1> QED BY <1>5, <1>7, <1>9, <1>10, <1>11

LEMMA LossInit == Init => LossInv
  <1> SUFFICES ASSUME Init PROVE LossInv
    OBVIOUS
  <1>1. NewsInv /\ DOMAIN filed = {} /\ ~Polling
    BY NewsInitInv DEF Init, Polling
  <1> QED BY <1>1 DEF LossInv, InOrder, FromWatermark, FetchSaw, LostIsWarned

LEMMA LossStep ==
    ASSUME LossInv, [Next]_vars
    PROVE  LossInv'
  <1> USE DEF LossInv, edgarVars, tableVars, engineVars
  <1>0. NewsInv'
    BY NewsInvStep
  <1>1. /\ Len(filed) \in 0..MaxFilings /\ DOMAIN filed = 1..Len(filed)
        /\ \A k \in DOMAIN filed : filed[k].time \in 1..MaxTime
        /\ stored \subseteq DOMAIN filed /\ now \in 1..MaxTime
    BY FiledIsTyped DEF NewsInv, NewsTypeOK
  <1>2. ASSUME UNCHANGED <<filed, stored>>
        PROVE  /\ Watermark' = Watermark
               /\ \A k : Passed(k)' = Passed(k)
    BY <1>2 DEF Watermark, Passed, SameSecond
  <1>3. ASSUME UNCHANGED <<filed, stored, covered, reported>>, opening \subseteq opening'
        PROVE  LostIsWarned'
    BY <1>2, <1>3 DEF LostIsWarned, Lost
  <1>4. CASE PollBegin
    <2>1. /\ poll' = NewPoll(Watermark)
          /\ UNCHANGED <<filed, now, stored, covered, reported, opening>>
      BY <1>4 DEF PollBegin
    <2>2. /\ poll'.since = Watermark /\ poll'.got = {} /\ poll'.next = 1
      BY <2>1 DEF NewPoll
    <2>3. FromWatermark' /\ FetchSaw'
      BY <2>1, <2>2, <1>2 DEF FromWatermark, FetchSaw
    <2>4. InOrder' /\ LostIsWarned'
      BY <1>3, <2>1 DEF InOrder
    <2> QED BY <1>0, <2>3, <2>4
  <1>5. CASE FetchPage
    <2>1. UNCHANGED <<filed, now, stored, covered, reported>> /\ opening \subseteq opening'
      BY <1>5 DEF FetchPage
    <2>2. poll'.since = poll.since /\ Polling
      BY <1>5 DEF FetchPage, Fetching, Polling, NewsInv, NewsTypeOK, PollType
    <2>3. FetchSaw'
      BY <1>5, FetchKeepsAccount
    <2>4. FromWatermark'
      BY <2>1, <2>2, <1>2 DEF FromWatermark
    <2>5. InOrder' /\ LostIsWarned'
      BY <1>3, <2>1 DEF InOrder
    <2> QED BY <1>0, <2>3, <2>4, <2>5
  <1>6. CASE FetchFails
    <2>1. UNCHANGED <<filed, now, stored, covered, reported, opening>>
      BY <1>6 DEF FetchFails
    <2>2. /\ Polling /\ poll \in PollType
          /\ poll' = [poll EXCEPT !.next = @ + 1, !.complete = FALSE]
      BY <1>6 DEF FetchFails, Fetching, Polling, NewsInv, NewsTypeOK
    <2>3. /\ poll'.since = poll.since /\ poll'.got = poll.got
          /\ poll'.missed = poll.missed /\ ~poll'.complete
      BY <2>2 DEF PollType
    <2>4. FetchSaw'
      BY <2>1, <2>2, <2>3 DEF FetchSaw, Seen
    <2>5. FromWatermark'
      BY <2>1, <2>2, <2>3, <1>2 DEF FromWatermark
    <2>6. InOrder' /\ LostIsWarned'
      BY <1>3, <2>1 DEF InOrder
    <2> QED BY <1>0, <2>4, <2>5, <2>6
  <1>7. CASE PollCommits
    <2>1. LostIsWarned'
      BY <1>7, CommitExplains
    <2>2. ~Polling' /\ UNCHANGED <<filed, now>>
      BY <1>7 DEF PollCommits, Polling
    <2> QED BY <1>0, <2>1, <2>2 DEF InOrder, FromWatermark, FetchSaw
  <1>8. CASE PollLost \/ Stop \/ Restart
    <2>1. ~Polling' /\ UNCHANGED <<filed, now, stored, covered, reported, opening>>
      BY <1>8 DEF PollLost, Stop, Restart, Polling, NewsInv, NewsTypeOK
    <2>2. LostIsWarned'
      BY <1>3, <2>1
    <2> QED BY <1>0, <2>1, <2>2 DEF InOrder, FromWatermark, FetchSaw
  <1>9. CASE Publish
    <2>1. /\ Len(filed') = Len(filed) + 1
          /\ \A k \in DOMAIN filed : k \in DOMAIN filed' /\ filed'[k] = filed[k]
          /\ filed'[Len(filed')].time = now
          /\ Watermark' = Watermark
      BY <1>9, PublishAppends DEF NewsInv
    <2>2. UNCHANGED <<now, stored, covered, reported, poll, opening>>
      BY <1>9 DEF Publish
    <2>3. DOMAIN filed' = 1..Len(filed')
      BY <1>9, PublishAppends, LenProperties DEF NewsInv
    <2>4. \A k \in DOMAIN filed' : k \in DOMAIN filed \/ k = Len(filed')
      BY <1>1, <2>1, <2>3
    <2>5. InOrder'
      BY <1>1, <2>1, <2>2, <2>3, <2>4 DEF InOrder
    <2>6. FromWatermark' /\ \A k \in DOMAIN filed : Passed(k)' = Passed(k)
      BY <1>1, <2>1, <2>2 DEF FromWatermark, Polling, Passed, SameSecond
    <2>7. FetchSaw'
      <3>1. Polling => /\ poll.got \subseteq DOMAIN filed
                       /\ poll.out <= Len(filed) /\ poll.out \in Nat
        BY NewsAssumption DEF NewsInv, NewsTypeOK, PollWithin, PollType, Polling
      <3>2. \A k \in DOMAIN filed : Seen(k)' = Seen(k) /\ filed'[k] = filed[k]
        BY <2>1, <2>2 DEF Seen
      <3>3. Polling' = Polling
        BY <2>2 DEF Polling
      <3> QED BY <1>1, <2>2, <3>1, <3>2, <3>3 DEF FetchSaw
    <2>8. LostIsWarned'
      <3>1. ASSUME NEW k, k = Len(filed'), Lost(k)'
            PROVE  Passed(k)'
        <4>1. k \notin 0..covered /\ covered \in 0..Len(filed) /\ k \in Nat
          BY <1>1, <2>1, <3>1 DEF NewsInv, NewsTypeOK
        <4>2. now <= Watermark /\ Watermark \in 0..MaxTime
          BY <2>1, <2>2, <3>1, <4>1, WatermarkIsNewest DEF Lost, NewsInv
        <4>3. PICK j \in stored : filed[j].time = Watermark
          BY <1>1, <4>2, WatermarkIsNewest, NewsAssumption DEF NewsInv
        <4>4. filed[j].time = now
          BY <1>1, <4>2, <4>3, NewsAssumption DEF InOrder
        <4> QED BY <1>1, <2>1, <2>2, <3>1, <4>3, <4>4 DEF Passed, SameSecond
      <3>2. ASSUME NEW k \in DOMAIN filed, Lost(k)'
            PROVE  Lost(k)
        BY <2>1, <2>2, <3>2 DEF Lost
      <3> QED BY <2>2, <2>4, <2>6, <3>1, <3>2 DEF LostIsWarned
    <2> QED BY <1>0, <2>5, <2>6, <2>7, <2>8
  <1>10. CASE Second
    <2>1. now' = now + 1 /\ UNCHANGED <<filed, stored, poll, covered, reported, opening>>
      BY <1>10 DEF Second
    <2>2. InOrder'
      BY <1>1, <2>1 DEF InOrder
    <2>3. FromWatermark' /\ FetchSaw'
      BY <2>1, <1>2 DEF FromWatermark, FetchSaw, Polling, Seen
    <2>4. LostIsWarned'
      BY <1>3, <2>1
    <2> QED BY <1>0, <2>2, <2>3, <2>4
  <1>11. CASE UNCHANGED vars
    <2>1. UNCHANGED <<filed, now, stored, poll, covered, reported, opening>>
      BY <1>11 DEF vars
    <2>2. InOrder' /\ FromWatermark' /\ FetchSaw' /\ LostIsWarned'
      BY <1>2, <1>3, <2>1 DEF InOrder, FromWatermark, FetchSaw, Polling, Seen
    <2> QED BY <1>0, <2>2
  <1> QED BY <1>4, <1>5, <1>6, <1>7, <1>8, <1>9, <1>10, <1>11 DEF Next

(* Whatever the forms and the page size, and however filings, fetches,      *)
(* failures and stops interleave, each filing that no later poll takes is   *)
(* inside a window a warning names, was off the page when the table was     *)
(* still empty, or was passed by the watermark: by a filing of another form *)
(* or of its own second (data/edgar.py poll(), engine/poller.py             *)
(* _news_loop()).                                                           *)
THEOREM EveryLossIsExplained == Spec => []LostIsWarned
  <1>1. LossInv => LostIsWarned
    BY DEF LossInv
  <1> QED BY <1>1, LossInit, LossStep, PTL DEF Spec
=============================================================================
