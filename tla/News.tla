-------------------------------- MODULE News --------------------------------
(***************************************************************************)
(* Incremental polling of SEC filings: Poller._news_loop, EdgarNewsFeed    *)
(* .poll and NewsRepo.                                                     *)
(*                                                                         *)
(* A poll reads the watermark from the database, fetches one page per form *)
(* in turn, keeps what is newer than the watermark and concerns a symbol   *)
(* of the watchlist, and commits it all at the end.  Filings go on being   *)
(* published between any two of these steps, and while the engine is down. *)
(* EDGAR shows the newest PageSize entries of a form, to the second.       *)
(***************************************************************************)
EXTENDS Integers, FiniteSets, FiniteSetsExt, Sequences

CONSTANTS Forms,        \* the forms polled, in order
          PageSize,     \* MAX_PAGE_SIZE
          MaxFilings,   \* bound: filings published
          MaxTime,      \* bound: seconds
          MaxFailures,  \* bound: fetches that fail
          MaxStops      \* bound: times the engine stops

FormSet == {Forms[i] : i \in 1..Len(Forms)}

ASSUME NewsAssumption ==
    /\ Forms \in Seq(FormSet)
    /\ PageSize \in Nat \ {0}
    /\ MaxTime \in Nat \ {0} /\ {MaxFilings, MaxFailures, MaxStops} \subseteq Nat

VARIABLES
    filed,     \* what EDGAR has published, oldest first
    now,       \* the second it is
    stored,    \* the news table: positions in filed
    poll,      \* the poll in progress
    up,        \* the engine is running
    covered,   \* history: filings that were out when the last complete poll began
    reported,  \* history: filings inside a window that a news_window_saturated event names
    opening,   \* history: filings off the page when an empty table was polled
    away,      \* history: filings published while the engine was down, with a table to resume from
    failures,  \* fetches that failed (bound: MaxFailures)
    stops      \* times the engine stopped (bound: MaxStops)

edgarVars == <<filed, now, away>>
engineVars == <<up, stops>>
tableVars == <<stored, covered, reported>>
vars == <<edgarVars, tableVars, poll, opening, failures, engineVars>>

NoPoll == [since |-> -1]
FilingType == [form: FormSet, time: 1..MaxTime, wanted: BOOLEAN]
PollType == [since: 0..MaxTime, next: 1..Len(Forms) + 1, out: 0..MaxFilings,
             got: SUBSET (1..MaxFilings), missed: SUBSET (1..MaxFilings), complete: BOOLEAN]

\* A poll holds only filings that are newer than the watermark it began from.
NewsTypeOK ==
    /\ filed \in Seq(FilingType) /\ Len(filed) <= MaxFilings
    /\ now \in 1..MaxTime
    /\ stored \subseteq DOMAIN filed
    /\ poll # NoPoll =>
          up /\ poll \in PollType /\ \A k \in poll.got : filed[k].time > poll.since
    /\ up \in BOOLEAN
    /\ covered \in 0..Len(filed)
    /\ reported \subseteq DOMAIN filed /\ opening \subseteq DOMAIN filed
    /\ away \subseteq DOMAIN filed
    /\ failures \in 0..MaxFailures /\ stops \in 0..MaxStops

-----------------------------------------------------------------------------
(* The database and the feed. *)

\* latest_published_ms(): 0 when there is nothing yet.
Watermark == IF stored = {} THEN 0 ELSE Max({filed[k].time : k \in stored})

OfForm(form) == {k \in DOMAIN filed : filed[k].form = form}
Page(form) == {k \in OfForm(form) : Cardinality({j \in OfForm(form) : j > k}) < PageSize}
Fallen(form) == OfForm(form) \ Page(form)

\* Mutant: the watermark's own second is taken again.
ParsedFromSince(form, since) ==
    {k \in Page(form) : filed[k].wanted /\ filed[k].time >= since}

\* _parse_atom(): what a page holds for the watchlist past the watermark.
Parsed(form, since) ==
    {k \in Page(form) : filed[k].wanted /\ filed[k].time > since}

\* Not even the oldest entry of the page reaches back to the watermark.
Saturated(form, since) ==
    /\ Page(form) # {}
    /\ Min({filed[k].time : k \in Page(form)}) > since
    /\ since > 0

\* What its warning is about: "filings may have been missed".
Missed(form, since) ==
    IF Saturated(form, since) THEN {k \in Fallen(form) : filed[k].time > since} ELSE {}

-----------------------------------------------------------------------------
(* One poll. *)

Polling == poll # NoPoll
Fetching == Polling /\ poll.next <= Len(Forms)

NewPoll(since) ==
    [since |-> since, next |-> 1, out |-> Len(filed), got |-> {}, missed |-> {}, complete |-> TRUE]

\* Mutant: the watermark is the time of the poll.
PollBeginFromClock ==
    /\ up /\ ~Polling
    /\ poll' = NewPoll(now)
    /\ UNCHANGED <<edgarVars, tableVars, opening, failures, engineVars>>

PollBegin ==
    /\ up /\ ~Polling
    /\ poll' = NewPoll(Watermark)
    /\ UNCHANGED <<edgarVars, tableVars, opening, failures, engineVars>>

FetchPage ==
    /\ Fetching
    /\ LET form == Forms[poll.next]
       IN  /\ poll' = [poll EXCEPT !.next = @ + 1,
                                   !.got = @ \cup Parsed(form, poll.since),
                                   !.missed = @ \cup Missed(form, poll.since)]
           /\ opening' = IF poll.since = 0 THEN opening \cup Fallen(form) ELSE opening
    /\ UNCHANGED <<edgarVars, tableVars, failures, engineVars>>

\* A form whose page does not come, or does not parse, is passed over.
FetchFails ==
    /\ Fetching /\ failures < MaxFailures
    /\ failures' = failures + 1
    /\ poll' = [poll EXCEPT !.next = @ + 1, !.complete = FALSE]
    /\ UNCHANGED <<edgarVars, tableVars, opening, engineVars>>

\* One transaction for items and warnings.
PollCommits ==
    /\ Polling /\ ~Fetching
    /\ stored' = stored \cup poll.got
    /\ reported' = reported \cup poll.missed
    /\ covered' = IF poll.complete THEN poll.out ELSE covered
    /\ poll' = NoPoll
    /\ UNCHANGED <<edgarVars, opening, failures, engineVars>>

\* The transaction raises.
PollLost ==
    /\ Polling
    /\ poll' = NoPoll
    /\ UNCHANGED <<edgarVars, tableVars, opening, failures, engineVars>>

\* The engine goes down, in the middle of a poll perhaps.
Stop ==
    /\ up /\ stops < MaxStops
    /\ up' = FALSE /\ stops' = stops + 1 /\ poll' = NoPoll
    /\ UNCHANGED <<edgarVars, tableVars, opening, failures>>

Restart ==
    /\ ~up /\ up' = TRUE
    /\ UNCHANGED <<edgarVars, tableVars, poll, opening, failures, stops>>

-----------------------------------------------------------------------------
(* EDGAR. *)

Publish ==
    /\ Len(filed) < MaxFilings
    /\ \E form \in FormSet, wanted \in BOOLEAN :
          filed' = Append(filed, [form |-> form, time |-> now, wanted |-> wanted])
    /\ away' = IF up \/ stored = {} THEN away ELSE away \cup {Len(filed')}
    /\ UNCHANGED <<now, tableVars, poll, opening, failures, engineVars>>

Second ==
    /\ now < MaxTime
    /\ now' = now + 1
    /\ UNCHANGED <<filed, away, tableVars, poll, opening, failures, engineVars>>

Init ==
    /\ filed = <<>> /\ now = 1 /\ away = {}
    /\ stored = {} /\ covered = 0 /\ reported = {} /\ opening = {}
    /\ poll = NoPoll /\ failures = 0 /\ up = TRUE /\ stops = 0

Next ==
    \/ PollBegin \/ FetchPage \/ FetchFails \/ PollCommits \/ PollLost
    \/ Stop \/ Restart
    \/ Publish \/ Second

Spec == Init /\ [][Next]_vars

-----------------------------------------------------------------------------
(* Properties. *)

\* A filing of the watchlist that is not stored, though it was out before a complete
\* poll began or is no newer than the watermark: no later poll takes it.
Lost(k) ==
    /\ filed[k].wanted /\ k \notin stored
    /\ k <= covered \/ filed[k].time <= Watermark

SameSecond(k) == \E j \in stored : filed[j].time = filed[k].time

\* The one watermark went past it: by a filing of another form, or of its own second.
Passed(k) ==
    \/ SameSecond(k)
    \/ \E j \in stored : filed[j].form # filed[k].form /\ filed[j].time > filed[k].time

\* Whatever fails, is lost or restarts, and whatever the forms, a filing is lost to
\* one of three things: a page too small, and then an event names the window it
\* lies in; the page of a poll that began with an empty table, about which edgar.py
\* does not warn; or the watermark all forms share and compare in whole seconds.  The
\* last two are silent.
LostIsWarned ==
    \A k \in DOMAIN filed : Lost(k) => k \in reported \cup opening \/ Passed(k)

-----------------------------------------------------------------------------
(* What a comment in the source says, and the code does not do; see the README. *)

\* "A restart must not re-ingest a week of filings, and must not skip the window it
\* was down for either" (engine/poller.py): what was published while the engine was
\* down is not passed by the watermark, except with a warning or within its second.
NoWindowSkipped ==
    \A k \in away :
        Lost(k) /\ filed[k].time <= Watermark => k \in reported \/ SameSecond(k)
=============================================================================
