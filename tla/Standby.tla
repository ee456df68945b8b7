------------------------------ MODULE Standby -------------------------------
(***************************************************************************)
(* campaign_state.py, standby_minutes: how long the machine slept, put     *)
(* together from the event log's entries into and out of Modern Standby.   *)
(* The machine and the log are external.  Reasons are left out.            *)
(***************************************************************************)
EXTENDS Integers, SequencesExt

CONSTANTS
    Horizon,    \* bound on the clock
    Hours,      \* the window
    Moment,     \* a wake shorter than this is no wake (60 s)
    Fields      \* how many fields a line has: the parser takes three, the
                \* query prints four, RecordId the last

StandbyAssumption ==
    /\ Horizon \in Nat /\ Hours \in Nat /\ Moment \in Nat
    /\ Fields \in {3, 4}

VARIABLES
    now,
    log,    \* the events, oldest first
    sleeps  \* history: <<from, to>>, the last one open while asleep

vars == <<now, log, sleeps>>

Enter == 506
Leave == 507

Asleep == sleeps # <<>> /\ Last(sleeps)[2] = -1

Init == now = 0 /\ log = <<>> /\ sleeps = <<>>

-----------------------------------------------------------------------------
(* The machine.                                                            *)

Event(id) == log' = Append(log, [t |-> now, id |-> id])

Tick == now < Horizon /\ now' = now + 1 /\ UNCHANGED <<log, sleeps>>

\* Bounded: at most three events in one second.
FallAsleep ==
    /\ ~Asleep
    /\ Cardinality({i \in DOMAIN log : log[i].t = now}) < 2
    /\ Event(Enter)
    /\ sleeps' = Append(sleeps, <<now, -1>>)
    /\ UNCHANGED now

\* A button may wake it in the second it fell asleep.
WakeUp ==
    /\ Asleep
    /\ Event(Leave)
    /\ sleeps' = Append(Front(sleeps), <<Last(sleeps)[1], now>>)
    /\ UNCHANGED now

Next == Tick \/ FallAsleep \/ WakeUp

Spec == Init /\ [][Next]_vars

-----------------------------------------------------------------------------
(* The sensor.                                                             *)

WindowStart == now - Hours

\* What the query prints: a line per event of the window.
Printed == SelectSeq(log, LAMBDA e : e.t >= WindowStart)

\* "if len(parts) != 3: continue"
Rows == IF Fields = 3 THEN Printed ELSE <<>>

\* Seeded bug: in the same second, by number.
BugEarlier(x, y) == x.t < y.t \/ (x.t = y.t /\ x.id < y.id)

\* In the same second an exit comes first.
Earlier(x, y) == x.t < y.t \/ (x.t = y.t /\ x.id = Leave /\ y.id = Enter)

Sorted(rows) ==
    LET places == SortSeq([i \in 1 .. Len(rows) |-> i],
                          LAMBDA i, j : \/ Earlier(rows[i], rows[j])
                                        \/ ~Earlier(rows[j], rows[i]) /\ i < j) IN
    [i \in 1 .. Len(rows) |-> rows[places[i]]]

\* An exit nobody saw the entry of is clamped to the start of the window; of
\* two entries in a row the first counts.
Pair(acc, row) ==
    IF row.id = Enter
    THEN IF acc.enter = -1 THEN [acc EXCEPT !.enter = row.t] ELSE acc
    ELSE [spans |-> Append(acc.spans,
                           <<IF acc.enter = -1 THEN WindowStart ELSE acc.enter, row.t>>),
          enter |-> -1]

\* -1 stands for None, and for "still asleep" in a span: no time is negative
\* that an event of the window has.
Spans ==
    LET acc == FoldLeft(Pair, [spans |-> <<>>, enter |-> -1], Sorted(Rows)) IN
    IF acc.enter = -1 THEN acc.spans ELSE Append(acc.spans, <<acc.enter, now>>)

Merge(merged, s) ==
    IF merged # <<>> /\ s[1] - Last(merged)[2] < Moment
    THEN Append(Front(merged),
                <<Last(merged)[1], IF s[2] > Last(merged)[2] THEN s[2] ELSE Last(merged)[2]>>)
    ELSE Append(merged, s)

Merged ==
    FoldLeft(Merge, <<>>,
             SortSeq(Spans, LAMBDA x, y : x[1] < y[1] \/ (x[1] = y[1] /\ x[2] < y[2])))

StandbyMinutes == FoldLeft(LAMBDA sum, s : sum + s[2] - s[1], 0, Merged)

-----------------------------------------------------------------------------
(* Properties.                                                             *)

Until(i) == IF sleeps[i][2] = -1 THEN now ELSE sleeps[i][2]

\* The time in the window that the machine slept, momentary wakes included.
Slept ==
    Cardinality({u \in 0 .. now - 1 :
        /\ u >= WindowStart
        /\ \/ \E i \in 1 .. Len(sleeps) : sleeps[i][1] <= u /\ u < Until(i)
           \/ \E i \in 1 .. Len(sleeps) - 1 :
                 /\ WindowStart <= sleeps[i][2]
                 /\ sleeps[i][2] <= u /\ u < sleeps[i + 1][1]
                 /\ sleeps[i + 1][1] - sleeps[i][2] < Moment})

\* "Minutes spent in Modern Standby recently", docstring and tests alike: what
\* is reported is the time the machine slept.  (With no event in the window
\* there is nothing to go by.)
SleepReported == Len(Printed) > 0 => StandbyMinutes = Slept

\* A sleep that ended in the second it began: the sort puts its exit first.
Momentary ==
    \E i \in 1 .. Len(sleeps) :
        sleeps[i][1] = sleeps[i][2] /\ sleeps[i][1] >= WindowStart

\* From lines of three fields, which the tests feed it too, it is so whatever
\* part of the log the window shows: an exit without its entry, an entry
\* without its exit, an exit and an entry in one second; but for a sleep within
\* one second.
SleepMeasured == Fields = 3 /\ ~Momentary => SleepReported
=============================================================================
