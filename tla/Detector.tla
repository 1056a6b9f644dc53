------------------------------ MODULE Detector ------------------------------
(***************************************************************************)
(* LeakDetector (src/src/leak_detector.py): what it measures at each tick, *)
(* the windows it judges a total by, and the processes it attributes an    *)
(* alert to.  One metric stands for memory, handles and threads, which are *)
(* judged alike and apart.                                                 *)
(*                                                                         *)
(* The environment moves the tree and the two clocks between ticks; a tick *)
(* collects a sample, fails, or finds monitoring paused.  Time is counted  *)
(* in sampling intervals.  The score of a window is kept in hundredths.    *)
(***************************************************************************)
EXTENDS ProcessHistory

CONSTANTS
    Windows,        \* window_seconds, ascending
    Warmup,         \* warmup_seconds
    CriticalDelta, CriticalSlope,
    Pids,
    MaxTicks,       \* bound: ticks of the sampling thread
    MaxEvents       \* bound: ticks at which the target does not just grow

ASSUME DetectorAssumption ==
    /\ Windows \in Seq(Nat \ {0}) /\ Windows # <<>>
    /\ Root \in Pids /\ Pids \subseteq Nat \ {0}
    /\ {MaxTracked, MaxExited, RestartSeconds} \subseteq Nat /\ MaxPoints \in Nat \ {0}
    /\ {Warmup, MaxTicks, MaxEvents} \subseteq Nat
    /\ {CriticalDelta, CriticalSlope} \subseteq Nat \ {0}

VARIABLES
    tree,      \* the processes, and what they hold
    wall, mono,  \* the two clocks
    ticks, events,
    timing,    \* _last_timing: the clocks at the last attempt, or <<>>
    active,    \* _last_active_sample: on the monotonic clock, or None
    warmed,    \* _warmup_elapsed
    series,    \* _ResourceSeries: its points and its segment
    history,   \* _process_history
    alert,     \* the strongest alert of the last sample, if any
    judged,    \* the windows judged at the last sample, as sequences of points
    paused,    \* history: when a tick last found monitoring paused, or None
    overflow   \* history: a limit of the process history cut something off (Overflows)

clocks == <<wall, mono>>
detectorVars == <<tree, clocks, ticks, events, timing, active, warmed, series, history,
                  alert, judged, paused, overflow>>

NoSegment == {None}
EmptySeries == [points |-> <<>>, segment |-> NoSegment]
MaxAge == (Last(Windows) * 3) \div 2
NoAlert == [severity |-> 0]

DetectorInit ==
    /\ tree = [p \in {Root} |-> [created |-> 0, value |-> 1, readable |-> TRUE]]
    /\ wall = 100 /\ mono = 0 /\ ticks = 0 /\ events = 0
    /\ timing = <<>> /\ active = None /\ warmed = 0
    /\ series = EmptySeries /\ history = EmptyHistory
    /\ alert = NoAlert /\ judged = {}
    /\ paused = None /\ overflow = FALSE

-----------------------------------------------------------------------------
(* The target between two ticks *)

Grown(t) == [t EXCEPT ![Root].value = @ + 1]

Spawned(t) ==
    LET free == Pids \ DOMAIN t IN
    IF free = {} THEN {}
    ELSE {[p \in DOMAIN t \cup {Min(free)} |->
              IF p \in DOMAIN t THEN t[p] ELSE [created |-> ticks, value |-> 2, readable |-> r]] : r \in BOOLEAN}

\* What may happen to the tree instead of steady growth.
Moved(t) ==
    {t, [t EXCEPT ![Root].value = Max({0, @ - 2})]}
    \cup Spawned(t)
    \cup {[q \in DOMAIN t \ {p} |-> t[q]] : p \in DOMAIN t \ {Root}}
    \cup {[t EXCEPT ![p] = [created |-> ticks, value |-> 1, readable |-> TRUE]] : p \in DOMAIN t \ {Root}}
    \cup {[t EXCEPT ![p].readable = ~@] : p \in DOMAIN t}

-----------------------------------------------------------------------------
(* Series and windows *)

Totals(t) == SumOver([p \in {p \in DOMAIN t : t[p].readable} |-> t[p].value])

Unmeasured(t) == {p \in DOMAIN t : ~t[p].readable}

Since(points, cutoff) == Selected(points, {i \in DOMAIN points : points[i].at >= cutoff})

\* Mutation: access lost or regained goes on in the same segment.
Extended_OneSegment(s, t, at) ==
    IF Unmeasured(t) = DOMAIN t THEN EmptySeries
    ELSE [points |-> Append(s.points, [at |-> at, value |-> Totals(t), mono |-> mono', missing |-> Unmeasured(t)]),
          segment |-> s.segment]

\* A sample nothing was read from breaks the series; a change in which
\* processes are unreadable starts it over, as does a clock that stood still.
Extended(s, t, at) ==
    LET point == [at |-> at, value |-> Totals(t), mono |-> mono', missing |-> Unmeasured(t)]
        points == IF s.segment = Unmeasured(t) /\ (s.points = <<>> \/ Last(s.points).at < at)
                  THEN s.points ELSE <<>> IN
    IF Unmeasured(t) = DOMAIN t THEN EmptySeries
    ELSE [points |-> Since(Append(points, point), at - MaxAge),
          segment |-> Unmeasured(t)]

InWindow(points, now, window) == Since(points, now - window)

\* At least four points over 85% of the window.
Eligible(points, now, window) ==
    LET p == InWindow(points, now, window) IN
    Len(p) >= 4 /\ 100 * (Last(p).at - p[1].at) >= 85 * window

\* least_squares_slope, as a fraction.
Slope(p) ==
    LET n == Len(p)
        X(i) == p[i].at - p[1].at
        Total(f(_)) == FoldLeft(LAMBDA sum, i : sum + f(i), 0, [i \in 1..n |-> i])
        x == Total(X)  y == Total(LAMBDA i : p[i].value) IN
    [num |-> n * Total(LAMBDA i : X(i) * p[i].value) - x * y,
     den |-> n * Total(LAMBDA i : X(i) * X(i)) - x * x]

\* Steps that do not fall, and points below the peak so far, in hundredths.
Monotonic(p) == (100 * Cardinality({i \in 2..Len(p) : p[i].value >= p[i - 1].value})) \div (Len(p) - 1)
Drops(p) ==
    (100 * Cardinality({i \in 2..Len(p) : \E j \in 1..(i - 1) : p[i].value < p[j].value})) \div (Len(p) - 1)

Score(p, window) ==
    LET slope == Slope(p)
        delta == Last(p).value - p[1].value IN
    Min({(100 * delta) \div CriticalDelta, 300})
    + Min({(100 * slope.num) \div (slope.den * CriticalSlope), 300})
    + Monotonic(p)
    + (IF window >= 60 THEN 50 ELSE IF window >= 30 THEN 25 ELSE 0)

Severity(score) == Cardinality({least \in {180, 250, 350, 450} : score >= least})

\* The checks in the order the detector applies them.
Verdict(points, now, window) ==
    LET p == InWindow(points, now, window) IN
    CASE Len(p) < 4 -> "too_few_samples"
      [] Len(p) >= 4 /\ ~Eligible(points, now, window) -> "short_span"
      [] OTHER ->
           CASE Slope(p).num <= 0 -> "no_upward_trend"
             [] Slope(p).num > 0 /\ Monotonic(p) < 65 -> "not_monotonic"
             [] Slope(p).num > 0 /\ Monotonic(p) >= 65 /\ Drops(p) > 15 -> "too_many_drops"
             [] OTHER -> IF Severity(Score(p, window)) = 0 THEN "below_thresholds" ELSE "qualified"

AlertOf(points, now, w, h) ==
    LET p == InWindow(points, now, w) IN
    [severity |-> Severity(Score(p, w)), window |-> w, baseline |-> p[1].value, current |-> Last(p).value,
     by |-> Attribute(h, p[1].at, now)]

\* The strongest window, the shortest of those, with where its growth came from.
Alert(points, now, h) ==
    LET alerts == {AlertOf(points, now, w, h) : w \in {w \in ToSet(Windows) : Verdict(points, now, w) = "qualified"}} IN
    IF alerts = {} THEN NoAlert
    ELSE CHOOSE best \in alerts :
             \A a \in alerts : \/ best.severity > a.severity
                               \/ best.severity = a.severity /\ best.window <= a.window

-----------------------------------------------------------------------------
(* Ticks *)

GapExceeds(gap) == 100 * gap > 100 + 15 * Windows[1]

\* Both clocks are read at every attempt: time that cannot be compared, since
\* the clocks parted by more than a second, or too much of it, starts every
\* window over.
Adjusted ==
    timing # <<>> /\ (wall' <= timing[1] \/ (wall' - timing[1]) - (mono' - timing[2]) \notin -1..1)
Gap == timing # <<>> /\ GapExceeds(mono' - timing[2])

PausedTick ==
    /\ timing' = <<>> /\ active' = None
    /\ IF timing # <<>>
       THEN series' = EmptySeries /\ history' = RestartWindows(history) /\ judged' = {}
       ELSE UNCHANGED <<series, history, judged>>
    /\ UNCHANGED <<warmed, alert, overflow>>

Restarts == Adjusted \/ Gap

\* _check_timing, and the tree as the history sees it.
Timed == IF Restarts THEN RestartWindows(history) ELSE history
Seen == Observe(Timed, wall', tree', MaxAge)

\* The collection fails, before or after the processes were read.
FailedTick ==
    /\ timing' = <<wall', mono'>>
    /\ series' = IF Restarts THEN EmptySeries ELSE series
    /\ active' = IF Restarts THEN None ELSE active
    /\ history' \in {Timed, Seen}
    /\ overflow' = (overflow \/ Overflows(Timed, tree'))
    /\ judged' = {}
    /\ UNCHANGED <<warmed, alert>>

\* Active sampling time counts toward the warm-up; growth before its end
\* reaches no window.
CollectTick ==
    /\ timing' = <<wall', mono'>> /\ active' = mono'
    /\ warmed' = IF Restarts \/ active = None THEN warmed ELSE warmed + (mono' - active)
    /\ LET before == IF Restarts THEN EmptySeries ELSE series IN
       series' = IF warmed' < Warmup THEN before ELSE Extended(before, tree', wall')
    /\ history' = Seen
    /\ overflow' = (overflow \/ Overflows(Timed, tree'))
    /\ judged' = IF warmed' < Warmup THEN {}
                 ELSE {InWindow(series'.points, wall', w) :
                         w \in {w \in ToSet(Windows) : Eligible(series'.points, wall', w)}}
    /\ alert' = IF warmed' < Warmup THEN NoAlert ELSE Alert(series'.points, wall', history')

Tick == ticks < MaxTicks /\ ticks' = ticks + 1

Grow ==
    /\ Tick /\ UNCHANGED events
    /\ tree' = Grown(tree) /\ wall' = wall + 1 /\ mono' = mono + 1
    /\ CollectTick /\ UNCHANGED paused

Event == Tick /\ events < MaxEvents /\ events' = events + 1

Move ==
    /\ Event
    /\ tree' \in Moved(tree) /\ wall' = wall + 1 /\ mono' = mono + 1
    /\ CollectTick /\ UNCHANGED paused

\* The wall clock is set, by more than the second that is tolerated, or the
\* thread was held up.
ClockMoves ==
    /\ Event
    /\ tree' = Grown(tree)
    /\ \E step \in {<<-3, 1>>, <<5, 1>>, <<3, 3>>} :
        /\ wall + step[1] > 0
        /\ wall' = wall + step[1] /\ mono' = mono + step[2]
    /\ CollectTick /\ UNCHANGED paused

Fail ==
    /\ Event
    /\ tree' = Grown(tree) /\ wall' = wall + 1 /\ mono' = mono + 1
    /\ FailedTick /\ UNCHANGED paused

Paused ==
    /\ Event
    /\ tree' = Grown(tree) /\ wall' = wall + 1 /\ mono' = mono + 1 /\ paused' = mono'
    /\ PausedTick

DetectorNext == Grow \/ Move \/ ClockMoves \/ Fail \/ Paused

DetectorSpec == DetectorInit /\ [][DetectorNext]_detectorVars

-----------------------------------------------------------------------------
(* Properties *)

\* A window is judged on totals that compare: all of the same processes, on
\* one run of both clocks, with no pause and no warm-up inside.
\* (leak_detector.py 135-154, 331-351, 505-533, 629-653)
WindowsCompare ==
    \A p \in judged : \A i \in 2..Len(p) :
        /\ p[i].missing = p[1].missing
        /\ p[i].at > p[i - 1].at
        /\ p[i].at - p[i - 1].at = p[i].mono - p[i - 1].mono
        /\ p[1].mono > paused

\* The changes an alert is attributed by add up to the change of the total it
\* was raised on, whatever started, exited or reused a PID meanwhile, as long
\* as no limit of the history cut anything off; and no exit is replaced twice.
\* (process_history.py 178-285, 373-421; leak_detector.py 1176-1205)
AttributionAddsUp ==
    /\ alert.severity > 0 /\ judged # {} /\ ~overflow =>
         alert.by.fromNew + alert.by.fromExisting + alert.by.lost = alert.current - alert.baseline
    /\ history.restarted <= history.exited

\* The detector compares stretches of measurement of one length and one
\* clock, and what it attributes adds up.
DetectorIsRight == WindowsCompare /\ AttributionAddsUp

\* What the documentation would have: a time in which nothing was sampled,
\* longer than the allowance of the shortest window, lies in no window that
\* is judged.  The code ends its windows at a pause and at a change of the
\* membership, not after a sample that failed, so this is not ensured, and
\* nothing else here rests on it.
\* (leak_detector.py 513-526; docs/reports.md 220-222)
NoHoleIsJudged ==
    \A p \in judged : \A i \in 2..Len(p) : ~GapExceeds(p[i].mono - p[i - 1].mono)
=============================================================================
