------------------------------ MODULE Timeline ------------------------------
(***************************************************************************)
(* The annotations a session keeps of its run, and the chart drawn of them *)
(* (src/src/session.py, src/src/view_timeline.py): pauses, processes that  *)
(* cannot be read, starts and exits, signals, and markers of the user.     *)
(*                                                                         *)
(* The detector publishes samples to a bounded stream, a poll takes them   *)
(* all.  SessionRecord has the exact counts; the words of the event log    *)
(* are left out.                                                           *)
(***************************************************************************)
EXTENDS Integers, FiniteSets, SequencesExt

CONSTANTS
    Signalled,     \* RESOURCES: what may show a signal
    Levels,        \* severities, 0 is none
    Pids,
    StreamLimit,   \* snapshots kept for a poll (SNAPSHOT_LIMIT)
    TimelineLimit, \* TIMELINE_LIMIT
    MarkerLimit,   \* MARKER_LIMIT
    BurstLimit,    \* LIFECYCLE_DETAIL_LIMIT
    MaxPublished   \* bound: samples published

ASSUME TimelineAssumption ==
    /\ {StreamLimit, TimelineLimit, MarkerLimit, BurstLimit, MaxPublished} \subseteq Nat /\ StreamLimit > 0
    /\ Levels \subseteq Nat /\ 0 \in Levels
    /\ IsFiniteSet(Signalled) /\ IsFiniteSet(Pids)

VARIABLES
    now,      \* what the detector would publish
    samples,  \* how many it did publish
    stream,   \* of snapshots not polled
    view,     \* what the session made of the others
    markers   \* the markers to be exported

timelineVars == <<now, samples, stream, view, markers>>

Unseen == [seen |-> FALSE, paused |-> FALSE, warming |-> FALSE]

TimelineInit ==
    /\ now = [failed |-> FALSE, paused |-> FALSE, warming |-> TRUE, unread |-> {}, present |-> Pids,
              severity |-> [r \in Signalled |-> 0], events |-> {}]
    /\ samples = 0 /\ stream = <<>> /\ markers = <<>>
    /\ view = [shown |-> Unseen, severity |-> [r \in Signalled |-> 0], unread |-> {}, error |-> FALSE, marks |-> <<>>,
               evicted |-> FALSE]

-----------------------------------------------------------------------------
(* The detector: one thing changes between two samples *)

Changes ==
    \/ now' = [now EXCEPT !.failed = ~@, !.events = {}]
    \/ now' = [now EXCEPT !.failed = FALSE, !.warming = FALSE, !.paused = ~@, !.events = {}]
    \/ \E r \in Signalled, s \in Levels :
           now' = [now EXCEPT !.failed = FALSE, !.warming = FALSE, !.severity[r] = s, !.events = {}]
    \/ \E p \in SUBSET Pids : now' = [now EXCEPT !.failed = FALSE, !.unread = p \cap now.present, !.events = {}]
    \/ \E p \in SUBSET Pids :
           now' = [now EXCEPT !.failed = FALSE, !.present = p, !.unread = @ \cap p,
                              !.events = {[pid |-> i, kind |-> "exited"] : i \in now.present \ p}
                                         \cup {[pid |-> i, kind |-> "started"] : i \in p \ now.present}]

\* MetricsStream: the oldest snapshot makes room.
PublishSample ==
    /\ samples < MaxPublished /\ samples' = samples + 1
    /\ Changes
    /\ stream' = LET all == Append(stream, now') IN IF Len(all) > StreamLimit THEN Tail(all) ELSE all
    /\ UNCHANGED <<view, markers>>

-----------------------------------------------------------------------------
(* _accept_snapshot *)

Mark(kind, of, says) == [kind |-> kind, of |-> of, says |-> says]

MarkPause(v, s) ==
    IF v.shown.seen /\ s.paused # v.shown.paused THEN <<Mark("pause", {}, IF s.paused THEN 1 ELSE 0)>> ELSE <<>>

\* _track_coverage: one that left the tree is not readable again.
MarkCoverage(v, s) ==
    IF ~v.shown.seen \/ s.paused THEN <<>>
    ELSE SetToSeq({Mark("access", {i}, 0) : i \in s.unread \ v.unread})
         \o SetToSeq({Mark("access", {i}, 1) : i \in (v.unread \ s.unread) \cap s.present})

MarkWarmup(v, s) ==
    IF v.shown.seen /\ v.shown.warming /\ ~s.warming /\ ~s.paused THEN <<Mark("warm-up", {}, 0)>> ELSE <<>>

\* _log_lifecycle: many events of one kind are one mark.
LifecycleMarks(s, kind) ==
    LET of == {e \in s.events : e.kind = kind}
    IN IF of = {} \/ s.paused THEN <<>>
       ELSE IF Cardinality(of) > BurstLimit THEN <<Mark(kind, {}, Cardinality(of))>>
       ELSE SetToSeq({Mark(kind, {e.pid}, 1) : e \in of})
MarkLifecycle(s) == LifecycleMarks(s, "started") \o LifecycleMarks(s, "exited")

\* Mutation: only an alert is remembered, not its end.
Severities_AlertsOnly(v, s) == [r \in Signalled |-> IF s.severity[r] = 0 THEN v.severity[r] ELSE s.severity[r]]
Severities(v, s) == s.severity

MarkSignals(v, s) ==
    IF s.paused THEN <<>>
    ELSE SetToSeq({Mark("signal", {r}, s.severity[r]) : r \in {q \in Signalled : s.severity[q] # v.severity[q]}})

Annotated(v, new) ==
    LET all == v.marks \o new
        n == Len(all)
    IN [v EXCEPT !.marks = IF n > TimelineLimit THEN SubSeq(all, n - TimelineLimit + 1, n) ELSE all,
                 !.evicted = @ \/ n > TimelineLimit]

\* A failed sample has no measurements and clears nothing.
Accepted(v, s) ==
    IF s.failed THEN [v EXCEPT !.error = TRUE]
    ELSE [Annotated(v, MarkPause(v, s) \o MarkCoverage(v, s) \o MarkWarmup(v, s) \o MarkLifecycle(s) \o MarkSignals(v, s))
          EXCEPT !.shown = [seen |-> TRUE, paused |-> s.paused, warming |-> s.warming],
                 !.unread = IF s.paused THEN @ ELSE s.unread,
                 !.severity = IF s.paused THEN @ ELSE Severities(v, s),
                 !.error = FALSE]

\* One after the other, in the order published.
AllAccepted(v, snapshots) ==
    LET upTo[n \in 0..Len(snapshots)] == IF n = 0 THEN v ELSE Accepted(upTo[n - 1], snapshots[n])
    IN upTo[Len(snapshots)]

Poll ==
    /\ stream # <<>> /\ stream' = <<>>
    /\ view' = AllAccepted(view, stream)
    /\ UNCHANGED <<now, samples, markers>>

AddMarker ==
    /\ Len(markers) < MarkerLimit
    /\ markers' = Append(markers, Len(markers) + 1)
    /\ view' = Annotated(view, <<Mark("marker", {}, Len(markers) + 1)>>)
    /\ UNCHANGED <<now, samples, stream>>

TimelineNext == PublishSample \/ Poll \/ AddMarker

TimelineSpec == TimelineInit /\ [][TimelineNext]_timelineVars

-----------------------------------------------------------------------------
LastOf(kind, of) == SelectLastInSeq(view.marks, LAMBDA m : m.kind = kind /\ m.of = of)
Says(kind, of, default) == LET i == LastOf(kind, of) IN IF i = 0 THEN default ELSE view.marks[i].says
Silent(kind, of) == LastOf(kind, of) = 0 /\ view.evicted

(* The timeline tells the truth about now, whatever snapshots the stream   *)
(* dropped or failed in between: the last annotation of a resource is its  *)
(* severity, the last pause or resume is what the target is in, a process  *)
(* that cannot be read is not annotated as readable, and a severity or a   *)
(* pause with no annotation had none unless older ones were evicted        *)
(* (_log_signal_transitions, _track_coverage, _accept_snapshot).           *)
TimelineIsCurrent ==
    LET latest == stream = <<>> /\ ~view.error /\ view.shown.seen
    IN /\ \A r \in Signalled : Says("signal", {r}, 0) = view.severity[r] \/ Silent("signal", {r})
       /\ \A i \in view.unread : Says("access", {i}, 0) = 0
       /\ latest /\ LastOf("pause", {}) # 0 => (Says("pause", {}, 0) = 1) = now.paused
       /\ latest /\ ~now.paused => view.severity = now.severity /\ view.unread = now.unread

-----------------------------------------------------------------------------
(* The chart of points [time, value] in as many columns as fit *)

NoValue == -1

ColumnOf(time, from, to, columns) ==
    LET index == IF to > from THEN ((time - from) * columns) \div (to - from)
                 ELSE IF time > from THEN columns - 1 ELSE 0
    IN 1 + Min({columns - 1, Max({0, index})})

Highest(values) == Max(ToSet(values))

\* bucket_columns: an empty column between samples close together repeats
\* the one before, any other stays empty.
BucketColumns(points, from, to, columns, gap) ==
    LET In(c) == SelectSeq(points, LAMBDA p : ColumnOf(p.time, from, to, columns) = c)
        filled == {c \in 1..columns : In(c) # <<>>}
        Value(c) == Highest([i \in DOMAIN In(c) |-> In(c)[i].value])
        before(c) == {b \in filled : b < c}
        after(c) == {a \in filled : a > c}
    IN [c \in 1..columns |->
          IF c \in filled THEN Value(c)
          ELSE IF before(c) = {} \/ after(c) = {} THEN NoValue
          ELSE IF Last(In(Min(after(c)))).time - Last(In(Max(before(c)))).time <= gap THEN Value(Max(before(c)))
          ELSE NoValue]

\* mark_row: one symbol, or a star for several.
MarkRow(marks, from, to, columns) ==
    LET At(c) == {i \in DOMAIN marks : marks[i] \in from..to /\ ColumnOf(marks[i], from, to, columns) = c}
    IN [c \in 1..columns |-> Cardinality(At(c))]

\* _timeline_data: the part of the history that the range and the pan select.
InView(points, range, pan) ==
    LET first == points[1].time
        latest == Last(points).time
        span == IF range = 0 THEN Max({0, latest - first}) ELSE range
        end == Min({latest, Max({first + span, latest - pan})})
    IN IF points = <<>> \/ (range = 0 /\ pan = 0) THEN points
       ELSE SelectSeq(points, LAMBDA p : p.time \in (end - span)..end)

(* A narrow chart hides no peak and invents none, and draws a gap where    *)
(* samples are far apart, even when the clock was set back between samples *)
(* (bucket_columns, "highest shown"); and every mark in range is drawn.    *)
ChartKeepsPeaks(points, columns, gap) ==
    LET from == points[1].time
        to == Last(points).time
        chart == BucketColumns(points, from, to, columns, gap)
        times == [i \in DOMAIN points |-> points[i].time]
    IN points # <<>> =>
         /\ \A i \in DOMAIN points : points[i].value <= chart[ColumnOf(points[i].time, from, to, columns)]
         /\ \A c \in 1..columns : chart[c] # NoValue => \E i \in DOMAIN points : points[i].value = chart[c]
         /\ FoldFunction(+, 0, MarkRow(times, from, to, columns))
              = Cardinality({i \in DOMAIN points : times[i] \in from..to})
=============================================================================
