--------------------------- MODULE SessionRecord ---------------------------
(***************************************************************************)
(* What a session keeps of the samples it takes: the exact facts the       *)
(* publisher counts before a sample can be evicted from the stream         *)
(* (session_facts.py), the thinned history of those that arrive            *)
(* (history.py), the marks of its timeline (session.py), and what a report *)
(* made of them says (Analysis).                                           *)
(*                                                                         *)
(* The stream itself is modelled by Session, which shows it to be a        *)
(* LossyQueue: here a sample arrives at once or is evicted.  The sequence  *)
(* of all samples is kept to compare with; no code has it.                 *)
(***************************************************************************)
EXTENDS Analysis

CONSTANTS
    Samples,     \* what the detector may publish, without its stamp
    Limit,       \* SNAPSHOT_LIMIT: the history's limit
    Checkpoint,  \* CHECKPOINT_SAMPLES: snapshots in a checkpoint's report
    MaxTaken,    \* bound: samples
    MaxTurns     \* bound: samples unlike the last, clock steps and evictions

ASSUME RecordAssumption ==
    /\ \A s \in Samples :
          /\ s \in [kind : {"ok", "paused", "failed"}, rank : Nat, live : Nat, seen : Nat, value : Nat,
                    warming : BOOLEAN, alive : BOOLEAN, judged : BOOLEAN, reset : BOOLEAN]
          /\ s.seen <= s.live
    /\ Limit \in Nat /\ Limit >= 8 /\ Checkpoint \in Nat /\ Checkpoint >= 2
    /\ MaxTaken \in Nat /\ MaxTurns \in Nat

VARIABLES
    all,     \* history: every sample published
    turns,
    facts,   \* SessionFacts
    hist,    \* SnapshotHistory
    marks    \* the timeline, and what it was last told of

recordVars == <<all, turns, facts, hist, marks>>

-----------------------------------------------------------------------------
(* Session facts *)

NoSignal == [open |-> 0, last |-> 0, rank |-> 0]

EmptyFacts ==
    [taken |-> 0, collected |-> 0, measured |-> 0, paused |-> 0, failed |-> 0,
     first |-> 0, last |-> 0, peak |-> 0, peakAt |-> 0, worst |-> 0, worstAt |-> 0,
     episodes |-> 0, escalations |-> 0, seconds |-> 0, signal |-> NoSignal,
     previous |-> <<>>, evaluated |-> 0, afterWarmup |-> 0, firstEvaluated |-> 0,
     judged |-> FALSE, covered |-> 0, full |-> 0, partial |-> 0, unavailable |-> 0]

\* How long an episode lasted; the clock may have been set back in it.
Lasted(signal) == Max({0, signal.last - signal.open})

\* An episode is a run of collected samples with a signal.
ObserveSignal(f, s) ==
    IF s.rank = 0 THEN [f EXCEPT !.seconds = @ + Lasted(f.signal), !.signal = NoSignal]
    ELSE [f EXCEPT
            !.episodes = @ + (IF f.signal.open = 0 THEN 1 ELSE 0),
            !.escalations = @ + (IF f.signal.open # 0 /\ s.rank > f.signal.rank THEN 1 ELSE 0),
            !.signal = [open |-> IF f.signal.open = 0 THEN s.stamp ELSE f.signal.open,
                        last |-> s.stamp, rank |-> s.rank],
            !.worstAt = IF s.rank > f.worst THEN s.stamp ELSE @,
            !.worst = Max({@, s.rank})]

\* A peak only from a total that measured a live process.
ObservePeak(f, s) ==
    IF MeasuredMetric(s) /\ s.value > f.peak
    THEN [f EXCEPT !.peak = s.value, !.peakAt = s.stamp] ELSE f

ObserveCoverage(f, s) ==
    IF s.live = 0 THEN f
    ELSE [f EXCEPT !.covered = @ + 1, !.measured = @ + 1,
                   !.full = @ + (IF s.seen = s.live THEN 1 ELSE 0),
                   !.partial = @ + (IF Partial(s) THEN 1 ELSE 0),
                   !.unavailable = @ + (IF s.seen = 0 THEN 1 ELSE 0)]

\* Time counts as evaluated between two samples with nothing in between.
ObserveElapsed(f, s, previous) ==
    IF previous = <<>> \/ s.reset THEN f
    ELSE LET elapsed == Max({0, s.stamp - previous[1].stamp}) IN
         [f EXCEPT
            !.afterWarmup = @ + (IF s.warming \/ previous[1].warming THEN 0 ELSE elapsed),
            !.evaluated = @ + (IF s.judged THEN elapsed ELSE 0),
            !.firstEvaluated = IF s.judged /\ @ = 0 THEN previous[1].stamp ELSE @]

ObserveCollected(f, s) ==
    LET g == [f EXCEPT !.collected = @ + 1, !.judged = @ \/ s.judged, !.previous = <<s>>] IN
    ObserveElapsed(ObserveSignal(ObservePeak(ObserveCoverage(g, s), s), s), s, f.previous)

ObserveFacts(f, s) ==
    LET g == [f EXCEPT !.taken = @ + 1,
                       !.first = IF f.taken = 0 THEN s.stamp ELSE Min({@, s.stamp}),
                       !.last = IF f.taken = 0 THEN s.stamp ELSE Max({@, s.stamp})] IN
    CASE s.kind = "failed" -> [g EXCEPT !.failed = @ + 1, !.previous = <<>>]
      [] s.kind = "paused" -> [g EXCEPT !.paused = @ + 1, !.previous = <<>>]
      [] OTHER -> ObserveCollected(g, s)

\* An open episode counts up to its last sample.
SignalSeconds(f) == f.seconds + Lasted(f.signal)

\* session.py: every live sample measured everything and none failed.
FullCoverage(f) == f.measured > 0 /\ f.failed = 0 /\ f.full = f.measured

-----------------------------------------------------------------------------
(* The history that is kept of the samples that arrive *)

EmptyHist == [entries |-> <<>>, stride |-> 1, pins |-> 0, count |-> 0, state |-> <<>>, latest |-> <<>>]

\* What a report draws as a mark or a span.
StateOf(s) == <<s.rank, s.warming, s.kind, s.alive>>

\* Mutation: pinned snapshots are thinned like any other.
Thin_PinsToo(h) ==
    [h EXCEPT !.stride = 2 * @,
              !.entries = Selected(@, {i \in DOMAIN @ : @[i].index % (2 * h.stride) = 0})]

Thin(h) ==
    [h EXCEPT !.stride = 2 * @,
              !.entries = Selected(@, {i \in DOMAIN @ : @[i].pinned \/ @[i].index % (2 * h.stride) = 0})]

AppendSnapshot(h, s) ==
    LET pinned == StateOf(s) # h.state /\ h.pins < Limit \div 4
        entry == [index |-> h.count, sample |-> s, pinned |-> pinned]
        seen == [h EXCEPT !.count = @ + 1, !.state = StateOf(s), !.latest = <<entry>>]
        kept == [seen EXCEPT !.entries = Append(@, entry), !.pins = @ + (IF pinned THEN 1 ELSE 0)] IN
    IF ~pinned /\ h.count % h.stride # 0 THEN seen
    ELSE IF Len(kept.entries) >= Limit THEN Thin(kept) ELSE kept

\* Iteration: the latest sample comes last, kept or not.
Stored(h) ==
    LET extra == h.latest # <<>> /\ (h.entries = <<>> \/ Last(h.entries) # h.latest[1])
        entries == IF extra THEN h.entries \o h.latest ELSE h.entries IN
    [i \in DOMAIN entries |-> entries[i].sample]

\* A checkpoint's report takes some of them, evenly, with the first and last.
Picked(snapshots) ==
    LET n == Len(snapshots) IN
    IF n <= Checkpoint THEN snapshots
    ELSE [i \in 1..Checkpoint |-> snapshots[1 + ((i - 1) * (n - 1)) \div (Checkpoint - 1)]]

\* An export too large for the contract keeps every other snapshot, and the last.
Halved(snapshots) ==
    Selected(snapshots, {i \in DOMAIN snapshots : i % 2 = 1 \/ i = Len(snapshots)})

\* build_report, for an export and for a checkpoint.
Report(snapshots) == [snapshots |-> snapshots, facts |-> facts]

-----------------------------------------------------------------------------
(* The timeline *)

NoMarks == [log |-> <<>>, rank |-> 0, unreadable |-> FALSE, shown |-> <<>>]

\* _accept_snapshot: a failed sample shows nothing new; a pause is marked at
\* its edges, and a signal when it appears, changes tier or clears.
Accept(m, s) ==
    LET previous == m.shown
        Turned(mark, rank) == <<[mark |-> mark, rank |-> rank]>>
        pausing == IF previous = <<>> \/ (s.kind = "paused") = (previous[1].kind = "paused") THEN <<>>
                   ELSE Turned(IF s.kind = "paused" THEN "paused" ELSE "resumed", 0)
        access == IF s.kind = "paused" \/ previous = <<>> \/ Partial(s) = m.unreadable THEN <<>>
                  ELSE Turned(IF Partial(s) THEN "access_lost" ELSE "access_regained", 0)
        warmed == IF s.kind # "paused" /\ previous # <<>> /\ previous[1].warming /\ ~s.warming
                  THEN Turned("warmup_end", 0) ELSE <<>>
        signal == IF s.kind = "paused" \/ s.rank = m.rank THEN <<>>
                  ELSE Turned(IF s.rank = 0 THEN "cleared" ELSE "signal", s.rank) IN
    IF s.kind = "failed" THEN m
    ELSE [log |-> m.log \o pausing \o access \o warmed \o signal,
          rank |-> IF s.kind = "paused" THEN m.rank ELSE s.rank,
          unreadable |-> IF s.kind = "paused" THEN m.unreadable ELSE Partial(s),
          shown |-> <<s>>]

-----------------------------------------------------------------------------
(* Publishing *)

RecordInit ==
    /\ all = <<>> /\ turns = 0
    /\ facts = EmptyFacts /\ hist = EmptyHist /\ marks = NoMarks

\* A paused sample repeats what the last one showed; a failed one shows
\* nothing.  A target that has exited stays so.
Published(s, stamp) ==
    LET collected == SignalSamples(all)
        shown == IF s.kind = "paused" /\ collected # {} THEN all[Max(collected)] ELSE s IN
    [stamp |-> stamp, kind |-> s.kind, rank |-> shown.rank, live |-> shown.live, seen |-> shown.seen,
     value |-> shown.value, warming |-> shown.warming, judged |-> s.judged /\ s.kind = "ok", reset |-> s.reset,
     alive |-> s.alive /\ (all = <<>> \/ Last(all).alive)]

Turn(s) == all # <<>> /\ [s EXCEPT !.stamp = 0] # [Last(all) EXCEPT !.stamp = 0]

\* Two ticks later, or after the clock was set back (then the detector resets
\* its windows).
Stamps(s) ==
    IF all = <<>> THEN {10}
    ELSE IF s.reset THEN {Last(all).stamp - 3} ELSE {Last(all).stamp + 2}

Observed(s) ==
    /\ Len(all) < MaxTaken /\ s.stamp > 0
    /\ all' = Append(all, s)
    /\ facts' = ObserveFacts(facts, s)

Arrives ==
    \E raw \in Samples : \E stamp \in Stamps(raw) :
        LET s == Published(raw, stamp) IN
        /\ Observed(s)
        /\ turns' = turns + (IF Turn(s) \/ s.reset THEN 1 ELSE 0) /\ turns' <= MaxTurns
        /\ hist' = AppendSnapshot(hist, s)
        /\ marks' = Accept(marks, s)

\* The stream was full: the facts have seen the sample, nothing else will.
Evicted ==
    \E raw \in Samples : \E stamp \in Stamps(raw) :
        LET s == Published(raw, stamp) IN
        /\ Observed(s)
        /\ turns' = turns + (IF Turn(s) THEN 2 ELSE 1) /\ turns' <= MaxTurns
        /\ UNCHANGED <<hist, marks>>

RecordNext == Arrives \/ Evicted

RecordSpec == RecordInit /\ [][RecordNext]_recordVars

-----------------------------------------------------------------------------
(* Properties *)

\* Pairs of neighbours nothing came between, without a reset.
Neighbours ==
    {i \in 2..Len(all) : all[i - 1].kind = "ok" /\ all[i].kind = "ok" /\ ~all[i].reset}

Changes == Cardinality({i \in DOMAIN all : i = 1 \/ StateOf(all[i]) # StateOf(all[i - 1])})

Span(S) == SumOver([i \in S |-> Max({0, all[i].stamp - all[i - 1].stamp})])

Peak == Most({all[i].value : i \in {i \in DOMAIN all : MeasuredMetric(all[i])}})

Worst == LET episodes == AlertEpisodes(all) IN Most({episodes[i].severity : i \in DOMAIN episodes})

\* The facts, counted as the session went, are what reading back all samples
\* gives: the episodes, escalations and seconds of the signal, its worst tier,
\* the peak, the time that was evaluated, and the coverage.
\* (session_facts.py 130-233; analysis.py 188-288)
FactsMatchSamples ==
    LET episodes == AlertEpisodes(all)
        changes == SignalChanges(all)
        measured == {i \in DOMAIN all : Measured(all[i])} IN
    /\ facts.collected = Cardinality(SignalSamples(all))
    /\ facts.episodes = Cardinality(DOMAIN episodes)
    /\ facts.escalations = Cardinality({i \in DOMAIN changes : changes[i].change = "escalated"})
    /\ SignalSeconds(facts) = SumOver([i \in DOMAIN episodes |-> Max({0, episodes[i].end - episodes[i].start})])
    /\ facts.worst = Worst
    /\ facts.peak = Peak
    /\ facts.evaluated = Span({i \in Neighbours : all[i].judged})
    /\ facts.afterWarmup = Span({i \in Neighbours : ~all[i].warming /\ ~all[i - 1].warming})
    /\ facts.partial = Cardinality({i \in measured : Partial(all[i])})
    /\ FullCoverage(facts) = (/\ measured # {}
                              /\ \A i \in measured : ~Partial(all[i])
                              /\ \A i \in DOMAIN all : all[i].kind # "failed")

\* As long as every change of state has a pin, and nothing was evicted, thinning loses no
\* episode, no change of a signal, no exit and no span: what is drawn starts where it
\* started, and no measured value is drawn under the shade of a pause.
\* (history.py 24-81; analysis.py 197-280, 752-830)
EpisodesSurviveThinning ==
    LET drawn == LoadSamples(Stored(hist))
        Told(samples) == {<<AlertEpisodes(samples)[i].start, AlertEpisodes(samples)[i].severity>> :
                             i \in DOMAIN AlertEpisodes(samples)} IN
    hist.count = Len(all) /\ Changes <= Limit \div 4 /\ (\A i \in DOMAIN all : ~all[i].reset) =>
        /\ Told(drawn) = Told(all)
        /\ Range(SignalChanges(drawn)) = Range(SignalChanges(all))
        /\ {s.rank : s \in StrongestAlert(drawn)} = {s.rank : s \in StrongestAlert(all)}
        /\ Exits(drawn) = Exits(all)
        /\ WarmupSpan(drawn) = WarmupSpan(all)
        /\ PausedSpans(drawn) = PausedSpans(all)
        /\ \A shade \in PausedSpans(drawn) : \A i \in DOMAIN drawn :
              shade[1] < drawn[i].stamp /\ drawn[i].stamp < shade[2] => ChartSeries(drawn)[i] = -1

\* A report, one made smaller, and a checkpoint's sum up every sample that was taken, whatever
\* was evicted or thinned: peak, worst tier, episodes, counts, and both ends.
\* While the clock is not set back under a signal, exactly.
\* (analysis.py 477-597; session.py build_report 1103-1163; report.py 235-270)
SummaryCoversAll ==
    \A snapshots \in {Stored(hist), Picked(Stored(hist)), Halved(Stored(hist))} :
        snapshots # <<>> =>
            LET summary == Summarize(Report(snapshots))
                exact == Cardinality(DOMAIN AlertEpisodes(all))
                stamps == {all[i].stamp : i \in DOMAIN all} IN
            /\ summary.peak = Peak
            /\ summary.worst = Worst
            /\ summary.samples = Cardinality({i \in DOMAIN all : all[i].kind # "paused"})
            /\ summary.started = Min(stamps) /\ summary.ended = Max(stamps)
            /\ summary.episodes >= exact
            /\ (\A i \in DOMAIN all : ~all[i].reset) => summary.episodes = exact

\* The marks of some kinds, and the one before a mark.
Marked(kinds) == {i \in DOMAIN marks.log : marks.log[i].mark \in kinds}
Previous(S, i) == {j \in S : j < i /\ \A k \in S : k < i => k <= j}

\* The timeline tells the signals as the samples that arrived did: failures
\* and pauses clear nothing and raise nothing twice.
\* (session.py 681-743, 899-928, 995-1034)
TimelineTellsSignals ==
    LET told == Marked({"signal", "cleared"})
        pauses == Marked({"paused", "resumed"})
        Rank(i) == marks.log[i].rank IN
    /\ \A i \in told : \A j \in Previous(told, i) : Rank(i) # Rank(j)
    /\ \A i \in pauses : \A j \in Previous(pauses, i) : marks.log[i].mark # marks.log[j].mark
    /\ Len(all) = hist.count /\ SignalSamples(all) # {} =>
         all[Max(SignalSamples(all))].rank = (IF told = {} THEN 0 ELSE Rank(Max(told)))
    /\ Len(all) = hist.count =>
         Cardinality({i \in told : Rank(i) > 0 /\ \A j \in Previous(told, i) : Rank(j) = 0})
           = Cardinality(DOMAIN AlertEpisodes(all))

\* The report a session leaves is the run it watched: the facts are those of its samples,
\* thinning loses no episode, the summary counts all, and the timeline tells of every signal.
RecordIsTrue == FactsMatchSamples /\ EpisodesSurviveThinning /\ SummaryCoversAll /\ TimelineTellsSignals
=============================================================================
