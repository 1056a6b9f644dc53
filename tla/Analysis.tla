------------------------------ MODULE Analysis ------------------------------
(***************************************************************************)
(* What reports and comparisons read out of stored samples                 *)
(* (src/src/analysis.py), as operators on sequences of samples.            *)
(*                                                                         *)
(* A sample is a record: stamp, kind ("ok", "paused" or "failed"), rank    *)
(* (the severity of its alert, 0 for none), live and seen (its processes   *)
(* and how many of them were readable), value (the total over those),      *)
(* warming and alive.  The signal resources are treated alike and apart:   *)
(* one stands for all of them.                                             *)
(***************************************************************************)
EXTENDS Integers, Sequences, FiniteSets, SequencesExt, FiniteSetsExt, Selection

Most(S) == Max(S \cup {0})

\* load_samples: in time order, and in the order they have where times are equal.
LoadSamples(snapshots) ==
    LET Sooner(i) == {j \in DOMAIN snapshots :
                        \/ snapshots[j].stamp < snapshots[i].stamp
                        \/ snapshots[j].stamp = snapshots[i].stamp /\ j < i} IN
    [n \in DOMAIN snapshots |-> snapshots[CHOOSE i \in DOMAIN snapshots : Cardinality(Sooner(i)) = n - 1]]

Measured(s) == s.kind = "ok" /\ s.live > 0

MeasuredMetric(s) == Measured(s) /\ (s.seen > 0 \/ s.live = 0)

Partial(s) == s.seen < s.live

\* Their positions: paused samples repeat the last alerts and failed ones carry none.
SignalSamples(samples) == {i \in DOMAIN samples : samples[i].kind = "ok"}

\* The signal of the last sample before.
Before(samples, i) ==
    LET earlier == {j \in SignalSamples(samples) : j < i} IN
    IF earlier = {} THEN 0 ELSE samples[Max(earlier)].rank

\* Every raise from clear and every escalation, by position.
SignalChanges(samples) ==
    [i \in {i \in SignalSamples(samples) : samples[i].rank > Before(samples, i)} |->
        [stamp |-> samples[i].stamp, severity |-> samples[i].rank,
         change |-> IF Before(samples, i) = 0 THEN "raised" ELSE "escalated"]]

\* The samples with a signal that follow each other from one on.
Run(samples, i) ==
    {j \in SignalSamples(samples) : j >= i /\ \A k \in SignalSamples(samples) \cap (i..j) : samples[k].rank > 0}

\* Each run of samples with a signal, by its first, and its strongest severity.
AlertEpisodes(samples) ==
    [i \in {i \in SignalSamples(samples) : samples[i].rank > 0 /\ Before(samples, i) = 0} |->
        [start |-> samples[i].stamp, end |-> samples[Max(Run(samples, i))].stamp,
         severity |-> Max({samples[j].rank : j \in Run(samples, i)})]]

\* A total that leaves processes out is a lower bound: growth is read from
\* the complete samples once they are at least two and half of all.
Basis(samples) ==
    LET valid == Selected(samples, {i \in DOMAIN samples : MeasuredMetric(samples[i]) /\ ~samples[i].warming})
        complete == Selected(valid, {i \in DOMAIN valid : ~Partial(valid[i])}) IN
    IF valid # complete /\ Len(complete) >= 2 /\ 2 * Len(complete) >= Len(valid)
    THEN complete ELSE valid

Growth(samples) ==
    LET basis == Basis(samples) IN
    IF basis = <<>> THEN {} ELSE {Last(basis).value - basis[1].value}

\* The warm-up: from the first warming sample to the first one after it.
WarmupSpan(samples) ==
    LET warming == {i \in DOMAIN samples : samples[i].warming} IN
    IF warming = {} THEN <<>>
    ELSE <<samples[Min(warming)].stamp,
           samples[Min({Max(warming) + 1, Len(samples)})].stamp>>

\* Mutation: the peak is read from the stored samples alone.
Summarize_StoredPeak(report) ==
    LET samples == LoadSamples(report.snapshots)
        facts == report.facts
        episodes == AlertEpisodes(samples)
        active == {i \in DOMAIN samples : samples[i].kind # "paused"} IN
    [peak |-> Most({samples[i].value : i \in {i \in DOMAIN samples : MeasuredMetric(samples[i])}}),
     worst |-> Most({facts.worst} \cup {episodes[i].severity : i \in DOMAIN episodes}),
     episodes |-> Max({Cardinality(DOMAIN episodes), facts.episodes}),
     samples |-> Max({Cardinality(active), facts.collected + facts.failed}),
     started |-> Min({facts.first, samples[1].stamp}),
     ended |-> Max({facts.last, Last(samples).stamp}),
     partial |-> facts.partial > 0]

\* summarize: what the facts of the session say outranks what the stored
\* samples show, which may have been thinned.
Summarize(report) ==
    LET samples == LoadSamples(report.snapshots)
        facts == report.facts
        episodes == AlertEpisodes(samples)
        active == {i \in DOMAIN samples : samples[i].kind # "paused"} IN
    [peak |-> IF facts.peak > 0 THEN facts.peak
              ELSE Most({samples[i].value : i \in {i \in DOMAIN samples : MeasuredMetric(samples[i])}}),
     worst |-> Most({facts.worst} \cup {episodes[i].severity : i \in DOMAIN episodes}),
     episodes |-> Max({Cardinality(DOMAIN episodes), facts.episodes}),
     samples |-> Max({Cardinality(active), facts.collected + facts.failed}),
     started |-> Min({facts.first, samples[1].stamp}),
     ended |-> Max({facts.last, Last(samples).stamp}),
     partial |-> facts.partial > 0]

-----------------------------------------------------------------------------
(* Charts *)

\* The line breaks where nothing was measured.
ChartSeries(samples) ==
    [i \in DOMAIN samples |-> IF MeasuredMetric(samples[i]) THEN samples[i].value ELSE -1]

\* A paused sample shades the chart up to the sample after it; shades that
\* touch are one.
PausedSpans(samples) ==
    LET paused == {i \in DOMAIN samples : samples[i].kind = "paused"}
        First == {i \in paused : i - 1 \notin paused}
        After(i) == {j \in DOMAIN samples \ paused : j > i} IN
    {<<samples[i].stamp, samples[IF After(i) = {} THEN Len(samples) ELSE Min(After(i))].stamp>> : i \in First}

Exits(samples) ==
    {samples[i].stamp : i \in {i \in DOMAIN samples : i > 1 /\ samples[i - 1].alive /\ ~samples[i].alive}}

-----------------------------------------------------------------------------
(* Attribution: rows of a report are records of identity and delta *)

\* An identity that is there twice may carry contradictory evidence: it is
\* left out, as is whatever did not grow.
RankRows(rows, limit) ==
    LET Single(i) == \A j \in DOMAIN rows \ {i} : rows[j].identity # rows[i].identity
        usable == {i \in DOMAIN rows : Single(i) /\ rows[i].delta > 0}
        ranked == SortSeq(SetToSeq({rows[i] : i \in usable}),
                          LAMBDA a, b : \/ a.delta > b.delta
                                        \/ a.delta = b.delta /\ a.identity < b.identity) IN
    SubSeq(ranked, 1, Min({limit, Len(ranked)}))

\* What each process changed by between its first and last sample; rows that
\* contradict themselves are left out.
LifetimeRows(summaries, limit) ==
    LET valid == Selected(summaries, {i \in DOMAIN summaries :
                                        LET p == summaries[i] IN
                                        p.samples >= 2 /\ p.last >= p.first /\ p.from >= 0 /\ p.to >= 0}) IN
    RankRows([i \in DOMAIN valid |-> [identity |-> valid[i].identity,
                                      delta |-> valid[i].to - valid[i].from]], limit)

\* The alert a report is attributed by: the strongest, the latest of those.
StrongestAlert(samples) ==
    LET ranked == {samples[i] : i \in {i \in SignalSamples(samples) : samples[i].rank > 0}}
        strongest == {s \in ranked : \A t \in ranked : t.rank <= s.rank} IN
    IF ranked = {} THEN {} ELSE {CHOOSE s \in strongest : \A t \in strongest : t.stamp <= s.stamp}
=============================================================================
