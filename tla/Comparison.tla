----------------------------- MODULE Comparison -----------------------------
(***************************************************************************)
(* Comparing finished reports: one with one (src/src/report_diff.py),      *)
(* group with group (repeat_comparison.py), and the exit codes of both     *)
(* (diff_command.py).                                                      *)
(*                                                                         *)
(* A report is a record of what the comparison reads of it.  What a report *)
(* may leave out is None; a workload's recipe, its settings and machine    *)
(* are values compared for equality.  Drifts are integers, in units one    *)
(* tenth of which the noise band can tell.                                 *)
(***************************************************************************)
EXTENDS Integers, FiniteSets, Sequences, TLC

CONSTANTS
    Resources,   \* RESOURCES
    DriftFloor,  \* DRIFT_FLOOR: drift too slow to matter
    None,        \* what a report does not say
    Reports,    \* reports compared one with one
    Compared     \* groups of runs compared with each other

Runs(group) == {group[i] : i \in DOMAIN group}

\* A rank is 0 for what is no severity, a number finite or None.
IsReport(run) ==
    /\ run.duration \in Nat /\ run.operations \in Nat \cup {None}
    /\ run.private \in BOOLEAN /\ run.recovered \in BOOLEAN
    /\ \A resource \in Resources :
           run.resources[resource].rank \in Nat /\ run.resources[resource].drift \in Int \cup {None}

ASSUME ComparisonAssumption ==
    /\ DriftFloor \in Nat /\ None \notin Int
    /\ \A run \in Reports : IsReport(run)
    /\ \A group \in Compared :
           group \in Seq(Runs(group)) /\ group # <<>> /\ \A run \in Runs(group) : IsReport(run)

\* What blocks nothing is not what blocks.
ASSUME CaveatAssumption == None # "not comparable" /\ None # "insufficient coverage"

Larger(a, b) == IF a > b THEN a ELSE b
Size(x) == IF x < 0 THEN -x ELSE x
Least(S) == CHOOSE x \in S : \A y \in S : x <= y
Greatest(S) == CHOOSE x \in S : \A y \in S : x >= y

\* Ten times the band: at least the floor, else a tenth of the larger drift.
NoiseBand(before, after) == Larger(10 * DriftFloor, Larger(Size(before), Size(after)))

-----------------------------------------------------------------------------
(* Two reports *)

SignalChange(before, after) ==
    IF before = 0 /\ after = 0 THEN "clear"
    ELSE IF after = 0 THEN "resolved"
    ELSE IF before = 0 THEN "new"
    ELSE IF after < before THEN "eased"
    ELSE IF after > before THEN "worsened" ELSE "persists"

\* _drift_trend: faster drift only matters when the newer run grows.
DriftTrend(before, after) ==
    IF None \in {before, after} THEN "unknown"
    ELSE IF 10 * Size(after - before) <= NoiseBand(before, after) THEN "unchanged"
    ELSE IF after < before THEN "improved"
    ELSE IF after > DriftFloor THEN "regressed" ELSE "unchanged"

ResourceComparison(before, after, resource) ==
    LET old == before.resources[resource]
        new == after.resources[resource]
    IN [signal |-> SignalChange(old.rank, new.rank), trend |-> DriftTrend(old.drift, new.drift)]

Improved(item) == item.signal \in {"resolved", "eased"} \/ item.trend = "improved"
Regressed(item) == item.signal \in {"new", "worsened"} \/ item.trend = "regressed"

\* check_budgets: an unmeasured peak exceeds nothing.
OverBudget(budgets, peaks) ==
    {resource \in Resources :
        /\ budgets[resource] # None /\ peaks[resource] # None
        /\ peaks[resource] > budgets[resource]}

MeasuredVerdict(before, after) ==
    LET items == {ResourceComparison(before, after, resource) : resource \in Resources}
        better == \E item \in items : Improved(item)
        worse == \E item \in items : Regressed(item)
    IN IF better /\ worse THEN "mixed"
       ELSE IF worse THEN "regressed"
       ELSE IF better THEN "improved" ELSE "unchanged"

-----------------------------------------------------------------------------
(* Why two reports may not be runs of one experiment *)

Caveat(when, kind, blocks) == IF when THEN {[kind |-> kind, blocks |-> blocks]} ELSE {}

Differ(a, b) == None \notin {a, b} /\ a # b
OnlyOne(a, b) == (a = None) # (b = None)

ExperimentCaveats(a, b) ==
    UNION {Caveat(a.workload # b.workload, "workload", "not comparable"),
           Caveat(Differ(a.arguments, b.arguments) \/ OnlyOne(a.arguments, b.arguments),
                  "arguments", "not comparable"),
           Caveat(\/ OnlyOne(a.operations, b.operations)
                  \/ /\ None \notin {a.operations, b.operations}
                     /\ 10 * Size(a.operations - b.operations) > Larger(a.operations, b.operations),
                  "operations", "not comparable")}

RecipeUnsupported(a, b) == {a.recipe, b.recipe} # {None} /\ None \in {a.recipe, b.recipe}

\* _workload_caveats: the values of a selected environment are never
\* recorded, so only a clean one can be shown to match.
RecipeCaveats(a, b) ==
    IF RecipeUnsupported(a, b) THEN Caveat(TRUE, "recipe", "not comparable")
    ELSE IF a.recipe = None THEN {}
    ELSE UNION {Caveat(a.recipe.choices # b.recipe.choices, "recipe", "not comparable"),
                IF a.recipe.clean /\ b.recipe.clean THEN Caveat(TRUE, "clean recipe platform basics", None)
                ELSE Caveat(TRUE, "recipe environment", "not comparable"),
                Caveat(~a.recipe.complete \/ ~b.recipe.complete, "recipe outcome", "insufficient coverage")}

OwnCaveats(r) ==
    UNION {Caveat(r.private, "privacy", "not comparable"),
           Caveat(r.recovered, "recovered checkpoint", "insufficient coverage"),
           Caveat(~r.judged, "inconclusive", "insufficient coverage"),
           Caveat(r.partial # {}, "partial coverage", "insufficient coverage"),
           Caveat(r.thinned /\ ~r.exact, "thinned", None)}

\* Windows, interval, warm-up and thresholds; an older report records none.
SettingsDiffer(a, b) == a.settings # b.settings

\* What counts what blocks; more processors or memory only qualifies.
EnvironmentCaveats(a, b) ==
    IF None \in {a.machine, b.machine} THEN {}
    ELSE LET differ == {key \in {"counters", "capacity"} : Differ(a.machine[key], b.machine[key])}
         IN Caveat(differ # {}, "environment", IF "counters" \in differ THEN "not comparable" ELSE None)

ComparabilityCaveats(a, b) ==
    UNION {Caveat(a.target # b.target, "target", "not comparable"),
           ExperimentCaveats(a, b), RecipeCaveats(a, b), OwnCaveats(a), OwnCaveats(b),
           Caveat(SettingsDiffer(a, b), "settings", "not comparable"),
           Caveat(2 * Least({a.duration, b.duration}) < Larger(a.duration, b.duration),
                  "duration", "not comparable"),
           EnvironmentCaveats(a, b)}

\* The worst caveat decides; that of another experiment outranks the rest.
Comparability(caveats) ==
    LET blocks == {caveat.blocks : caveat \in caveats}
    IN IF "not comparable" \in blocks THEN "not comparable"
       ELSE IF "insufficient coverage" \in blocks THEN "insufficient coverage" ELSE "comparable"

-----------------------------------------------------------------------------
(* Two groups of independent runs *)

Drifts(group, resource) == [i \in DOMAIN group |-> group[i].resources[resource].drift]
Ranks(group, resource) == {run.resources[resource].rank : run \in Runs(group)}

\* Spread.of: the extremes, and twice the median.
Spread(values) ==
    LET drifts == {values[i] : i \in DOMAIN values}
        kth(k) == Least({x \in drifts : k <= Cardinality({i \in DOMAIN values : values[i] <= x})})
        n == Len(values)
    IN [low |-> Least(drifts), high |-> Greatest(drifts), median2 |-> kth((n + 1) \div 2) + kth(n \div 2 + 1)]

\* No report counts twice; one without an ID is told apart by its path.
Independent(old, new) ==
    LET runs == old \o new
    IN \A i, j \in DOMAIN runs : i # j => runs[i].id = None \/ runs[i].id # runs[j].id

\* The caveats of every pair, those within a group too.
GroupCaveats(old, new) ==
    LET runs == old \o new
        pairs == {pair \in (1..Len(runs)) \X (1..Len(runs)) : pair[1] < pair[2]}
    IN UNION {ComparabilityCaveats(runs[pair[1]], runs[pair[2]]) : pair \in pairs}
       \cup UNION {Caveat(\E run \in Runs(runs) : run.resources[resource].drift = None,
                          "missing repeated drift", "insufficient coverage") : resource \in Resources}

\* Mutation: the medians decide, whether or not the ranges overlap.
GroupVerdict_Medians(old, new, resource) ==
    IF None \in {run.resources[resource].drift : run \in Runs(old \o new)} THEN "unknown"
    ELSE LET a == Spread(Drifts(old, resource))
             b == Spread(Drifts(new, resource))
             noise == Larger(20 * DriftFloor, Larger(Size(a.median2), Size(b.median2)))
         IN IF 10 * (b.median2 - a.median2) > noise THEN "regressed"
            ELSE IF 10 * (a.median2 - b.median2) > noise THEN "improved" ELSE "unchanged"

\* Twenty times every value, so that the noise of the medians is whole.
GroupVerdict(old, new, resource) ==
    IF None \in {run.resources[resource].drift : run \in Runs(old \o new)} THEN "unknown"
    ELSE LET a == Spread(Drifts(old, resource))
             b == Spread(Drifts(new, resource))
             oldRanks == Ranks(old, resource)
             newRanks == Ranks(new, resource)
             noise == Larger(20 * DriftFloor, Larger(Size(a.median2), Size(b.median2)))
         IN IF \/ Greatest(newRanks) > Greatest(oldRanks)
               \/ 20 * b.low > 20 * a.high + noise /\ b.low > 0
            THEN "regressed"
            ELSE IF \/ 20 * b.high < 20 * a.low - noise /\ a.low > 0
                    \/ Greatest(newRanks) < Least(oldRanks)
            THEN "improved"
            ELSE IF \/ 10 * Size(b.median2 - a.median2) > noise
                    \/ Greatest(newRanks) # Least(newRanks) \/ Greatest(oldRanks) # Least(oldRanks)
            THEN "overlap" ELSE "unchanged"

GroupVerdicts(old, new) == {GroupVerdict(old, new, resource) : resource \in Resources}

GroupMeasured(old, new) ==
    LET results == GroupVerdicts(old, new)
    IN IF "regressed" \in results THEN (IF "improved" \in results THEN "mixed" ELSE "regressed")
       ELSE IF results \cap {"overlap", "unknown"} # {} THEN "inconclusive"
       ELSE IF "improved" \in results THEN "improved" ELSE "unchanged"

\* The largest peak of any run counts against a budget.
GroupPeaks(group) ==
    [resource \in Resources |->
        LET peaked == {run.peaks[resource] : run \in Runs(group)} \ {None}
        IN IF peaked = {} THEN None ELSE Greatest(peaked)]

-----------------------------------------------------------------------------
(* Exit codes of `draintracer diff` *)

DiffCode(blocked, over, failOnRegression, verdict) ==
    IF blocked THEN 3
    ELSE IF over # {} THEN 4
    ELSE IF failOnRegression /\ verdict \in {"regressed", "mixed"} THEN 1 ELSE 0

\* run_diff: strict mode alone lets a caveat block the verdict.
DiffExit(before, after, strict, failOnRegression, budgets) ==
    DiffCode(strict /\ Comparability(ComparabilityCaveats(before, after)) # "comparable",
             OverBudget(budgets, after.peaks), failOnRegression, MeasuredVerdict(before, after))

\* _run_repeated_diff: groups are always strict; 2 is an error.
GroupExit(old, new, failOnRegression, budgets) ==
    IF Len(old) < 2 \/ Len(new) < 2 \/ ~Independent(old, new) THEN 2
    ELSE DiffCode(Comparability(GroupCaveats(old, new)) # "comparable",
                  OverBudget(budgets, GroupPeaks(new)), failOnRegression, GroupMeasured(old, new))

-----------------------------------------------------------------------------
Items(old, new, resource) ==
    {ResourceComparison(before, after, resource) : before \in Runs(old), after \in Runs(new)}

(* The verdict of two groups (compare_repeated_reports) is one every pair  *)
(* of their runs supports: an improved group has no pair that did not      *)
(* improve, an unchanged one no pair with another signal.  A regressed     *)
(* group has a pair that regressed, unless every old run was shrinking:    *)
(* then a pair counts only growth beyond the floor.                        *)
GroupedVerdictsHold ==
    \A old, new \in Compared, resource \in Resources :
        LET verdict == GroupVerdict(old, new, resource)
            items == Items(old, new, resource)
        IN /\ verdict = "improved" => \A item \in items : Improved(item)
           /\ verdict = "unchanged" => \A item \in items : item.signal \in {"clear", "persists"}
           /\ (verdict = "regressed" /\ \E run \in Runs(old) : run.resources[resource].drift >= 0) =>
                  \E item \in items : Regressed(item)

(* Strict mode refuses a pair of reports in one order exactly when it      *)
(* refuses them in the other, for the same reasons                         *)
(* (comparability_caveats); and no report is refused against itself unless *)
(* it lacks evidence of its own.                                           *)
RefusalIsSymmetric ==
    \A a, b \in Reports :
        /\ ComparabilityCaveats(a, b) = ComparabilityCaveats(b, a)
        /\ (a = b /\ Comparability(ComparabilityCaveats(a, b)) = "not comparable") =>
               a.private \/ (a.recipe # None /\ ~a.recipe.clean)
=============================================================================
