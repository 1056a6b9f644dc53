--------------------------- MODULE MCBuildMachine ---------------------------
(***************************************************************************)
(* What runs on a machine that builds and tests: DrainTracer in its        *)
(* terminal, on Linux, and the store of an approved baseline, with the     *)
(* pairs and groups of finished runs compared in every way.  They share no *)
(* state: `part` says which of them a behaviour is of.                     *)
(***************************************************************************)
EXTENDS MCProcessControl, Baseline

VARIABLE part

Measured(rank, drift) == [rank |-> rank, drift |-> drift]

Plain(id) ==
    [id |-> id, target |-> "app", workload |-> "w", arguments |-> 0, operations |-> None,
     recipe |-> [choices |-> "c", clean |-> TRUE, complete |-> TRUE],
     machine |-> [counters |-> "c", capacity |-> 1],
     private |-> FALSE, recovered |-> FALSE, judged |-> TRUE, partial |-> {}, thinned |-> FALSE, exact |-> TRUE,
     settings |-> "s", duration |-> 4,
     resources |-> [r \in Resources |-> Measured(0, 0)], peaks |-> [r \in Resources |-> 4],
     budgets |-> [r \in Resources |-> IF r = "memory" THEN 5 ELSE None],
     conclusive |-> TRUE, ended |-> TRUE, continuous |-> TRUE, provenance |-> TRUE]

Run(id, rank, drift) == [Plain(id) EXCEPT !.resources["memory"] = Measured(rank, drift)]
Heavy(id, drift) ==
    [Run(id, 0, drift) EXCEPT !.peaks["memory"] = 6, !.budgets["memory"] = None]

\* Runs that measure the same, one group over the other's budget, runs that
\* grow and show a signal, and a pair whose evidence is incomplete.
MCGroups ==
    {<<Run(1, 0, 0), Run(2, 0, 0)>>,
     <<Heavy(3, 0), Heavy(4, 1)>>,
     <<Run(5, 1, 30), Run(6, 1, 40)>>,
     <<Run(9, 0, 0), [Run(10, 0, 0) EXCEPT !.judged = FALSE]>>}

\* Single runs that leave out or change what makes them one experiment.
MCSingles ==
    LET base == Plain(1)
    IN {base, [base EXCEPT !.workload = None], [base EXCEPT !.arguments = None], [base EXCEPT !.operations = 10],
        [base EXCEPT !.operations = 12], [base EXCEPT !.recipe = None], [base EXCEPT !.recipe.clean = FALSE],
        [base EXCEPT !.recipe.complete = FALSE], [base EXCEPT !.machine = None],
        [base EXCEPT !.machine.counters = "d"], [base EXCEPT !.machine.capacity = None],
        [base EXCEPT !.private = TRUE], [base EXCEPT !.partial = Resources], [base EXCEPT !.judged = FALSE],
        [base EXCEPT !.duration = 1], [base EXCEPT !.duration = 9], [base EXCEPT !.settings = "t"]}

MCDrifts == {-15, -1, 0, 1, 2, 15, 17}
MCRanks == 0..2

(* Unordered pairs of measurements; the runs of a group have no order.     *)
Twos == {two \in (MCRanks \X MCDrifts) \X (MCRanks \X MCDrifts) :
            two[1][1] < two[2][1] \/ (two[1][1] = two[2][1] /\ two[1][2] <= two[2][2])}
MCCompared == {<<Run(1, two[1][1], two[1][2]), Run(2, two[2][1], two[2][2])>> : two \in Twos}

BuildInit == part \in {"processes", "baseline"} /\ Init /\ BaselineInit

Processes == part = "processes" /\ Next /\ UNCHANGED <<part, baselineVars>>
Approving == part = "baseline" /\ BaselineNext /\ UNCHANGED <<part, vars>>

BuildSpec == BuildInit /\ [][Processes \/ Approving]_<<part, vars, baselineVars>>
=============================================================================
