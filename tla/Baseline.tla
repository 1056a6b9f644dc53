------------------------------ MODULE Baseline ------------------------------
(***************************************************************************)
(* The store of an approved baseline (src/src/baseline_control.py): one    *)
(* directory with the manifest baseline.json, whose audit is the whole     *)
(* state, and one file per report it refers to.  Processes open it one at  *)
(* a time under writer.lock, promote a group of runs, approve exceptions   *)
(* and check new runs; each may die between any two writes, the wall clock *)
(* may be set, and a stored file may be damaged by someone else.           *)
(*                                                                         *)
(* A report stands for its own digest.  The temporary files of an atomic   *)
(* replacement are left out: it happens or it does not.                    *)
(***************************************************************************)
EXTENDS Comparison

CONSTANTS
    Procs,     \* processes that use the store
    Groups,    \* the groups of runs they have
    MaxAudit,  \* MAX_AUDIT_ENTRIES
    MaxDays,   \* the 90 days an exception may last
    MaxTime,   \* bound: times of the wall clock
    MaxDamage  \* bound: stored files damaged from outside

Kinds == {"regression", "budget"}

\* What an audit, and an operation about to extend it, may hold.
Entries ==
    [action : {"promote"}, runs : Groups, accepted : BOOLEAN]
    \cup [action : {"suppress"}, resource : Resources, kind : Kinds, expires : Nat, at : Nat]

ASSUME BaselineAssumption ==
    /\ MaxAudit \in Nat /\ MaxDays \in Nat /\ MaxTime \in Nat /\ MaxDamage \in Nat
    /\ \A group \in Groups : group \in Seq(Runs(group))
    /\ None \notin Entries

VARIABLES
    today,    \* the wall clock, in days
    audit,    \* the audit in baseline.json
    stored,   \* reports with an evidence file
    damaged,  \* ... whose content no longer matches its name
    opened,   \* processes with the store open: at most one, by the lock
    cached,   \* per process, self.audit as it read it
    unpublished,     \* reports a promotion has still to publish
    pending,  \* the entry an operation is about to append, or None
    told      \* history: the runs a check just passed, or none

storeVars == <<audit, stored, damaged>>
procVars == <<opened, cached, unpublished, pending>>
baselineVars == <<today, storeVars, procVars, told>>

NotPassed == <<>>

BaselineInit ==
    /\ today = 0
    /\ audit = <<>> /\ stored = {} /\ damaged = {}
    /\ opened = {} /\ cached = [p \in Procs |-> <<>>]
    /\ unpublished = [p \in Procs |-> <<>>] /\ pending = [p \in Procs |-> None]
    /\ told = NotPassed

-----------------------------------------------------------------------------
(* What may become evidence of a baseline *)

\* The one caveat that only names the scope of a clean recipe.
Gating(caveats) == \E caveat \in caveats : caveat.kind # "clean recipe platform basics" \/ caveat.blocks # None

Sound(run) ==
    /\ run.judged /\ run.conclusive
    /\ run.ended
    /\ run.recipe # None => run.recipe.complete
    /\ run.continuous
    /\ run.provenance
    /\ \A resource \in Resources : None \notin {run.resources[resource].drift, run.peaks[resource]}
    /\ ~run.recovered /\ ~run.private

Identified(group) ==
    /\ Len(group) >= 2
    /\ \A i, j \in DOMAIN group : group[i].id # None /\ (i # j => group[i].id # group[j].id)

\* _eligible, which returns the one workload of the runs.
Eligible(group) ==
    /\ \A run \in Runs(group) : Sound(run) /\ run.workload # None
    /\ \A a, b \in Runs(group) : a.workload = b.workload
    /\ ~Gating(UNION {ComparabilityCaveats(group[pair[1]], group[pair[2]]) :
                          pair \in {two \in (1..Len(group)) \X (1..Len(group)) : two[1] < two[2]}})

BudgetsAgree(group) == \A a, b \in Runs(group) : a.budgets = b.budgets

HasSignal(group) == \E run \in Runs(group), resource \in Resources : run.resources[resource].rank > 0

Inconclusive(old, new) == GroupVerdicts(old, new) \cap {"overlap", "unknown"} # {}

Comparable(old, new) ==
    /\ ~Gating(GroupCaveats(old, new))
    /\ Comparability(GroupCaveats(old, new)) = "comparable"
    /\ ~Inconclusive(old, new)

-----------------------------------------------------------------------------
(* The state an audit stands for *)

Promotions(log) == {i \in DOMAIN log : log[i].action = "promote"}
Approved(log) == log[Greatest(Promotions(log))].runs
Budgets(log) == Approved(log)[1].budgets

\* Mutation: a promotion leaves the exceptions of the old baseline standing.
Exceptions_Kept(log) == {log[i] : i \in {j \in DOMAIN log : log[j].action = "suppress"}}

\* Promoting a baseline ends every exception to the one before.
Exceptions(log) ==
    {log[i] : i \in {j \in DOMAIN log : log[j].action = "suppress" /\ j > Greatest(Promotions(log))}}

\* _replay refuses an exception without a baseline or past the policy.
Replayable(log) ==
    \A i \in DOMAIN log : log[i].action = "suppress" =>
        /\ \E j \in Promotions(log) : j < i
        /\ log[i].at < log[i].expires /\ log[i].expires <= log[i].at + MaxDays

\* reports(): every file of the approved group is read and its digest compared.
Readable(log) == Promotions(log) # {} /\ Runs(Approved(log)) \subseteq stored \ damaged

-----------------------------------------------------------------------------
(* Opening and closing *)

AtRest(p) == p \in opened /\ pending[p] = None

\* Mutation: the lock is not taken.
Opened_Unlocked(p) ==
    /\ p \notin opened
    /\ opened' = opened \cup {p}

\* __init__: a store held by another process is refused at once.
Opened(p) ==
    /\ opened = {}
    /\ opened' = {p}

Open(p) ==
    /\ Opened(p)
    /\ Replayable(audit)
    /\ cached' = [cached EXCEPT ![p] = audit]
    /\ UNCHANGED <<today, storeVars, unpublished, pending>> /\ told' = NotPassed

Leaves(p) ==
    /\ opened' = opened \ {p}
    /\ cached' = [cached EXCEPT ![p] = <<>>]
    /\ unpublished' = [unpublished EXCEPT ![p] = <<>>] /\ pending' = [pending EXCEPT ![p] = None]

\* Closing, an error that ends the command, or the process dying: at any point.
CloseStore(p) ==
    /\ p \in opened
    /\ Leaves(p)
    /\ UNCHANGED <<today, storeVars>> /\ told' = NotPassed

-----------------------------------------------------------------------------
(* Promoting a group of runs *)

\* What only accept_regression lets through.
NeedsApproval(log, group) ==
    \/ HasSignal(group) \/ OverBudget(group[1].budgets, GroupPeaks(group)) # {}
    \/ /\ Promotions(log) # {}
       /\ \/ GroupMeasured(Approved(log), group) \in {"regressed", "mixed"}
          \/ OverBudget(Budgets(log), GroupPeaks(group)) # {}

Promote(p, group, accepted) ==
    /\ AtRest(p)
    /\ Identified(group) /\ Eligible(group) /\ BudgetsAgree(group)
    /\ Promotions(cached[p]) # {} =>
           /\ Readable(cached[p]) /\ Independent(Approved(cached[p]), group)
           /\ Comparable(Approved(cached[p]), group)
    /\ NeedsApproval(cached[p], group) => accepted
    /\ unpublished' = [unpublished EXCEPT ![p] = group]
    /\ pending' = [pending EXCEPT ![p] = [action |-> "promote", runs |-> group, accepted |-> accepted]]
    /\ UNCHANGED <<today, storeVars, opened, cached>> /\ told' = NotPassed

\* _publish_object: a file already there must still match its name.
Publish(p) ==
    /\ p \in opened /\ unpublished[p] # <<>>
    /\ Head(unpublished[p]) \notin damaged
    /\ stored' = stored \cup {Head(unpublished[p])}
    /\ unpublished' = [unpublished EXCEPT ![p] = Tail(unpublished[p])]
    /\ UNCHANGED <<today, audit, damaged, opened, cached, pending>> /\ told' = NotPassed

\* Mutation: the manifest is replaced before the evidence is written.
Ready_Early(p) == p \in opened /\ pending[p] # None
Ready(p) == p \in opened /\ pending[p] # None /\ unpublished[p] = <<>>

Stamped(entry) == IF entry.action = "promote" THEN entry ELSE [entry EXCEPT !.at = today]

\* _append: the new audit must replay before it replaces the manifest; an
\* audit at its limit, or an exception the clock overtook, is an error.
AppendEntry(p) ==
    LET log == Append(cached[p], Stamped(pending[p]))
    IN /\ Ready(p)
       /\ Len(cached[p]) < MaxAudit /\ Replayable(log)
       /\ audit' = log
       /\ cached' = [cached EXCEPT ![p] = log]
       /\ pending' = [pending EXCEPT ![p] = None] /\ unpublished' = [unpublished EXCEPT ![p] = <<>>]
       /\ UNCHANGED <<today, stored, damaged, opened>> /\ told' = NotPassed

-----------------------------------------------------------------------------
(* Exceptions and checks *)

Suppress(p, resource, kind, expires) ==
    /\ AtRest(p)
    /\ Readable(cached[p])
    /\ today < expires /\ expires <= today + MaxDays
    /\ pending' = [pending EXCEPT ![p] = [action |-> "suppress", resource |-> resource, kind |-> kind,
                                          expires |-> expires, at |-> today]]
    /\ UNCHANGED <<today, storeVars, opened, cached, unpublished>> /\ told' = NotPassed

Found(old, new, budgets) ==
    {[resource |-> r, kind |-> "regression"] : r \in {s \in Resources : GroupVerdict(old, new, s) = "regressed"}}
    \cup {[resource |-> r, kind |-> "budget"] : r \in OverBudget(budgets, GroupPeaks(new))}

Suppressed(log, finding) ==
    \E e \in Exceptions(log) : e.expires > today /\ e.resource = finding.resource /\ e.kind = finding.kind

\* No exception waives what is missing: 3 outranks both findings.
CheckCode(log, group) ==
    LET left == {f \in Found(Approved(log), group, Budgets(log)) : ~Suppressed(log, f)}
        kinds == {f.kind : f \in left}
    IN IF ~Identified(group) THEN 2
       ELSE IF ~Eligible(group) THEN 3
       ELSE IF ~Readable(log) \/ ~Independent(Approved(log), group) THEN 2
       ELSE IF ~Comparable(Approved(log), group) THEN 3
       ELSE IF "regression" \in kinds THEN 1 ELSE IF "budget" \in kinds THEN 4 ELSE 0

\* Without the budgets a caller may set for one check.
Check(p, group) ==
    /\ AtRest(p)
    /\ Promotions(cached[p]) # {}
    /\ told' = IF CheckCode(cached[p], group) = 0 THEN group ELSE NotPassed
    /\ UNCHANGED <<today, storeVars, procVars>>

-----------------------------------------------------------------------------
SetClock ==
    /\ today' \in (0..MaxTime) \ {today}
    /\ UNCHANGED <<storeVars, procVars>> /\ told' = NotPassed

Damage(run) ==
    /\ run \in stored \ damaged /\ Cardinality(damaged) < MaxDamage
    /\ damaged' = damaged \cup {run}
    /\ UNCHANGED <<today, audit, stored, procVars>> /\ told' = NotPassed

Operation(p) ==
    \/ Open(p) \/ CloseStore(p) \/ Publish(p) \/ AppendEntry(p)
    \/ \E group \in Groups : Check(p, group) \/ \E accepted \in BOOLEAN : Promote(p, group, accepted)
    \/ \E resource \in Resources, kind \in Kinds, expires \in 1..(MaxTime + MaxDays) :
           Suppress(p, resource, kind, expires)

BaselineNext == (\E p \in Procs : Operation(p)) \/ SetClock \/ (\E run \in stored : Damage(run))

BaselineSpec == BaselineInit /\ [][BaselineNext]_baselineVars

-----------------------------------------------------------------------------
(* Whatever process died where: the manifest opens, and every report the   *)
(* approved baseline refers to was published before it.                    *)
BaselineReadable ==
    /\ Replayable(audit)
    /\ \A i \in Promotions(audit) : Runs(audit[i].runs) \subseteq stored

\* An approval once recorded is never lost to another writer.
AuditOnlyGrows ==
    [][/\ Len(audit) <= Len(audit')
       /\ \A i \in DOMAIN audit : audit'[i] = audit[i]]_audit

(* A check that passed compared usable evidence with the baseline of its   *)
(* time, and whatever was worse or over budget then had an exception       *)
(* approved for that baseline and not yet expired; with none the grouped   *)
(* diff of the same runs passes too.                                       *)
PassIsEarned ==
    told # NotPassed =>
        LET base == Greatest(Promotions(audit))
            found == Found(audit[base].runs, told, audit[base].runs[1].budgets)
        IN /\ Readable(audit)
           /\ \A f \in found : \E i \in base + 1..Len(audit) :
                  /\ audit[i].action = "suppress" /\ audit[i].resource = f.resource /\ audit[i].kind = f.kind
                  /\ today < audit[i].expires
           /\ found = {} => GroupExit(audit[base].runs, told, TRUE, audit[base].runs[1].budgets) = 0

\* Runs without a leak signal, within their own budgets.
Blameless(group) == ~HasSignal(group) /\ OverBudget(group[1].budgets, GroupPeaks(group)) = {}

\* Runs as good as those before, and within the budgets of those.
NoWorse(old, new) ==
    /\ GroupMeasured(old, new) \in {"improved", "unchanged"}
    /\ OverBudget(old[1].budgets, GroupPeaks(new)) = {}

(* No baseline is replaced by a worse one, and none with a leak signal or  *)
(* over its own budget begins, unless somebody accepted just that.         *)
OnlyApprovedGetsWorse ==
    \A i \in Promotions(audit) :
        \/ audit[i].accepted
        \/ /\ Blameless(audit[i].runs)
           /\ \A j \in Promotions(audit) :
                  (j < i /\ \A k \in Promotions(audit) : k <= j \/ k >= i) =>
                      NoWorse(audit[j].runs, audit[i].runs)

(* Somebody answers for all that is worse: what passes and what becomes a  *)
(* baseline is no worse than the one before, or was approved as it is.     *)
ApprovalsHold == PassIsEarned /\ OnlyApprovedGetsWorse

(* The report of a comparison says nothing its runs do not support (see    *)
(* Comparison), and whoever relies on one to approve a baseline approved   *)
(* what it said.                                                           *)
ComparisonHolds == GroupedVerdictsHold /\ RefusalIsSymmetric /\ ApprovalsHold
=============================================================================
