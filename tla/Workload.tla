------------------------------ MODULE Workload ------------------------------
(***************************************************************************)
(* A workload recipe that is run (src/src/workload.py): a target, a        *)
(* readiness file it creates, and exercises that run one after another     *)
(* while the target is monitored, each a process tree of its own.          *)
(*                                                                         *)
(* HeadlessRun models the run that this one extends, Session how a target  *)
(* is stopped, TargetLog the captured output: here the target's shutdown   *)
(* ends, raises or is interrupted, and the leak evidence is one exit code. *)
(* Reading a recipe has no state; it is left out.                          *)
(***************************************************************************)
EXTENDS Naturals, Sequences

CONSTANTS
    Exercises,  \* how many exercises the recipe has
    MaxHits,    \* bound: presses of Ctrl+C
    MaxMishaps  \* bound: errors no step expects

ASSUME WorkloadAssumption == Exercises \in Nat /\ MaxHits \in Nat /\ MaxMishaps \in Nat

VARIABLES
    stage,       \* where the run is
    waits,       \* whether the recipe has a readiness file
    state,       \* workflow["state"]
    readiness,   \* workflow["readiness"]
    outcomes,    \* workflow["exercise"]
    child,       \* the tree of the last exercise: "none", "running", "finished" or "gone"
    manager,     \* _exercise_manager is not None
    childRecord, \* workflow["exercise_cleanup"]
    pending,     \* the exception that is unwinding: "none", "failure", "error" or "ctrl-c"
    cancelled,   \* _interrupted
    broken,      \* what session_exit_code takes for an error of the monitor
    evidence,    \* the exit code of the policies on leaks and budgets
    exported,    \* workload state in the report on disk, or "none"
    status,      \* the exit code
    hits, mishaps

progressVars == <<state, readiness, outcomes>>
childVars == <<child, manager, childRecord>>
workloadVars == <<stage, waits, progressVars, childVars, pending, cancelled, broken,
                  evidence, exported, status, hits, mishaps>>

NoStatus == 999

WorkloadInit ==
    /\ stage = "start" /\ waits \in BOOLEAN
    /\ state = "not_started" /\ readiness = "not_started" /\ outcomes = <<>>
    /\ child = "none" /\ manager = FALSE /\ childRecord = "none"
    /\ pending = "none" /\ cancelled = FALSE /\ broken = FALSE /\ evidence \in {0, 1, 3}
    /\ exported = "none" /\ status = NoStatus /\ hits = 0 /\ mishaps = 0

Advance(next) == stage' = next
CtrlC == hits < MaxHits /\ hits' = hits + 1 /\ UNCHANGED mishaps
Mishap == mishaps < MaxMishaps /\ mishaps' = mishaps + 1 /\ UNCHANGED hits
Untroubled == UNCHANGED <<hits, mishaps>>

\* The end is not near: nothing is exported or decided yet.
Early == UNCHANGED <<waits, evidence, exported, status>>

-----------------------------------------------------------------------------
(* Starting the target *)

StartTarget ==
    /\ stage = "start" /\ Advance("readiness")
    /\ state' = "running" /\ readiness' = IF waits THEN "waiting" ELSE "not_requested"
    /\ Untroubled /\ Early /\ UNCHANGED <<outcomes, childVars, pending, cancelled, broken>>

\* The marker is there already: the launch is refused.
StaleMarker ==
    /\ stage = "start" /\ waits /\ Advance("stop exercise")
    /\ state' = "failed" /\ readiness' = "stale_file"
    /\ Untroubled /\ Early /\ UNCHANGED <<outcomes, childVars, pending, cancelled, broken>>

\* start() shuts down before the exception goes to run(), which does it again.
StartBreaks ==
    /\ stage = "start" /\ Advance("stop exercise")
    /\ \/ Mishap /\ state' = "startup_failed" /\ broken' = TRUE /\ UNCHANGED cancelled
       \/ CtrlC /\ state' = "interrupted" /\ cancelled' = TRUE /\ UNCHANGED broken
    /\ Early /\ UNCHANGED <<readiness, outcomes, childVars, pending>>

-----------------------------------------------------------------------------
(* _monitor *)

Ready ==
    /\ stage = "readiness" /\ Advance("next")
    /\ readiness' = IF waits THEN "ready" ELSE readiness
    /\ Untroubled /\ Early /\ UNCHANGED <<state, outcomes, childVars, pending, cancelled, broken>>

\* _tick: a time is up, the target is gone, or its output cannot be stored.
NotReady ==
    /\ (stage = "readiness" /\ waits) \/ stage = "monitor"
    /\ Advance("unwind") /\ pending' = "failure"
    /\ Untroubled /\ Early /\ UNCHANGED <<progressVars, childVars, cancelled, broken>>

MonitorBreaks ==
    /\ stage \in {"readiness", "monitor"} /\ Advance("unwind")
    /\ \/ Mishap /\ pending' = "error"
       \/ CtrlC /\ pending' = "ctrl-c"
    /\ Early /\ UNCHANGED <<progressVars, childVars, cancelled, broken>>

Exercise ==
    /\ stage = "next" /\ Len(outcomes) < Exercises /\ Advance("exercise")
    /\ outcomes' = Append(outcomes, "running")
    /\ child' \in {"none", "running"} /\ manager' = TRUE
    /\ Untroubled /\ Early /\ UNCHANGED <<state, readiness, childRecord, pending, cancelled, broken>>

\* It finished with the exit code expected of it, leaving other processes
\* of its tree behind or not.
ExerciseDone ==
    /\ stage = "exercise" /\ child = "running" /\ Advance("clean")
    /\ outcomes' = [outcomes EXCEPT ![Len(outcomes)] = "complete"] /\ child' \in {"finished", "gone"}
    /\ Untroubled /\ Early /\ UNCHANGED <<state, readiness, manager, childRecord, pending, cancelled, broken>>

\* It could not be launched or watched, took too long or went wrong.
ExerciseBreaks ==
    /\ stage = "exercise" /\ Advance("clean")
    /\ \/ Untroubled /\ pending' = "failure"
       \/ CtrlC /\ pending' = "ctrl-c"
    /\ Early /\ UNCHANGED <<progressVars, childVars, cancelled, broken>>

Alive == child \in {"running", "finished"}

\* Mutation: the caller is told that nothing is left.
Told_AllGone(left) == TRUE
Told(left) == ~left

\* _cleanup_exercise: terminate, then kill what is left.  Ctrl+C in one of
\* them, and then in the other, ends it before or after it made its record.
CleanExercise(clean, raised) ==
    \/ /\ ~manager /\ UNCHANGED childVars /\ clean /\ raised = "none" /\ Untroubled
    \/ /\ manager
       /\ \E left \in IF Alive THEN BOOLEAN ELSE {FALSE} :
            /\ child' = IF left THEN child ELSE IF child = "none" THEN "none" ELSE "gone"
            /\ \/ /\ manager' = left /\ childRecord' = IF left THEN "incomplete" ELSE "complete"
                  /\ \/ raised = "none" /\ clean = Told(left) /\ Untroubled
                     \/ raised = "ctrl-c" /\ CtrlC /\ ~clean
               \/ /\ raised = "ctrl-c" /\ Alive /\ hits + 1 < MaxHits /\ hits' = hits + 2
                  /\ UNCHANGED <<manager, childRecord, mishaps>> /\ ~clean

\* A failed cleanup is a failure, and hides what was unwinding.
Clean ==
    /\ stage = "clean"
    /\ \E clean \in BOOLEAN, raised \in {"none", "ctrl-c"} :
         /\ CleanExercise(clean, raised)
         /\ pending' = CASE raised # "none" -> raised [] raised = "none" /\ ~clean -> "failure" [] OTHER -> pending
         /\ Advance(IF pending' = "none" THEN "next" ELSE "unwind")
    /\ Early /\ UNCHANGED <<progressVars, cancelled, broken>>

Completed ==
    /\ stage = "next" /\ Len(outcomes) = Exercises /\ Advance("monitor") /\ state' = "complete"
    /\ Untroubled /\ Early /\ UNCHANGED <<readiness, outcomes, childVars, pending, cancelled, broken>>

MonitorEnds ==
    /\ stage = "monitor" /\ Advance("stop exercise")
    /\ Untroubled /\ Early /\ UNCHANGED <<progressVars, childVars, pending, cancelled, broken>>

\* The handlers of _monitor and of run.
Unwind ==
    /\ stage = "unwind" /\ Advance("stop exercise") /\ pending' = "none"
    /\ state' = CASE pending = "failure" -> "failed" [] pending = "error" -> "monitor_error" [] OTHER -> "interrupted"
    /\ readiness' = IF pending = "failure" /\ readiness = "waiting" THEN "failed" ELSE readiness
    /\ outcomes' = IF pending = "failure"
                   THEN [i \in DOMAIN outcomes |-> IF outcomes[i] = "running" THEN "failed" ELSE outcomes[i]]
                   ELSE outcomes
    /\ cancelled' = (cancelled \/ pending = "ctrl-c") /\ broken' = (broken \/ pending = "error")
    /\ Untroubled /\ Early /\ UNCHANGED childVars

-----------------------------------------------------------------------------
(* shutdown, the last samples, and the report *)

StopExercise ==
    /\ stage = "stop exercise" /\ Advance("stop target")
    /\ \E clean \in BOOLEAN, raised \in {"none", "ctrl-c"} :
         /\ CleanExercise(clean, raised)
         /\ pending' = raised
         /\ state' = IF raised = "none" /\ ~clean THEN "failed" ELSE state
    /\ Early /\ UNCHANGED <<readiness, outcomes, cancelled, broken>>

\* An error of the target's cleanup hides a Ctrl+C before it.
StopTarget ==
    /\ stage = "stop target" /\ Advance("last samples") /\ pending' = "none"
    /\ \E raised \in {"none", "error", "ctrl-c"} :
         LET seen == IF raised = "none" THEN pending ELSE raised IN
         /\ CASE raised = "error" -> Mishap [] raised = "ctrl-c" -> CtrlC [] OTHER -> Untroubled
         /\ cancelled' = (cancelled \/ seen = "ctrl-c")
         /\ state' = IF seen = "error" THEN "failed" ELSE state
    /\ Early /\ UNCHANGED <<readiness, outcomes, childVars, broken>>

\* Ctrl+C here goes to the caller of run, and no report is written.
LastSamples ==
    /\ stage = "last samples"
    /\ \/ Advance("export") /\ Untroubled /\ UNCHANGED state
       \/ Advance("export") /\ Mishap /\ state' = "failed"
       \/ Advance("propagated") /\ CtrlC /\ UNCHANGED state
    /\ Early /\ UNCHANGED <<readiness, outcomes, childVars, pending, cancelled, broken>>

Export ==
    /\ stage = "export" /\ Advance("exit")
    /\ \/ exported' = state /\ Untroubled /\ UNCHANGED <<cancelled, broken>>
       \/ Mishap /\ broken' = TRUE /\ UNCHANGED <<exported, cancelled>>
       \/ CtrlC /\ cancelled' = TRUE /\ broken' = TRUE /\ exported' \in {"none", state}
    /\ UNCHANGED <<waits, progressVars, childVars, pending, evidence, status>>

\* A breach outranks an error of the monitor, but not a start that failed.
SessionStatus == IF broken /\ (state = "startup_failed" \/ evidence # 1) THEN 2 ELSE evidence

ExitWorkload ==
    /\ stage = "exit" /\ Advance("over")
    /\ status' = CASE cancelled -> 130 [] ~cancelled /\ state = "failed" -> 6 [] OTHER -> SessionStatus
    /\ Untroubled /\ UNCHANGED <<waits, progressVars, childVars, pending, cancelled, broken, evidence, exported>>

WorkloadNext ==
    \/ StartTarget \/ StaleMarker \/ StartBreaks
    \/ Ready \/ NotReady \/ MonitorBreaks \/ Exercise \/ ExerciseDone \/ ExerciseBreaks \/ Clean
    \/ Completed \/ MonitorEnds \/ Unwind
    \/ StopExercise \/ StopTarget \/ LastSamples \/ Export \/ ExitWorkload

WorkloadSpec == WorkloadInit /\ [][WorkloadNext]_workloadVars

-----------------------------------------------------------------------------
(* The exit code is one a pipeline may act on: a policy is only applied to *)
(* a workflow that was completed, a pass leaves no exercise running, and   *)
(* the report on disk does not call a failed workflow complete             *)
(* (WorkloadRunner.run, exit_status).                                      *)
WorkloadVerdictEarned ==
    /\ status \in {0, 3} =>
         /\ state = "complete" /\ readiness = IF waits THEN "ready" ELSE "not_requested"
         /\ outcomes = [i \in 1..Exercises |-> "complete"]
         /\ ~Alive /\ ~manager
    /\ status # NoStatus /\ Alive => status \in {6, 130}
    /\ status = 6 => exported \in {"none", "failed"}
=============================================================================
