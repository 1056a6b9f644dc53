------------------------------ MODULE Exercise ------------------------------
(***************************************************************************)
(* The operating exercise (service_exercise.py, service_agent_exercise.py, *)
(* service_team_exercise.py over service_operations.py): a fixed sequence  *)
(* of probes of a new team store, of its transport, of a local run and of  *)
(* an agent that is killed, and the verdict on them.  What a probe finds   *)
(* is the outside's: the store's, the host's, the agent's.                 *)
(***************************************************************************)
EXTENDS Naturals, Sequences

VARIABLES
    parts,              \* the optional parts asked for
    phase, at,          \* the phase, and the step of it that is next
    failed,             \* a recorded probe did not pass
    tainted,            \* one of this phase did not
    slow,               \* a duration over its budget was recorded
    completed,          \* the phases that returned TRUE
    recorded,           \* the phases whose rates and times are recorded and whole
    running,            \* the listeners and the agent that were started and have not ended
    crashed,            \* the agent was killed on purpose
    mistaken,           \* something was not as it must be
    verdict             \* "none", "met", "unmet"

exerciseVars == <<parts, phase, at, failed, tainted, slow, completed, recorded, running, crashed, mistaken, verdict>>

(***************************************************************************)
(* The steps of each phase.  A "probe" and a "check" must succeed, a       *)
(* "refusal" must be refused with the code expected, without a "needed"    *)
(* one the phase returns, and what is no probe ("setup") ends the phase    *)
(* with its error.                                                         *)
(***************************************************************************)
ExpirySteps == <<"probe", "check", "refusal", "refusal">>
AuthoritySteps == <<"setup", "refusal", "refusal", "probe", "setup", "refusal">> \o ExpirySteps \o <<"check">>
FaultSteps == <<"refusal", "check", "refusal", "refusal", "refusal", "setup", "probe", "check", "check">>
RecoverySteps ==
    <<"needed", "check", "refusal", "refusal", "check", "setup", "refusal", "refusal", "probe", "check",
      "refusal", "check", "refusal", "check", "probe", "setup", "refusal", "refusal", "refusal", "setup",
      "refusal", "check", "refusal", "refusal">>
TransportSteps ==
    <<"listen", "probe", "needed", "probe", "check", "setup", "check", "outage", "refusal", "check", "probe",
      "check", "listen", "check", "refusal">>
LocalSteps == <<"probe", "check", "check">>
AgentSteps ==
    <<"serve", "needed", "setup", "check", "probe", "check", "check", "setup", "check", "probe", "check",
      "check", "setup", "kill", "probe", "check", "check", "check">>

Steps ==
    [ready |-> <<"needed">>, authority |-> AuthoritySteps, faults |-> FaultSteps, recovery |-> RecoverySteps,
     transport |-> TransportSteps, local |-> LocalSteps, agent |-> AgentSteps, verdict |-> <<>>]

Team == {"ready", "authority", "faults", "recovery", "transport"}
Next(p) ==
    CASE p = "ready" -> "authority" [] p = "authority" -> "faults" [] p = "faults" -> "recovery"
      [] p = "recovery" /\ "transport" \in parts -> "transport"
      [] p = "local" /\ "agent" \in parts -> "agent"
      [] p \in {"recovery", "transport"} -> "local"
      [] OTHER -> "verdict"

ExerciseInit ==
    /\ parts \in SUBSET {"transport", "agent"}
    /\ phase = "ready" /\ at = 1 /\ failed = FALSE /\ tainted = FALSE /\ slow = FALSE
    /\ completed = {} /\ recorded = {}
    /\ running = {} /\ crashed = FALSE /\ mistaken = FALSE /\ verdict = "none"

Step == Steps[phase][at]

\* What is looked at may work, be refused as expected, fail otherwise, or
\* work too late.
Outcomes == {"value", "late", "expected", "other"}
Right(kind, found) == IF kind = "refusal" THEN found = "expected" ELSE found = "value"

\* Mutation: any error counts as the refusal that was expected.
Passed_AnyRefusal(kind, found) ==
    IF kind = "refusal" THEN found \in {"expected", "other"} ELSE found \in {"value", "late"}

Passed(kind, found) ==
    IF kind = "refusal" THEN found = "expected" ELSE found \in {"value", "late"}

(***************************************************************************)
(* A phase ends at its last step, or early, by an error or without what    *)
(* the rest needs; an early end is a failed probe of its own, and of a     *)
(* phase of the team it ends the team's.  Whatever ends it, its finally    *)
(* stops the listener or the agent that it has a handle of and waits for   *)
(* it, in vain for as long as it likes: the wait has a limit, and the stop *)
(* may itself fail, which is an early end again.  Then it checks that it   *)
(* is gone.  A phase may return TRUE though a probe of it failed, when the *)
(* probe is none of those it looks back at.                                *)
(***************************************************************************)
Early ==
    /\ failed' = TRUE /\ tainted' = FALSE /\ at' = 1 /\ running' \in SUBSET running
    /\ phase' = IF phase \in Team THEN "local" ELSE Next(phase)
    /\ UNCHANGED <<completed, recorded>>

Held == CASE phase = "transport" -> {"second listener"} [] phase = "agent" -> {"agent"} [] OTHER -> {}

\* Mutation: what outlives the wait is not looked for.
Unreleased_Unchecked(left) == FALSE

\* What the last checks of a phase find: the handle it still has is not done.
Unreleased(left) == Held \cap left # {}

AtTheEnd(wrong) ==
    /\ running' \in SUBSET running
    /\ failed' = (failed \/ wrong \/ Unreleased(running')) /\ tainted' = FALSE /\ at' = 1
    /\ phase' = Next(phase) /\ recorded' = recorded \cup {phase}
    /\ completed' \in {completed \cup {phase}} \cup IF tainted \/ wrong THEN {completed} ELSE {}

Onward(wrong) ==
    /\ at' = at + 1 /\ failed' = (failed \/ wrong) /\ tainted' = (tainted \/ wrong)
    /\ UNCHANGED <<phase, completed, recorded>>

LastStep == at = Len(Steps[phase])

Probe(found) ==
    /\ phase # "verdict" /\ Step \in {"probe", "check", "refusal", "needed"}
    /\ Step # "probe" => found # "late"
    /\ slow' = (slow \/ found = "late")
    /\ mistaken' = (mistaken \/ ~Right(Step, found))
    /\ LET wrong == ~Passed(Step, found)
       IN  \/ Step = "needed" /\ wrong /\ Early
           \/ ~(Step = "needed" /\ wrong) /\ LastStep /\ AtTheEnd(wrong)
           \/ ~(Step = "needed" /\ wrong) /\ ~LastStep /\ Onward(wrong) /\ UNCHANGED running
    /\ UNCHANGED <<parts, crashed, verdict>>

Listener == IF at = 1 THEN "first listener" ELSE "second listener"

Setup(ok) ==
    /\ phase # "verdict" /\ Step \in {"setup", "listen", "serve", "kill"}
    /\ mistaken' = (mistaken \/ ~ok)
    /\ IF ok
       THEN /\ Onward(FALSE)
            /\ running' = CASE phase = "transport" /\ Step = "listen" -> running \cup {Listener}
                            [] phase = "agent" /\ Step = "serve" -> running \cup {"agent"}
                            [] Step = "kill" -> running \ {"agent"}
                            [] OTHER -> running
            /\ crashed' = (crashed \/ Step = "kill")
       ELSE Early /\ UNCHANGED crashed
    /\ UNCHANGED <<parts, slow, verdict>>

\* The listener is stopped for an outage, and must have ended in two seconds:
\* the handle of one that has not is lost when the second is started.
Outage ==
    /\ phase # "verdict" /\ Step = "outage"
    /\ running' \in SUBSET running
    /\ LET wrong == "first listener" \in running'
       IN  Onward(wrong) /\ mistaken' = (mistaken \/ wrong)
    /\ UNCHANGED <<parts, slow, crashed, verdict>>

\* Ctrl+C is no failed probe: it unwinds the phase and ends the exercise.
\* Between the agent's start and its try, or within the finally, it leaves
\* what runs as it is; elsewhere the finally stops it, or waits in vain.
CtrlCExercise ==
    /\ verdict = "none"
    /\ phase' = "verdict" /\ running' \in SUBSET running /\ verdict' = "interrupted"
    /\ UNCHANGED <<parts, at, failed, tainted, slow, completed, recorded, crashed, mistaken>>

(***************************************************************************)
(* The gates: every phase asked for completed, the store was restored, all *)
(* rates are whole, all probes passed and all times are in their budgets.  *)
(***************************************************************************)
Asked == {"ready", "authority", "faults", "recovery", "local"} \cup parts
Gates == Asked \subseteq completed /\ Asked \subseteq recorded /\ ~failed /\ ~slow
Decide ==
    /\ phase = "verdict" /\ verdict = "none"
    /\ verdict' = IF Gates THEN "met" ELSE "unmet"
    /\ UNCHANGED <<parts, phase, at, failed, tainted, slow, completed, recorded, running, crashed, mistaken>>

ExerciseNext ==
    \/ \E found \in Outcomes : Probe(found)
    \/ \E ok \in BOOLEAN : Setup(ok)
    \/ Outage \/ CtrlCExercise \/ Decide

ExerciseSpec == ExerciseInit /\ [][ExerciseNext]_exerciseVars

-----------------------------------------------------------------------------
(***************************************************************************)
(* Whatever is refused that should work, works that should be refused, or  *)
(* is refused for another reason, is on record at once, so that "operating *)
(* prerequisites met" is only said where nothing was; and a listener or an *)
(* agent that outlives the exercise, because a wait for it had a limit or  *)
(* a stop of it failed, is on record too, unless Ctrl+C left it.           *)
(***************************************************************************)
PrerequisitesAreEarned ==
    /\ mistaken => failed \/ slow
    /\ verdict = "met" => ~mistaken /\ running = {} /\ ("agent" \in parts => crashed)
    /\ verdict = "unmet" /\ running # {} => failed
=============================================================================
