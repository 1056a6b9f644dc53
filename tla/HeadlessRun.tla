----------------------------- MODULE HeadlessRun -----------------------------
(***************************************************************************)
(* A headless run (src/src/headless.py) from its start to its exit code,   *)
(* and the report it leaves (session.py export_log, report.py).            *)
(*                                                                         *)
(* Session models how the target is handled, SessionRecord what samples    *)
(* are kept: here the evidence is what the policies ask of it.  Ctrl+C     *)
(* and errors fall into any call.                                          *)
(***************************************************************************)
EXTENDS Naturals, FiniteSets

CONSTANTS
    MaxObserved,  \* bound: samples that change the evidence
    MaxTroubles   \* bound: errors and presses of Ctrl+C

ASSUME RunAssumption == MaxObserved \in Nat /\ MaxTroubles \in Nat

VARIABLES
    step,      \* where the run is
    policy,    \* the options: which outcomes fail the run
    startup,   \* _startup_state
    evidence,  \* what the samples have shown
    observed,
    troubles,
    interrupted, runError, exportError,
    noted,     \* _monitor_errors: problems noted of the session
    report,    \* the report in memory
    saved,     \* the JSON report on disk
    stale,     \* history: the export broke off before the saved report was up to date
    code       \* the exit code the run returned

outcomeVars == <<startup, interrupted, runError, exportError, noted>>
reportVars == <<report, saved, stale>>
runVars == <<step, policy, evidence, observed, troubles, outcomeVars, reportVars, code>>

NoReport == [code |-> 0, errors |-> {}, verdict |-> "none"]
Undecided == 99

Evidence == [breached : BOOLEAN, judged : BOOLEAN, full : BOOLEAN, over : BOOLEAN, targetFailed : BOOLEAN]
Policies == [inconclusive : BOOLEAN, target : BOOLEAN, coverage : BOOLEAN]

RunInit ==
    /\ step = "start"
    /\ policy \in Policies
    /\ startup = "not_started"
    /\ evidence = [breached |-> FALSE, judged |-> FALSE, full |-> FALSE, over |-> FALSE, targetFailed |-> FALSE]
    /\ observed = 0 /\ troubles = 0
    /\ interrupted = FALSE /\ runError = {} /\ exportError = FALSE /\ noted = {}
    /\ report = NoReport /\ saved = NoReport /\ stale = FALSE /\ code = Undecided

-----------------------------------------------------------------------------
(* What the run would say of itself now *)

\* session_exit_code: the precedence the command line and the API share.
ExitCode(failedStart, breached, cancelled, failed, over, targetFailed, inconclusive) ==
    CASE failedStart -> 2
      [] ~failedStart /\ breached -> 1
      [] ~failedStart /\ ~breached /\ cancelled -> 130
      [] ~failedStart /\ ~breached /\ ~cancelled /\ failed -> 2
      [] OTHER -> IF over THEN 5 ELSE IF targetFailed THEN 4 ELSE IF inconclusive THEN 3 ELSE 0

Inconclusive ==
    \/ policy.coverage /\ ~evidence.full
    \/ policy.inconclusive /\ ~evidence.judged

ExitStatus ==
    ExitCode(startup = "failed", evidence.breached, interrupted, exportError \/ runError # {},
             evidence.over, policy.target /\ evidence.targetFailed, Inconclusive)

\* The verdict that is printed: a pass that judged nothing says so.
PrintedVerdict(status) ==
    CASE status = 0 -> IF evidence.judged THEN "pass" ELSE "inconclusive"
      [] status = 1 -> "fail"
      [] status = 2 -> "error"
      [] status = 3 -> IF policy.coverage /\ ~evidence.full THEN "coverage" ELSE "inconclusive"
      [] status = 4 -> "target"
      [] status = 5 -> "budget"
      [] OTHER -> "interrupted"

\* build_report: the session's errors, and the run's own.
Built == [code |-> ExitStatus, errors |-> noted \cup runError, verdict |-> PrintedVerdict(ExitStatus)]

-----------------------------------------------------------------------------
(* Monitoring *)

\* A sample: what was judged and breached stays so; coverage may be lost for
\* good or come with the first live sample.
Sampled ==
    /\ step \in {"start", "monitor", "poll"} /\ startup # "failed" /\ observed < MaxObserved
    /\ observed' = observed + 1
    /\ \E change \in {"breached", "judged", "over", "targetFailed"} :
         evidence' = [evidence EXCEPT ![change] = TRUE, !.full = observed = 0]
    /\ UNCHANGED <<step, policy, troubles, outcomeVars, reportVars, code>>

Quiet == UNCHANGED <<policy, evidence, observed, reportVars, code>>

Started ==
    /\ step = "start" /\ step' = "monitor" /\ startup' = "started"
    /\ Quiet /\ UNCHANGED <<troubles, interrupted, runError, exportError, noted>>

Trouble == troubles < MaxTroubles /\ troubles' = troubles + 1

\* An error ends the start: the evidence so far is exported all the same.
StartFails ==
    /\ step = "start" /\ Trouble
    /\ step' = "json" /\ startup' = "failed" /\ runError' = {"startup"}
    /\ Quiet /\ UNCHANGED <<interrupted, exportError, noted>>

\* Ctrl+C during the start, or while the last samples are processed, goes to
\* the caller.
Propagates ==
    /\ step \in {"start", "poll"} /\ Trouble
    /\ step' = "propagated" /\ startup' = (IF step = "start" THEN "failed" ELSE startup)
    /\ Quiet /\ UNCHANGED <<interrupted, runError, exportError, noted>>

\* A sampling error or a failed checkpoint is noted; monitoring goes on.
Note ==
    /\ step = "monitor" /\ Trouble /\ noted' = noted \cup {"sampling"}
    /\ Quiet /\ UNCHANGED <<step, startup, interrupted, runError, exportError>>

After == [monitor |-> "shutdown", shutdown |-> "poll", poll |-> "json"]

Proceed ==
    /\ step \in DOMAIN After /\ step' = After[step]
    /\ Quiet /\ UNCHANGED <<outcomeVars, troubles>>

\* _fail: the run goes on to stop its target and export.
Fails ==
    /\ step \in DOMAIN After /\ Trouble /\ step' = After[step]
    /\ runError' = {step}
    /\ Quiet /\ UNCHANGED <<startup, interrupted, exportError, noted>>

\* Ctrl+C while monitoring or cleaning up.
Interrupted ==
    /\ step \in {"monitor", "shutdown"} /\ Trouble /\ step' = After[step]
    /\ interrupted' = TRUE
    /\ Quiet /\ UNCHANGED <<startup, runError, exportError, noted>>

-----------------------------------------------------------------------------
(* The export: JSON first, then HTML, then JSON again if that failed *)

Keep == UNCHANGED <<policy, evidence, observed, startup, runError, code>>

JsonWritten ==
    /\ step = "json" /\ step' = "html"
    /\ report' = Built /\ saved' = Built
    /\ Keep /\ UNCHANGED <<troubles, interrupted, exportError, noted, stale>>

\* The file is replaced as a whole or not at all.
JsonFails ==
    /\ step = "json" /\ Trouble /\ step' = "exit"
    /\ exportError' = TRUE
    /\ Keep /\ UNCHANGED <<noted, interrupted, reportVars>>

\* Mutation: the export ends without a word of the interruption.
JsonInterrupted_Unmarked ==
    /\ step = "json" /\ Trouble /\ step' = "exit"
    /\ exportError' = TRUE
    /\ \/ UNCHANGED reportVars
       \/ report' = Built /\ saved' = Built /\ stale' = TRUE
    /\ Keep /\ UNCHANGED <<noted, interrupted>>

\* Ctrl+C before the file is replaced, or after that and before the HTML is
\* begun: the report that stands was built before it.
JsonInterrupted ==
    /\ step = "json" /\ Trouble /\ step' = "exit"
    /\ exportError' = TRUE /\ interrupted' = TRUE
    /\ \/ UNCHANGED reportVars
       \/ report' = Built /\ saved' = Built /\ stale' = TRUE
    /\ Keep /\ UNCHANGED noted

HtmlWritten ==
    /\ step = "html" /\ step' = "exit"
    /\ Keep /\ UNCHANGED <<troubles, interrupted, exportError, noted, reportVars>>

\* The outcome is recorded anew from what the session noted; the decision of
\* the report stands.
HtmlFails ==
    /\ step = "html" /\ Trouble /\ step' = "amend"
    /\ noted' = noted \cup {"html"}
    /\ report' = [report EXCEPT !.errors = noted']
    /\ Keep /\ UNCHANGED <<interrupted, exportError, saved, stale>>

\* Mutation: the decision is not taken again when the export is interrupted.
HtmlInterrupted_OldDecision ==
    /\ step = "html" /\ Trouble /\ step' = "amend"
    /\ interrupted' = TRUE /\ exportError' = TRUE /\ noted' = noted \cup {"html"}
    /\ report' = [report EXCEPT !.errors = noted']
    /\ Keep /\ UNCHANGED <<saved, stale>>

\* Ctrl+C while the HTML is written: the decision is taken again, with the
\* run interrupted, before the report is corrected.
HtmlInterrupted ==
    /\ step = "html" /\ Trouble /\ step' = "amend"
    /\ interrupted' = TRUE /\ exportError' = TRUE /\ noted' = noted \cup {"html"}
    /\ report' = [code |-> ExitCode(startup = "failed", evidence.breached, TRUE, runError # {},
                                    evidence.over, policy.target /\ evidence.targetFailed, Inconclusive),
                  errors |-> noted', verdict |-> report.verdict]
    /\ Keep /\ UNCHANGED <<saved, stale>>

Amended ==
    /\ step = "amend" /\ step' = "exit"
    /\ saved' = report
    /\ Keep /\ UNCHANGED <<troubles, interrupted, exportError, noted, report, stale>>

\* The first report stays; Ctrl+C may also come when it was replaced already.
AmendFails ==
    /\ step = "amend" /\ Trouble /\ step' = "exit"
    /\ stale' = TRUE
    /\ \/ /\ noted' = noted \cup {"amend"} /\ report' = [report EXCEPT !.errors = noted']
          /\ UNCHANGED <<interrupted, exportError, saved>>
       \/ /\ interrupted' = TRUE /\ exportError' = TRUE /\ saved' \in {saved, report}
          /\ UNCHANGED <<noted, report>>
    /\ Keep

Exit ==
    /\ step = "exit" /\ step' = "over"
    /\ code' = IF startup = "failed" THEN 2 ELSE ExitStatus
    /\ UNCHANGED <<policy, evidence, observed, troubles, outcomeVars, reportVars>>

RunNext ==
    \/ Sampled \/ Started \/ StartFails \/ Propagates \/ Note \/ Proceed \/ Fails \/ Interrupted
    \/ JsonWritten \/ JsonFails \/ JsonInterrupted \/ HtmlWritten \/ HtmlFails \/ HtmlInterrupted
    \/ Amended \/ AmendFails \/ Exit

RunSpec == RunInit /\ [][RunNext]_runVars

-----------------------------------------------------------------------------
(* Properties *)

\* The report on disk says the code the run exits with, even when Ctrl+C came
\* while the HTML was exported.  Only Ctrl+C in the writing of the JSON itself,
\* or of its correction, makes the run exit with 130 beside a report that holds
\* the decision at its construction; no other trouble, and no other code.
\* (session.py export_log 1061-1098; headless.py 150-200, 243-302; docs/reports.md
\* 271 "records the decision at report construction")
SavedCodeIsTrue ==
    step = "over" /\ saved # NoReport => saved.code = code \/ (stale /\ interrupted /\ code = 130)

\* A run that says it passed judged a window, breached nothing, and met every
\* policy; and a signal that was seen fails the run whatever else went wrong.
\* (session.py session_exit_code 75-93; headless.py exit_status 262-280)
VerdictIsEarned ==
    step = "over" =>
        /\ code = 0 /\ PrintedVerdict(code) = "pass" =>
              /\ evidence.judged /\ ~evidence.breached /\ ~evidence.over /\ runError = {}
              /\ policy.coverage => evidence.full
        /\ evidence.breached /\ startup # "failed" => code = 1

\* What a headless run tells a script is what happened to the target: the exit
\* code, and the report that holds it.
RunIsTrue == SavedCodeIsTrue /\ VerdictIsEarned

\* What went wrong in the run is among the errors of the report it leaves.
\* (docs/reports.md 261: "Cleanup exceptions are monitor errors and headless
\* runs still attempt to export evidence")
ErrorsStayOnRecord ==
    step = "over" /\ saved # NoReport /\ ~stale => runError \subseteq saved.errors
=============================================================================
