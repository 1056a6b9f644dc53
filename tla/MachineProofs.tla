----------------------------- MODULE MachineProofs -----------------------------
(***************************************************************************)
(* Proofs about the smaller state machines of a session's surroundings,    *)
(* for every value of their constants: the outcome of a headless run, the  *)
(* dashboard's confirmation and comparison worker, the picker, the repair  *)
(* of an installation, the layers of settings, the verdict of an exercise  *)
(* and, at the end, the leak detector.                                     *)
(***************************************************************************)
EXTENDS Detector, HeadlessRun, Dashboard, Picker, Launch, Settings, Exercise, FiniteSetTheorems, TLAPS

-----------------------------------------------------------------------------
(* The headless run                                                        *)

RunType ==
    /\ step \in {"start", "monitor", "shutdown", "poll", "json", "html", "amend", "exit", "over", "propagated"}
    /\ policy \in Policies /\ evidence \in Evidence
    /\ interrupted \in BOOLEAN /\ exportError \in BOOLEAN /\ stale \in BOOLEAN

\* What is on disk, and what is about to be, is what the run would say now.
ReportInv ==
    /\ step \in {"start", "monitor", "shutdown", "poll", "json"} => saved = NoReport
    /\ step = "html" => saved.code = ExitStatus /\ report.code = ExitStatus
    /\ step = "amend" => /\ report.code = ExitStatus
                         /\ saved.code = ExitStatus \/ (interrupted /\ ExitStatus = 130)
    /\ step \in {"exit", "over"} =>
         saved = NoReport \/ saved.code = ExitStatus \/ (stale /\ interrupted /\ ExitStatus = 130)
    /\ step = "over" => code = ExitStatus

RunInv == RunType /\ ReportInv

\* The decision is of what the steps after monitoring leave alone.
LEMMA SameStatus ==
    ASSUME UNCHANGED <<policy, evidence, startup, interrupted, runError, exportError>>
    PROVE  ExitStatus' = ExitStatus
  BY DEF ExitStatus, Inconclusive

\* Ctrl+C makes the code 130, or leaves it.
LEMMA InterruptedStatus ==
    ASSUME UNCHANGED <<policy, evidence, startup>>, interrupted' = TRUE
    PROVE  ExitStatus' = ExitStatus \/ ExitStatus' = 130
  BY DEF ExitStatus, ExitCode

\* A sample changes what is known of the target, and nothing that is on disk.
LEMMA SampleKeeps == ASSUME RunInv, Sampled PROVE RunInv'
<1>1. evidence' \in Evidence
  <2>1. PICK change \in {"breached", "judged", "over", "targetFailed"} :
          evidence' = [evidence EXCEPT ![change] = TRUE, !.full = observed = 0]
    BY DEF Sampled
  <2> QED
    BY <2>1 DEF RunInv, RunType, Evidence
<1>2. RunType'
  BY <1>1 DEF RunInv, RunType, Sampled, outcomeVars, reportVars
<1> QED
  BY <1>2 DEF RunInv, ReportInv, Sampled, reportVars

\* Until the report is written nothing is exported, whatever happens
\* (HeadlessSession).
LEMMA MonitorKeeps ==
    ASSUME RunInv, Started \/ StartFails \/ Propagates \/ Note \/ Proceed \/ Fails \/ Interrupted
    PROVE  RunInv'
<1>1. /\ UNCHANGED <<policy, evidence, reportVars>>
      /\ interrupted' \in {interrupted, TRUE} /\ exportError' = exportError
  BY DEF Started, StartFails, Propagates, Note, Proceed, Fails, Interrupted, Quiet, outcomeVars
<1>2. /\ step \in {"start", "monitor", "shutdown", "poll"}
      /\ step' \in {"start", "monitor", "shutdown", "poll", "json", "propagated"}
  BY DEF Started, StartFails, Propagates, Note, Proceed, Fails, Interrupted, After
<1>3. RunType'
  BY <1>1, <1>2 DEF RunInv, RunType, reportVars
<1> QED
  BY <1>1, <1>2, <1>3 DEF RunInv, ReportInv, reportVars

\* What is written, or amended, has the exit code of what happened so far
\* (_export).
LEMMA ExportKeeps ==
    ASSUME RunInv, JsonWritten \/ JsonFails \/ JsonInterrupted \/ HtmlWritten \/ HtmlFails \/ Amended \/ AmendFails \/ Exit
    PROVE  RunInv'
<1>1. RunType'
  BY DEF RunInv, RunType, JsonWritten, JsonFails, JsonInterrupted, HtmlWritten, HtmlFails, Amended, AmendFails, Exit, Keep,
         outcomeVars, reportVars
<1>2. CASE JsonWritten
  BY <1>1, <1>2, SameStatus DEF RunInv, ReportInv, JsonWritten, Keep, Built
<1>3. CASE JsonFails
  BY <1>1, <1>3 DEF RunInv, ReportInv, JsonFails, Keep, reportVars
<1>9. CASE JsonInterrupted
  <2>1. ExitStatus' = ExitStatus \/ ExitStatus' = 130
    BY <1>9, InterruptedStatus DEF JsonInterrupted, Keep
  <2>2. saved' = saved \/ (saved'.code = ExitStatus /\ stale' = TRUE)
    BY <1>9 DEF JsonInterrupted, Built, reportVars
  <2> QED
    BY <1>1, <1>9, <2>1, <2>2 DEF RunInv, ReportInv, JsonInterrupted
<1>4. CASE HtmlWritten
  BY <1>1, <1>4, SameStatus DEF RunInv, ReportInv, HtmlWritten, Keep, reportVars
<1>5. CASE HtmlFails
  <2>1. report'.code = report.code
    BY <1>5 DEF HtmlFails
  <2> QED
    BY <1>1, <1>5, <2>1, SameStatus DEF RunInv, ReportInv, HtmlFails, Keep
<1>6. CASE Amended
  BY <1>1, <1>6, SameStatus DEF RunInv, ReportInv, Amended, Keep
<1>7. CASE AmendFails
  <2>1. CASE UNCHANGED <<interrupted, exportError, saved>>
    BY <1>1, <1>7, <2>1, SameStatus DEF RunInv, ReportInv, AmendFails, Keep
  <2>2. CASE interrupted' = TRUE /\ saved' \in {saved, report}
    <3>1. ExitStatus' = ExitStatus \/ ExitStatus' = 130
      BY <1>7, <2>2, InterruptedStatus DEF AmendFails, Keep
    <3>2. /\ step = "amend" /\ step' = "exit" /\ stale' = TRUE
          /\ report.code = ExitStatus /\ (saved.code = ExitStatus \/ ExitStatus = 130)
      BY <1>7 DEF RunInv, ReportInv, AmendFails
    <3>3. saved'.code = ExitStatus' \/ ExitStatus' = 130
      BY <2>2, <3>1, <3>2
    <3> QED
      BY <1>1, <2>2, <3>2, <3>3 DEF RunInv, ReportInv
  <2> QED
    BY <1>7, <2>1, <2>2 DEF AmendFails
<1>8. CASE Exit
  <2>1. code' = ExitStatus /\ ExitStatus' = ExitStatus
    BY <1>8, SameStatus DEF Exit, outcomeVars, ExitStatus, ExitCode
  <2> QED
    BY <1>1, <1>8, <2>1 DEF RunInv, ReportInv, Exit, reportVars, outcomeVars
<1> QED
  BY <1>2, <1>3, <1>4, <1>5, <1>6, <1>7, <1>8, <1>9

\* Ctrl+C while the page is written leaves the JSON, and is in no report yet.
LEMMA InterruptedExportKeeps == ASSUME RunInv, HtmlInterrupted PROVE RunInv'
<1>1. RunType'
  BY DEF RunInv, RunType, HtmlInterrupted, Keep
<1>2. report'.code = ExitStatus'
  BY DEF HtmlInterrupted, Keep, ExitStatus, ExitCode, Inconclusive
<1>3. ExitStatus' = ExitStatus \/ ExitStatus' = 130
  BY InterruptedStatus DEF HtmlInterrupted, Keep
<1> QED
  BY <1>1, <1>2, <1>3 DEF RunInv, ReportInv, HtmlInterrupted, Keep

(* What a headless run tells a script is what happened to the target: its  *)
(* exit code, the verdict it prints, and the report that holds the code,   *)
(* whatever fails or is interrupted on the way; Ctrl+C in the writing of   *)
(* the JSON makes the exit 130 beside a report built before               *)
(* (HeadlessRunner.run, export_log, _export).                              *)
THEOREM RunTold == RunSpec => []RunIsTrue
<1>1. RunInit => RunInv
  <2> SUFFICES ASSUME RunInit PROVE RunInv
    OBVIOUS
  <2>1. evidence \in Evidence
    BY DEF RunInit, Evidence
  <2> QED
    BY <2>1 DEF RunInit, RunInv, RunType, ReportInv
<1>2. RunInv /\ [RunNext]_runVars => RunInv'
  <2>1. ASSUME RunInv, UNCHANGED runVars PROVE RunInv'
    BY <2>1, SameStatus DEF runVars, outcomeVars, reportVars, RunInv, RunType, ReportInv
  <2> QED
    BY <2>1, SampleKeeps, MonitorKeeps, ExportKeeps, InterruptedExportKeeps DEF RunNext
<1>3. RunInv => RunIsTrue
  <2> SUFFICES ASSUME RunInv PROVE RunIsTrue
    OBVIOUS
  <2>1. SavedCodeIsTrue
    BY DEF RunInv, ReportInv, SavedCodeIsTrue
  <2>2. VerdictIsEarned
    <3> SUFFICES ASSUME step = "over" 
                 PROVE  /\ code = 0 /\ PrintedVerdict(code) = "pass" =>
                             /\ evidence.judged /\ ~evidence.breached /\ ~evidence.over /\ runError = {}
                             /\ policy.coverage => evidence.full
                        /\ evidence.breached /\ startup # "failed" => code = 1
      BY DEF VerdictIsEarned
    <3>1. code = ExitStatus
      BY DEF RunInv, ReportInv
    <3> QED
      BY <3>1 DEF ExitStatus, ExitCode, PrintedVerdict, Inconclusive
  <2> QED
    BY <2>1, <2>2 DEF RunIsTrue
<1> QED
  BY <1>1, <1>2, <1>3, PTL DEF RunSpec

-----------------------------------------------------------------------------
(* The dashboard                                                           *)

\* The confirmation that is open is the last warning.
ConfirmInv == armed \in Nat /\ warning = armed

\* The confirmation counts down with the last warning, whatever is pressed.
LEMMA ConfirmKeeps ==
    ASSUME ConfirmInv, [DashboardNext]_dashboardVars
    PROVE  ConfirmInv'
<1> USE DashboardAssumption DEF ConfirmInv
<1>1. CASE TakeKey
  <2>1. CASE KillKey
    BY <2>1 DEF KillKey, ArmedAfterKill
  <2>2. CASE BaselineKey \/ MarkerKey \/ HelpKey \/ FilterKey \/ ViewKey \/ GlobalKey \/ PauseKey \/ NoKey
    BY <2>2 DEF BaselineKey, MarkerKey, HelpKey, FilterKey, ViewKey, GlobalKey, PauseKey, NoKey, targetVars
  <2> QED
    BY <1>1, <2>1, <2>2 DEF TakeKey, HandleKey
<1>2. CASE DrawFrame
  BY <1>2 DEF DrawFrame
<1>3. CASE Work \/ TakeSamples \/ InputEnds \/ Quit \/ ShutDown \/ CtrlC \/ TargetExits \/ UNCHANGED dashboardVars
  BY <1>3 DEF Work, TakeSamples, InputEnds, Quit, ShutDown, CtrlC, TargetExits, targetVars, dashboardVars
<1> QED
  BY <1>1, <1>2, <1>3 DEF DashboardNext, DashboardLoop

(* A target that was running before the dashboard is killed only after a   *)
(* warning of its own that has not run out (_handle_key).                  *)
THEOREM KillConfirmed == DashboardSpec => KillIsConfirmed
<1>1. DashboardInit => ConfirmInv
  BY DEF DashboardInit, ConfirmInv
<1>2. ConfirmInv /\ [DashboardNext]_dashboardVars => ConfirmInv'
  BY ConfirmKeeps
<1>3. ConfirmInv => (attached /\ loop = "key" /\ KillKey /\ armed' # ConfirmTicks + 1 => warning > 0)
  BY DEF ConfirmInv, KillKey
<1>4. ConfirmInv /\ [DashboardNext]_dashboardVars
        => [attached /\ loop = "key" /\ KillKey /\ armed' # ConfirmTicks + 1 => warning > 0]_dashboardVars
  BY <1>3
<1> QED
  BY <1>1, <1>2, <1>4, PTL DEF DashboardSpec, KillIsConfirmed

\* What the comparison keeps, and that its parts are what the code has.
CompareType ==
    /\ loading \in BOOLEAN
    /\ worker \in {"none", "running", "done"}
    /\ results \in {"empty", "compared", "failed"}

CompareInv == CompareType /\ OneComparison

\* Taking in what a worker left keeps the view waiting for what is left: a
\* worker that runs (_drain_comparison_result).
LEMMA DrainKeeps ==
    ASSUME CompareInv, Drained
    PROVE  CompareInv'
  BY DEF CompareInv, CompareType, OneComparison, Drained, Taken, Busy, Settled

\* A request begins a worker only where none is and no result waits, and a
\* start that raised waits exactly for a thread that runs
\* (_request_comparison).
LEMMA RequestKeeps ==
    ASSUME CompareInv, NEW allowed, Request(allowed)
    PROVE  CompareInv'
<1>1. CASE Drained
  BY <1>1, DrainKeeps
<1>2. CASE ~Busy /\ Taken /\ loading' = TRUE /\ worker' = "running"
  BY <1>2 DEF CompareInv, CompareType, OneComparison, Taken, Busy, Settled
<1>3. ASSUME NEW started \in BOOLEAN,
             ~Busy, Taken,
             worker' = IF started THEN "running" ELSE "none",
             loading' = ~NeverStarted(started)
      PROVE  CompareInv'
  BY <1>3 DEF CompareInv, CompareType, OneComparison, Taken, Busy, Settled, NeverStarted
<1> QED
  BY <1>1, <1>2, <1>3 DEF Request

\* A worker that ends reports into an empty place.
LEMMA WorkKeeps ==
    ASSUME CompareInv, Work
    PROVE  CompareInv'
  BY DEF CompareInv, CompareType, OneComparison, Work

\* A step that leaves the comparison alone.
LEMMA StutterKeeps ==
    ASSUME CompareInv, UNCHANGED compareVars
    PROVE  CompareInv'
  BY DEF CompareInv, CompareType, OneComparison, compareVars

\* Of the keys, Enter in the path of a baseline, B and R reach the comparison
\* (_handle_key, _comparison_input_key).
LEMMA KeyKeeps ==
    ASSUME CompareInv, HandleKey
    PROVE  CompareInv'
<1>1. CASE BaselineKey
  BY <1>1, RequestKeeps, StutterKeeps DEF BaselineKey
<1>2. CASE ViewKey
  BY <1>2, RequestKeeps, DrainKeeps, StutterKeeps DEF ViewKey
<1>3. CASE MarkerKey \/ HelpKey \/ FilterKey \/ GlobalKey \/ PauseKey \/ KillKey \/ NoKey
  BY <1>3, StutterKeeps DEF MarkerKey, HelpKey, FilterKey, GlobalKey, PauseKey, KillKey, NoKey
<1> QED
  BY <1>1, <1>2, <1>3 DEF HandleKey

\* Every step of the dashboard.
LEMMA StepKeeps ==
    ASSUME CompareInv, [DashboardNext]_dashboardVars
    PROVE  CompareInv'
<1>1. CASE TakeKey
  BY <1>1, KeyKeeps, StutterKeeps DEF TakeKey, NoKey
<1>2. CASE DrawFrame
  BY <1>2, DrainKeeps, StutterKeeps DEF DrawFrame
<1>3. CASE Work
  BY <1>3, WorkKeeps
<1>4. CASE TakeSamples \/ InputEnds \/ Quit \/ ShutDown \/ CtrlC \/ TargetExits
  BY <1>4, StutterKeeps DEF TakeSamples, InputEnds, Quit, ShutDown, CtrlC, TargetExits
<1>5. CASE UNCHANGED dashboardVars
  BY <1>5, StutterKeeps DEF dashboardVars, compareVars
<1> QED
  BY <1>1, <1>2, <1>3, <1>4, <1>5 DEF DashboardNext, DashboardLoop

(* There is one comparison at a time, and the view says it is loading      *)
(* exactly while a worker runs or its result was not taken in, whatever    *)
(* raises, whenever the worker ends and however the keys come              *)
(* (_request_comparison, _drain_comparison_result).                        *)
THEOREM ComparisonIsOne == DashboardSpec => []OneComparison
<1>1. DashboardInit => CompareInv
  BY DEF DashboardInit, CompareInv, CompareType, OneComparison
<1>2. CompareInv /\ [DashboardNext]_dashboardVars => CompareInv'
  BY StepKeeps
<1>3. CompareInv => OneComparison
  BY DEF CompareInv
<1> QED
  BY <1>1, <1>2, <1>3, PTL DEF DashboardSpec

-----------------------------------------------------------------------------
(* The process picker                                                      *)

\* The rows a list may have.
NameSet == {Names[b] : b \in Births}
AnyRow == [pid : Candidates \ {Own}, birth : {0} \cup Births, name : NameSet]

ListInv ==
    /\ held \in [Candidates -> {0} \cup Births] /\ born \in Births
    /\ rows \in Seq(AnyRow) /\ page \in Nat /\ cursor \in Nat

\* The page on screen is the one that has the row of the cursor.
CursorInv ==
    stage = "picking" =>
        /\ Matches # <<>> => cursor < Len(Matches)
        /\ keyed => drawn = PageOf(Matches, cursor \div PageRows)

PickerInv == ListInv /\ CursorInv /\ HookIsMeant

-----------------------------------------------------------------------------
\* Pages and filters (process_picker, running_processes).
LEMMA FilterKeeps ==
    ASSUME NEW list \in Seq(AnyRow), NEW text
    PROVE  FilterProcesses(list, text) \in Seq(AnyRow)
  BY SelectedFrom DEF FilterProcesses

\* What the filter leaves of the list are rows of the list.
LEMMA MatchesAreRows == ASSUME ListInv PROVE Matches \in Seq(AnyRow)
<1>1. <<>> \in Seq(AnyRow)
  OBVIOUS
<1> QED
  BY <1>1, FilterKeeps DEF Matches, ListInv

\* The page of a position begins at or before it, and ends after it.
LEMMA Division ==
    ASSUME NEW c \in Nat
    PROVE  /\ c \div PageRows \in Nat
           /\ (c \div PageRows) * PageRows \in Nat
           /\ (c \div PageRows) * PageRows <= c
           /\ c < (c \div PageRows + 1) * PageRows
  BY PickerAssumption

\* The row of the cursor is on the page of the cursor.
LEMMA PageHasCursor ==
    ASSUME NEW list \in Seq(AnyRow), NEW c \in Nat, c < Len(list)
    PROVE  list[c + 1] \in ToSet(PageOf(list, c \div PageRows))
<1> DEFINE m == (c \div PageRows) * PageRows
           u == (c \div PageRows + 1) * PageRows
           n == LowerOf(u, Len(list))
<1>1. m \in Nat /\ n \in Nat /\ m <= c /\ c < n /\ n <= Len(list)
  <2>1. u \in Nat
    BY Division, PickerAssumption
  <2>2. m \in Nat /\ m <= c /\ c < u
    BY Division
  <2> HIDE DEF u, m
  <2> QED
    BY <2>1, <2>2 DEF LowerOf
<1>2. PageOf(list, c \div PageRows) = SubSeq(list, m + 1, n)
  BY DEF PageOf
<1> HIDE DEF m, u, n
<1>3. /\ Len(SubSeq(list, m + 1, n)) = n - m
      /\ \A i \in 1..(n - m) : SubSeq(list, m + 1, n)[i] = list[m + i]
  BY <1>1
<1>4. (c + 1) - m \in 1..(n - m) /\ m + ((c + 1) - m) = c + 1
  BY <1>1
<1>5. DOMAIN SubSeq(list, m + 1, n) = 1..(n - m)
  BY <1>1
<1> QED
  BY <1>2, <1>3, <1>4, <1>5 DEF ToSet

\* A drawn page is of the list that is drawn, with the cursor on a row of it.
LEMMA DrawKeeps ==
    ASSUME ListInv, NEW known, NEW list \in Seq(AnyRow), NEW text, NEW number \in Nat, NEW position \in Nat,
           Draw(known, list, text, number, position)
    PROVE  /\ rows' \in Seq(AnyRow) /\ page' \in Nat /\ cursor' \in Nat
           /\ Matches' # <<>> => cursor' < Len(Matches')
           /\ keyed => drawn' = PageOf(Matches', cursor' \div PageRows)
<1> DEFINE matches == IF known THEN FilterProcesses(list, text) ELSE <<>>
           row == LowerOf(position, IF matches = <<>> THEN 0 ELSE Len(matches) - 1)
<1>1. matches \in Seq(AnyRow)
  <2>1. <<>> \in Seq(AnyRow)
    OBVIOUS
  <2> QED
    BY <2>1, FilterKeeps
<1>2. Matches' = matches
  BY DEF Draw, Matches
<1> HIDE DEF matches
<1>3. row \in Nat /\ (matches # <<>> => row < Len(matches))
  BY <1>1 DEF LowerOf
<1>4. rows' = list /\ cursor' = row
  BY DEF Draw, matches
<1>5. page' \in Nat
  <2>1. row \div PageRows \in Nat
    BY <1>3, Division
  <2>2. LastPage(matches) \in Nat
    <3>1. matches # <<>> => Len(matches) - 1 \in Nat
      BY <1>1
    <3> QED
      BY <3>1, Division DEF LastPage
  <2>3. LowerOf(number, LastPage(matches)) \in Nat
    BY <2>2 DEF LowerOf
  <2> QED
    BY <2>1, <2>3 DEF Draw, matches
<1>6. keyed => drawn' = PageOf(matches, row \div PageRows)
  BY DEF Draw, matches
<1> HIDE DEF row
<1> QED
  BY <1>2, <1>3, <1>4, <1>5, <1>6

\* A list that is read again never has DrainTracer in it.
LEMMA ReadKeeps ==
    ASSUME ListInv, ReadAgain
    PROVE  /\ rows' \in Seq(AnyRow) /\ page' \in Nat /\ cursor' \in Nat
           /\ Matches' # <<>> => cursor' < Len(Matches')
           /\ keyed => drawn' = PageOf(Matches', cursor' \div PageRows)
<1>1. <<>> \in Seq(AnyRow)
  OBVIOUS
<1>2. Running \subseteq AnyRow
  BY PickerAssumption DEF Running, RowOf, AnyRow, ListInv, NameSet
<1>3. Cardinality(Running) \in Nat
  <2> DEFINE listed == {q \in Candidates : held[q] # 0 /\ held[q] \notin zombies /\ q # Own}
  <2>1. IsFiniteSet(listed)
    BY PickerAssumption, FS_Subset DEF Candidates
  <2>2. Running = {RowOf(p) : p \in listed}
    BY DEF Running
  <2> HIDE DEF listed
  <2>3. [p \in listed |-> RowOf(p)] \in Surjection(listed, Running)
    BY <2>2 DEF Surjection
  <2> QED
    BY <2>1, <2>3, FS_Surjection, FS_CardinalityType
<1>4. [1..Cardinality(Running) -> Running] \subseteq Seq(AnyRow)
  BY <1>2, <1>3
<1> QED
  BY <1>1, <1>4, DrawKeeps DEF ReadAgain

\* The screens before the list is read, and a person who leaves.
LEMMA MenuKeeps ==
    ASSUME PickerInv, MoveChoice \/ Choose \/ Leave \/ OpenFile \/ TypePath
    PROVE  PickerInv'
<1>1. CASE Choose /\ stage' = "picking"
  <2>1. ReadAgain /\ UNCHANGED <<keyed, hostVars>>
    BY <1>1 DEF Choose, Pressed
  <2> QED
    BY <1>1, <2>1, ReadKeeps DEF PickerInv, ListInv, CursorInv, HookIsMeant, hostVars
<1>2. CASE Choose /\ stage' # "picking"
  <2>1. stage' = "file" /\ UNCHANGED <<keyed, hostVars, rows, page, cursor>>
    BY <1>2 DEF Choose, Pressed
  <2> QED
    BY <2>1 DEF PickerInv, ListInv, CursorInv, HookIsMeant, hostVars
<1>3. CASE MoveChoice \/ Leave \/ OpenFile \/ TypePath
  <2>1. /\ stage' \in {"menu", "cancelled", "opened", "failed", "typing"}
        /\ UNCHANGED <<keyed, hostVars, screenVars>>
    BY <1>3 DEF MoveChoice, Leave, OpenFile, TypePath, Pressed, Over
  <2> QED
    BY <2>1 DEF PickerInv, ListInv, CursorInv, HookIsMeant, hostVars, screenVars
<1> QED
  BY <1>1, <1>2, <1>3

\* Nothing on the screen changes when a process starts, ends or is collected.
LEMMA HostKeeps == ASSUME PickerInv, Host PROVE PickerInv'
<1>1. PICK p \in Candidates : Starts(p) \/ Ends(p) \/ ParentCollects(p)
  BY DEF Host
<1>2. /\ stage \in {"menu", "picking"} /\ stage' = stage
      /\ UNCHANGED <<keyed, screenVars>>
  BY <1>1 DEF Host, Starts, Ends, ParentCollects, HostEvent
<1>3. held' \in [Candidates -> {0} \cup Births] /\ born' \in Births
  BY <1>1, PickerAssumption DEF PickerInv, ListInv, Starts, Ends, ParentCollects, Births
<1>4. Matches' = Matches
  BY <1>2 DEF Matches, screenVars
<1> QED
  BY <1>2, <1>3, <1>4 DEF PickerInv, ListInv, CursorInv, HookIsMeant, screenVars

\* What a key or a line does to the list on screen.
Redraws ==
    \/ ReadAgain
    \/ \E text : \E number \in Nat, position \in Nat : Draw(readable, rows, text, number, position)

\* Redrawing keeps the picker where it was, with nothing picked.
LEMMA RedrawKeeps ==
    ASSUME PickerInv, Redraws, stage' = "picking", UNCHANGED <<keyed, hostVars>>
    PROVE  PickerInv'
<1>1. /\ rows' \in Seq(AnyRow) /\ page' \in Nat /\ cursor' \in Nat
      /\ Matches' # <<>> => cursor' < Len(Matches')
      /\ keyed => drawn' = PageOf(Matches', cursor' \div PageRows)
  BY ReadKeeps, DrawKeeps DEF PickerInv, ListInv, Redraws
<1> QED
  BY <1>1 DEF PickerInv, ListInv, CursorInv, HookIsMeant, hostVars

\* To read again is to redraw.
LEMMA ReadIsRedraw == ASSUME ReadAgain PROVE Redraws
  BY Zenon DEF Redraws

\* To draw the list again is to redraw.
LEMMA DrawIsRedraw ==
    ASSUME NEW text, NEW number \in Nat, NEW position \in Nat, Draw(readable, rows, text, number, position)
    PROVE  Redraws
  BY Zenon DEF Redraws

\* Arrows and what is typed only filter the list and move on it.
LEMMA KeyRedraws ==
    ASSUME PickerInv, Arrow \/ Backspace \/ \E c \in Typed : Type(c)
    PROVE  Redraws /\ stage' = "picking" /\ UNCHANGED <<keyed, hostVars>>
<1>1. cursor \in Nat /\ cursor + 1 \in Nat /\ page \in Nat /\ (cursor # 0 => cursor - 1 \in Nat)
  BY DEF PickerInv, ListInv
<1>2. CASE Arrow
  <2>1. stage' = "picking" /\ UNCHANGED <<keyed, hostVars>> /\ (Up \/ Down)
    BY <1>2 DEF Arrow, Picking, Pressed
  <2>2. CASE Up
    <3>1. (IF cursor = 0 THEN 0 ELSE cursor - 1) \in Nat
      BY <1>1
    <3> QED
      BY <1>1, <2>1, <2>2, <3>1, DrawIsRedraw DEF Up
  <2> QED
    BY <1>1, <2>1, <2>2, DrawIsRedraw DEF Down
<1>3. ASSUME NEW text, Edit(text)
      PROVE  Redraws /\ stage' = "picking" /\ UNCHANGED <<keyed, hostVars>>
  <2>1. stage' = "picking" /\ UNCHANGED <<keyed, hostVars>>
    BY <1>3 DEF Edit, Picking, Pressed
  <2>2. \/ Draw(readable, rows, query, page, cursor)
        \/ Draw(readable, rows, LiveQuery(text, query), 0, 0)
    BY <1>3, Zenon DEF Edit
  <2> QED
    BY <1>1, <2>1, <2>2, DrawIsRedraw
<1> QED
  BY <1>2, <1>3 DEF Backspace, Type

\* A command leaves or redraws.
LEMMA CommandRedraws ==
    ASSUME PickerInv, NEW value, Command(value)
    PROVE  /\ picked' = picked
           /\ \/ stage' = "cancelled" /\ UNCHANGED <<rows, page, cursor>>
              \/ stage' = stage /\ Redraws
<1>1. page \in Nat /\ cursor \in Nat /\ page + 1 \in Nat /\ 0 \in Nat
  BY DEF PickerInv, ListInv
<1>2. LowerOf(page + 1, LastPage(Matches)) * PageRows \in Nat
  <2>1. Matches # <<>> => Len(Matches) - 1 \in Nat
    BY MatchesAreRows DEF PickerInv
  <2>2. LastPage(Matches) \in Nat
    BY <2>1, Division DEF LastPage
  <2>3. LowerOf(page + 1, LastPage(Matches)) \in Nat
    BY <1>1, <2>2 DEF LowerOf
  <2> QED
    BY <2>3, PickerAssumption
<1>3. (IF page = 0 THEN 0 ELSE page - 1) \in Nat /\ (IF page = 0 THEN 0 ELSE page - 1) * PageRows \in Nat
  <2>1. (IF page = 0 THEN 0 ELSE page - 1) \in Nat
    BY <1>1
  <2> QED
    BY <2>1, PickerAssumption
<1>4. picked' = picked
  BY DEF Command
<1>5. CASE value = <<"/quit">>
  <2>1. stage' = "cancelled" /\ UNCHANGED <<readable, rows, query, page, cursor, drawn>>
    BY <1>5, Zenon DEF Command
  <2> QED
    BY <1>4, <2>1
<1>6. CASE value # <<"/quit">>
  <2>1. stage' = stage
    BY <1>6 DEF Command
  <2>2. \/ ReadAgain
        \/ Draw(readable, rows, query, page + 1, LowerOf(page + 1, LastPage(Matches)) * PageRows)
        \/ Draw(readable, rows, query, IF page = 0 THEN 0 ELSE page - 1, (IF page = 0 THEN 0 ELSE page - 1) * PageRows)
        \/ Draw(readable, rows, <<>>, 0, 0)
        \/ Draw(readable, rows, Tail(value), 0, 0)
        \/ Draw(readable, rows, query, page, cursor)
    BY <1>6, Zenon DEF Command
  <2> QED
    BY <1>1, <1>2, <1>3, <1>4, <2>1, <2>2, ReadIsRedraw, DrawIsRedraw
<1> QED
  BY <1>5, <1>6

\* A row that is taken is current, is on screen or has the number entered,
\* and is not DrainTracer.
LEMMA TakeIsMeant ==
    ASSUME PickerInv, stage = "picking", NEW value, NEW row \in Chosen(value), IsProcessCurrent(row),
           value = <<>> => keyed
    PROVE  /\ row.pid # Own
           /\ held[row.pid] = row.birth /\ row.birth \notin zombies
           /\ IF value = <<>> THEN row \in ToSet(drawn) ELSE Digits[row.pid] = Stripped(value)
<1>1. Matches \in Seq(AnyRow)
  BY MatchesAreRows DEF PickerInv
<1>2. held[row.pid] = row.birth /\ row.birth \notin zombies
  BY DEF IsProcessCurrent
<1>3. CASE value = <<>>
  <2>1. row = Matches[cursor + 1] /\ Matches # <<>>
    BY <1>3 DEF Chosen
  <2>2. cursor \in Nat /\ cursor < Len(Matches) /\ drawn = PageOf(Matches, cursor \div PageRows)
    BY <1>3, <2>1 DEF PickerInv, ListInv, CursorInv
  <2>3. row \in ToSet(drawn)
    BY <1>1, <2>1, <2>2, PageHasCursor
  <2>4. row \in AnyRow
    BY <1>1, <2>1, <2>2
  <2> QED
    BY <1>2, <1>3, <2>3, <2>4 DEF AnyRow
<1>4. CASE value # <<>>
  <2>1. row \in ToSet(Matches) /\ Digits[row.pid] = Stripped(value)
    BY <1>4 DEF Chosen
  <2>2. row \in AnyRow
    BY <1>1, <2>1 DEF ToSet
  <2> QED
    BY <1>2, <1>4, <2>1, <2>2 DEF AnyRow
<1> QED
  BY <1>3, <1>4

\* Enter leaves, redraws, or takes the row that was meant.
LEMMA EnterKeeps == ASSUME PickerInv, NEW text, Enter(text) PROVE PickerInv'
<1> DEFINE value == IF keyed /\ ~IsCommand(text) /\ ~IsDecimal(text) /\ text # <<"q">> THEN <<>> ELSE text
<1>1. /\ stage = "picking" /\ UNCHANGED <<keyed, hostVars>> /\ entered' = text
      /\ \/ Command(value)
         \/ stage' = "cancelled" /\ UNCHANGED <<rows, page, cursor>>
         \/ (IsDecimal(value) \/ (keyed /\ value = <<>>)) /\ Take(value)
         \/ /\ UNCHANGED stage
            /\ \/ Draw(readable, rows, query, page, cursor)
               \/ Draw(readable, rows, value, 0, 0)
  BY Zenon DEF Enter, Picking, Pressed
<1>2. page \in Nat /\ cursor \in Nat /\ 0 \in Nat
  BY DEF PickerInv, ListInv
<1>3. ~IsDecimal(<<>>)
  BY DEF IsDecimal
<1>4. IF value = <<>> THEN ~IsDecimal(text) ELSE value = text
  BY <1>3
<1> HIDE DEF value
<1>5. CASE stage' = "cancelled" /\ UNCHANGED <<rows, page, cursor>>
  BY <1>1, <1>5 DEF PickerInv, ListInv, CursorInv, HookIsMeant, hostVars
<1>6. CASE stage' = stage /\ Redraws
  BY <1>1, <1>6, RedrawKeeps
<1>7. CASE Command(value)
  BY <1>5, <1>6, <1>7, CommandRedraws
<1>8. CASE (IsDecimal(value) \/ (keyed /\ value = <<>>)) /\ Take(value)
  <2>1. value = <<>> => keyed
    BY <1>3, <1>8
  <2>2. value # <<>> => IsDecimal(value)
    BY <1>8
  <2>3. ASSUME NEW row \in Chosen(value), IsProcessCurrent(row), picked' = row, stage' = "hooked",
               UNCHANGED <<readable, rows, query, page, cursor, drawn>>
        PROVE  PickerInv'
    <3>1. /\ row.pid # Own /\ held[row.pid] = row.birth /\ row.birth \notin zombies
          /\ IF value = <<>> THEN row \in ToSet(drawn) ELSE Digits[row.pid] = Stripped(value)
      BY <1>1, <2>1, <2>3, TakeIsMeant
    <3>2. IF IsDecimal(text) THEN Digits[row.pid] = Stripped(text) ELSE keyed /\ row \in ToSet(drawn)
      BY <1>4, <2>1, <2>2, <3>1
    <3>3. HookIsMeant'
      BY <1>1, <2>3, <3>1, <3>2 DEF HookIsMeant, hostVars
    <3> QED
      BY <1>1, <2>3, <3>3 DEF PickerInv, ListInv, CursorInv, hostVars
  <2>4. CASE stage' = stage /\ (ReadAgain \/ Draw(readable, rows, query, page, cursor))
    BY <1>2, <1>6, <2>4, ReadIsRedraw, DrawIsRedraw
  <2> QED
    BY <1>8, <2>3, <2>4, Zenon DEF Take
<1>9. CASE stage' = stage /\ (Draw(readable, rows, query, page, cursor) \/ Draw(readable, rows, value, 0, 0))
  BY <1>2, <1>6, <1>9, DrawIsRedraw
<1> QED
  BY <1>1, <1>5, <1>7, <1>8, <1>9

(* However old the list, and whatever was typed before: the process hooked *)
(* is alive, is not DrainTracer, is the one that had its PID when the list *)
(* was read, and is the one that was meant (process_picker, main).         *)
THEOREM HookMeant == PickerSpec => []HookIsMeant
<1>1. PickerInit => PickerInv
  <2>1. <<>> \in Seq(AnyRow)
    OBVIOUS
  <2> QED
    BY <2>1, PickerAssumption DEF PickerInit, PickerInv, ListInv, CursorInv, HookIsMeant, Births
<1>2. PickerInv /\ [PickerNext]_pickerVars => PickerInv'
  <2>1. ASSUME PickerInv, UNCHANGED pickerVars PROVE PickerInv'
    <3>1. Matches' = Matches
      BY <2>1 DEF pickerVars, screenVars, Matches
    <3> QED
      BY <2>1, <3>1 DEF pickerVars, screenVars, hostVars, PickerInv, ListInv, CursorInv, HookIsMeant
  <2>2. ASSUME PickerInv, Arrow \/ Backspace \/ \E c \in Typed : Type(c) PROVE PickerInv'
    BY <2>2, KeyRedraws, RedrawKeeps
  <2> QED
    BY <2>1, <2>2, MenuKeeps, HostKeeps, EnterKeeps DEF PickerNext, Person
<1>3. PickerInv => HookIsMeant
  BY DEF PickerInv
<1> QED
  BY <1>1, <1>2, <1>3, PTL DEF PickerSpec

-----------------------------------------------------------------------------
(* The command line                                                        *)

LaunchType ==
    /\ disk \in [Files -> {"there", "absent", "directory", "dangling"}]
    /\ required \subseteq Files /\ missing \subseteq Files
    /\ asked \in Nat /\ pulls \in Nat

\* How far a repair is, and that what was looked at may still be restored.
RepairInv ==
    /\ launching \in {"check", "prompt", "pull", "verify", "inspect", "restart", "running", "over"}
    /\ launching \in {"check", "prompt"} /\ again = FALSE => asked = 0 /\ pulls = 0 /\ wrote = {}
    /\ launching \in {"prompt", "pull", "verify", "inspect", "restart"} => again = FALSE /\ place = "terminal"
    /\ launching = "pull" => pulls = 0 /\ wrote = {}
    /\ launching \in {"verify", "inspect", "restart"} => pulls = 1
    /\ launching \in {"pull", "verify", "inspect", "restart"} => asked = 1
    /\ again = TRUE => pulls = 1 /\ asked = 1
    /\ again \in BOOLEAN
    /\ launching = "inspect" => \A f \in looked : disk[f] = "absent" /\ f \in index

LaunchInv == LaunchType /\ RepairInv /\ RepairIsCareful

\* The first look at the installation, and the answer to the question.
LEMMA TalkKeeps == ASSUME LaunchInv, Check \/ Answer PROVE LaunchInv'
<1>1. LaunchType'
  BY DEF LaunchInv, LaunchType, Check, Answer, diskVars, doneVars
<1>2. RepairInv'
  BY DEF LaunchInv, LaunchType, RepairInv, RepairIsCareful, Check, Answer, ExitLaunch, Attempted, diskVars, doneVars
<1>3. RepairIsCareful'
  BY DEF LaunchInv, LaunchType, RepairInv, RepairIsCareful, Check, Answer, ExitLaunch, diskVars, doneVars
<1> QED
  BY <1>1, <1>2, <1>3 DEF LaunchInv

\* One pull of the repository, after the question was answered with yes.
LEMMA PullKeeps == ASSUME LaunchInv, Pull PROVE LaunchInv'
<1>1. LaunchType'
  BY DEF LaunchInv, LaunchType, Pull
<1>2. RepairInv'
  BY DEF LaunchInv, LaunchType, RepairInv, RepairIsCareful, Pull, ExitLaunch, Repairing
<1>3. RepairIsCareful'
  BY DEF LaunchInv, LaunchType, RepairInv, RepairIsCareful, Pull, ExitLaunch, Repairing
<1> QED
  BY <1>1, <1>2, <1>3 DEF LaunchInv

\* Looking again, at all files or at one, changes none.
LEMMA LookKeeps ==
    ASSUME LaunchInv, Verify \/ \E f \in Files : LookAt(f)
    PROVE  LaunchInv'
<1>1. LaunchType'
  BY LaunchAssumption DEF LaunchInv, LaunchType, Verify, LookAt, InstallationStatus, Repairing, doneVars
<1>2. RepairInv'
  BY DEF LaunchInv, LaunchType, RepairInv, RepairIsCareful, Verify, LookAt, MayRestore, ExitLaunch, Repairing, doneVars
<1>3. RepairIsCareful'
  BY DEF LaunchInv, LaunchType, RepairInv, RepairIsCareful, Verify, LookAt, ExitLaunch, Repairing, doneVars
<1> QED
  BY <1>1, <1>2, <1>3 DEF LaunchInv

\* Only files that are absent and in the index are written (repair).
LEMMA RestoreKeeps == ASSUME LaunchInv, Restore PROVE LaunchInv'
<1>1. PICK written \in SUBSET missing :
        /\ disk' = [f \in Files |-> IF f \in written THEN "there" ELSE disk[f]]
        /\ wrote' = wrote \cup written
        /\ harmed' = (harmed \/ \E f \in written : disk[f] # "absent")
        /\ launching' \in {"verify", "over"}
  BY DEF Restore, ExitLaunch
<1>2. /\ launching = "inspect" /\ looked = missing
      /\ UNCHANGED <<place, again, index, required, missing, looked, asked, pulls>>
  BY DEF Restore, Repairing
<1>3. \A f \in written : disk[f] = "absent" /\ f \in index
  BY <1>1, <1>2 DEF LaunchInv, RepairInv
<1>4. LaunchType'
  BY <1>1, <1>2 DEF LaunchInv, LaunchType
<1>5. RepairInv'
  BY <1>1, <1>2 DEF LaunchInv, LaunchType, RepairInv, RepairIsCareful
<1>6. RepairIsCareful'
  <2>1. ~harmed'
    BY <1>1, <1>3 DEF LaunchInv, RepairIsCareful
  <2> QED
    BY <1>1, <1>2, <1>3, <2>1 DEF LaunchInv, LaunchType, RepairInv, RepairIsCareful
<1> QED
  BY <1>4, <1>5, <1>6 DEF LaunchInv

\* The restarted program, and files that disappear meanwhile.
LEMMA RestKeeps == ASSUME LaunchInv, Restart \/ Lost \/ UNCHANGED launchVars PROVE LaunchInv'
<1>1. LaunchType'
  BY DEF LaunchInv, LaunchType, Restart, Lost, launchVars, diskVars, doneVars
<1>2. RepairInv'
  <2>1. CASE Restart
    BY <2>1 DEF LaunchInv, RepairInv, RepairIsCareful, Restart, ExitLaunch, diskVars, doneVars
  <2>2. CASE Lost
    <3>1. \A f \in looked : launching = "inspect" => disk'[f] = "absent"
      BY <2>2 DEF LaunchInv, LaunchType, RepairInv, Lost
    <3>2. UNCHANGED <<place, index, again, launching, looked, asked, pulls, wrote>>
      BY <2>2 DEF Lost, doneVars
    <3> QED
      BY <3>1, <3>2 DEF LaunchInv, RepairInv
  <2>3. CASE UNCHANGED launchVars
    BY <2>3 DEF LaunchInv, RepairInv, launchVars, diskVars, doneVars
  <2> QED
    BY <2>1, <2>2, <2>3
<1>3. RepairIsCareful'
  BY DEF LaunchInv, LaunchType, RepairInv, RepairIsCareful, Restart, Lost, ExitLaunch, launchVars, diskVars, doneVars
<1> QED
  BY <1>1, <1>2, <1>3 DEF LaunchInv

(* A repair is asked for and pulled once, replaces nothing that was at a   *)
(* path, and touches nothing where nobody can be asked (main, repair).     *)
THEOREM RepairCareful == LaunchSpec => []RepairIsCareful
<1>1. LaunchInit => LaunchInv
  <2> SUFFICES ASSUME LaunchInit PROVE LaunchInv
    OBVIOUS
  <2>1. LaunchType
    BY DEF LaunchInit, LaunchType
  <2>2. RepairInv
    BY DEF LaunchInit, RepairInv
  <2>3. RepairIsCareful
    BY DEF LaunchInit, RepairIsCareful
  <2> QED
    BY <2>1, <2>2, <2>3 DEF LaunchInv
<1>2. LaunchInv /\ [LaunchNext]_launchVars => LaunchInv'
  BY TalkKeeps, PullKeeps, LookKeeps, RestoreKeeps, RestKeeps DEF LaunchNext, Program
<1>3. LaunchInv => RepairIsCareful
  BY DEF LaunchInv
<1> QED
  BY <1>1, <1>2, <1>3, PTL DEF LaunchSpec

-----------------------------------------------------------------------------
(* The layers of settings                                                  *)

FromFile(s) == IF s \in DOMAIN base THEN <<"file", base[s]>> ELSE <<"default", 0>>
FromProfile(s) ==
    IF present /\ named \in {"flag", "default"} /\ s \in DOMAIN profile THEN <<"profile", profile[s]>> ELSE FromFile(s)

\* After each layer the settings are those of the layers so far.
LayerInv ==
    /\ DOMAIN origins = All \cup {"budgets"}
    /\ DOMAIN base \subseteq All /\ DOMAIN profile \subseteq All /\ DOMAIN flags \subseteq All
    /\ ~present => DOMAIN base = {}
    /\ layering \in {"defaults", "profile", "flags", "check", "resolved", "refused"}
    /\ layering = "defaults" => \A s \in All : origins[s] = "default" /\ settings[s] = 0
    /\ layering = "profile" => present /\ \A s \in All : <<origins[s], settings[s]>> = FromFile(s)
    /\ layering = "flags" => \A s \in All : <<origins[s], settings[s]>> = FromProfile(s)
    /\ layering \in {"check", "resolved"} => \A s \in All : <<origins[s], settings[s]>> = Used(s)

\* What a layer says is used and is said to come from it, the rest stays.
LEMMA ApplyLays ==
    ASSUME NEW layer, NEW name, DOMAIN layer \subseteq All, DOMAIN origins = All \cup {"budgets"}, Apply(layer, name)
    PROVE  /\ DOMAIN origins' = All \cup {"budgets"}
           /\ \A s \in All : <<origins'[s], settings'[s]>> =
                               IF s \in DOMAIN layer THEN <<name, layer[s]>> ELSE <<origins[s], settings[s]>>
  BY SettingsAssumption DEF Apply, All

\* Each layer lays what it says over the layers before it.
LEMMA LayerKeeps ==
    ASSUME LayerInv, SettingsNext
    PROVE  LayerInv'
<1>1. CASE ReadFile
  <2>1. CASE Refused
    BY <1>1, <2>1 DEF LayerInv, ReadFile, KeepLayers, Refused, FromFile, FromProfile
  <2>2. CASE ~present /\ named \notin {"flag", "unknown"} /\ layering' = "flags" /\ UNCHANGED <<settings, origins>>
    BY <1>1, <2>2 DEF LayerInv, ReadFile, KeepLayers, FromFile, FromProfile
  <2>3. CASE present /\ Apply(base, "file") /\ layering' = "profile"
    BY <1>1, <2>3, ApplyLays DEF LayerInv, ReadFile, KeepLayers, FromFile
  <2> QED
    BY <1>1, <2>1, <2>2, <2>3 DEF ReadFile, Invalid
<1>2. CASE ChooseProfile
  <2>1. CASE Refused
    BY <1>2, <2>1 DEF LayerInv, ChooseProfile, KeepLayers, Refused
  <2>2. CASE named = "none" /\ layering' = "flags" /\ UNCHANGED <<settings, origins>>
    BY <1>2, <2>2 DEF LayerInv, ChooseProfile, KeepLayers, FromFile, FromProfile
  <2>3. CASE named \in {"flag", "default"} /\ Apply(profile, "profile") /\ layering' = "flags"
    BY <1>2, <2>3, ApplyLays DEF LayerInv, ChooseProfile, KeepLayers, FromFile, FromProfile
  <2> QED
    BY <1>2, <2>1, <2>2, <2>3 DEF ChooseProfile, Invalid
<1>3. CASE Override
  <2>1. /\ DOMAIN origins' = All \cup {"budgets"}
        /\ \A s \in All : <<origins'[s], settings'[s]>> =
                            IF s \in DOMAIN flags THEN <<"flags", flags[s]>> ELSE <<origins[s], settings[s]>>
    BY <1>3, ApplyLays DEF LayerInv, Override
  <2>2. \A s \in All : Used(s) = IF s \in DOMAIN flags THEN <<"flags", flags[s]>> ELSE FromProfile(s)
    BY DEF Used, FromProfile, FromFile
  <2>3. UNCHANGED <<named, present, base, profile, flags>> /\ layering = "flags" /\ layering' = "check"
    BY <1>3 DEF Override, KeepLayers
  <2>4. \A s \in All : Used(s)' = Used(s)
    BY <2>3 DEF Used
  <2>5. \A s \in All : <<origins'[s], settings'[s]>> = Used(s)'
    <3>1. \A s \in All : <<origins[s], settings[s]>> = FromProfile(s)
      BY <2>3 DEF LayerInv
    <3>2. \A s \in All : <<origins'[s], settings'[s]>> = Used(s)
      BY <2>1, <2>2, <3>1
    <3> QED
      BY <2>4, <3>2
  <2> QED
    BY <2>1, <2>3, <2>5 DEF LayerInv
<1>4. CASE CheckConsistency
  BY <1>4 DEF LayerInv, CheckConsistency, KeepLayers, Refused, Used
<1> QED
  BY <1>1, <1>2, <1>3, <1>4 DEF SettingsNext

(* Each setting a run uses is that of the highest layer that names it, and *)
(* is said to come from there (settings, doctor).                          *)
THEOREM SettingsLayered == SettingsSpec => []SettingsAreLayered
<1>1. SettingsInit => LayerInv
  BY SettingsAssumption DEF SettingsInit, LayerInv, All
<1>2. LayerInv /\ [SettingsNext]_settingsVars => LayerInv'
  <2>1. ASSUME LayerInv, UNCHANGED settingsVars PROVE LayerInv'
    BY <2>1 DEF settingsVars, LayerInv, FromFile, FromProfile, Used
  <2> QED
    BY <2>1, LayerKeeps
<1>3. LayerInv => SettingsAreLayered
  BY DEF LayerInv, SettingsAreLayered
<1> QED
  BY <1>1, <1>2, <1>3, PTL DEF SettingsSpec

-----------------------------------------------------------------------------
(* The operating exercises                                                 *)

\* What is mistaken is on record, and an agent whose phase came to its end was killed.
ExerciseInv ==
    /\ at \in Nat
    /\ mistaken = TRUE => failed = TRUE \/ slow = TRUE
    /\ phase = "agent" /\ at > 14 => crashed = TRUE
    /\ "agent" \in recorded => crashed = TRUE
    /\ verdict # "none" => phase = "verdict"
    /\ verdict = "met" => Gates

\* What runs is of the phase that started it, and has been looked for since.
LeftInv ==
    /\ running \subseteq {"first listener", "second listener", "agent"}
    /\ verdict # "interrupted" /\ failed # TRUE =>
         /\ "first listener" \in running => phase = "transport" /\ at < 9
         /\ "second listener" \in running => phase = "transport"
         /\ "agent" \in running => phase = "agent"

\* The agent is killed on purpose in the fourteenth of its eighteen steps.
LEMMA AgentIsKilled == Steps["agent"][14] = "kill" /\ Len(Steps["agent"]) = 18
  BY DEF Steps, AgentSteps

\* The listener is looked for in the eighth of the fifteen steps.
LEMMA OutageIsChecked == Steps["transport"][8] = "outage" /\ Len(Steps["transport"]) = 15
  BY DEF Steps, TransportSteps

\* A phase that ends early is on record as failed.
LEMMA EarlyKeeps ==
    ASSUME ExerciseInv, phase # "verdict", Early, UNCHANGED <<parts, crashed, verdict>>
    PROVE  ExerciseInv'
  BY DEF ExerciseInv, Early

\* The last step of a phase: the agent was killed before it.
LEMMA EndKeeps ==
    ASSUME ExerciseInv, phase # "verdict", NEW wrong \in BOOLEAN, LastStep, AtTheEnd(wrong),
           UNCHANGED <<parts, crashed, verdict>>, mistaken' = TRUE => failed' = TRUE \/ slow' = TRUE
    PROVE  ExerciseInv'
<1>1. phase = "agent" => crashed = TRUE
  <2> SUFFICES ASSUME phase = "agent" PROVE crashed = TRUE
    OBVIOUS
  <2>1. at = 18
    BY AgentIsKilled DEF LastStep
  <2> QED
    BY <2>1 DEF ExerciseInv
<1> QED
  BY <1>1 DEF ExerciseInv, AtTheEnd

\* A probe that is passed wrongly, or fails wrongly, is on record (exercise).
LEMMA ProbeKeeps ==
    ASSUME ExerciseInv, NEW found \in Outcomes, Probe(found)
    PROVE  ExerciseInv'
<1> DEFINE wrong == ~Passed(Step, found)
<1>1. /\ phase # "verdict" /\ Step # "kill" /\ UNCHANGED <<parts, crashed, verdict>>
      /\ slow' = (slow \/ found = "late") /\ mistaken' = (mistaken \/ ~Right(Step, found))
      /\ wrong \in BOOLEAN
  BY DEF Probe
<1>2. ~Right(Step, found) => wrong \/ found = "late"
  BY DEF Right, Passed, Outcomes
<1>3. mistaken' = TRUE => failed \/ slow \/ wrong \/ found = "late"
  BY <1>1, <1>2 DEF ExerciseInv
<1>4. slow \/ found = "late" => slow' = TRUE
  BY <1>1
<1>5. CASE Early
  BY <1>1, <1>5, EarlyKeeps
<1>6. CASE LastStep /\ AtTheEnd(wrong)
  <2>1. failed \/ wrong => failed' = TRUE
    BY <1>6 DEF AtTheEnd
  <2> HIDE DEF wrong
  <2> QED
    BY <1>1, <1>3, <1>4, <1>6, <2>1, EndKeeps
<1>7. CASE Onward(wrong) /\ UNCHANGED running
  <2>1. failed \/ wrong => failed' = TRUE
    BY <1>7 DEF Onward
  <2>2. mistaken' = TRUE => failed' = TRUE \/ slow' = TRUE
    BY <1>3, <1>4, <2>1
  <2>3. phase = "agent" => at # 14
    BY <1>1, AgentIsKilled DEF Step
  <2> HIDE DEF wrong
  <2> QED
    BY <1>1, <1>7, <2>2, <2>3 DEF ExerciseInv, Onward
<1> QED
  BY <1>5, <1>6, <1>7 DEF Probe

\* A step that prepares the next ones; the kill is one of them.
LEMMA SetupKeeps ==
    ASSUME ExerciseInv, NEW ok \in BOOLEAN, Setup(ok)
    PROVE  ExerciseInv'
<1>1. CASE ok
  <2>1. /\ at' = at + 1 /\ failed' = (failed \/ FALSE) /\ phase' = phase /\ recorded' = recorded /\ phase # "verdict"
        /\ crashed' = (crashed \/ Step = "kill") /\ mistaken' = (mistaken \/ ~ok) /\ UNCHANGED <<slow, verdict>>
    BY <1>1 DEF Setup, Onward
  <2>2. phase = "agent" /\ at = 14 => Step = "kill"
    BY AgentIsKilled DEF Step
  <2>3. crashed = TRUE \/ Step = "kill" => crashed' = TRUE
    BY <2>1
  <2>4. mistaken' = TRUE => failed' = TRUE \/ slow' = TRUE
    BY <1>1, <2>1 DEF ExerciseInv
  <2>5. at' \in Nat /\ (phase' = "agent" /\ at' > 14 => crashed' = TRUE) /\ ("agent" \in recorded' => crashed' = TRUE)
    BY <2>1, <2>2, <2>3 DEF ExerciseInv
  <2> QED
    BY <2>1, <2>4, <2>5 DEF ExerciseInv
<1>2. CASE ~ok
  BY <1>2, EarlyKeeps DEF Setup
<1> QED
  BY <1>1, <1>2

\* A listener that outlives its stop is on record before the outage.
LEMMA OutageKeeps == ASSUME ExerciseInv, Outage PROVE ExerciseInv'
<1> DEFINE wrong == "first listener" \in running'
<1>1. /\ Step = "outage" /\ phase # "verdict" /\ UNCHANGED <<slow, crashed, verdict, recorded, phase>> /\ at' = at + 1
      /\ failed' = (failed \/ wrong) /\ mistaken' = (mistaken \/ wrong)
  BY DEF Outage, Onward
<1>2. phase = "agent" => at # 14
  BY <1>1, AgentIsKilled DEF Step
<1> HIDE DEF wrong
<1>3. mistaken' = TRUE => failed' = TRUE \/ slow' = TRUE
  BY <1>1 DEF ExerciseInv
<1>4. verdict' = "none" /\ phase' # "verdict"
  BY <1>1 DEF ExerciseInv
<1>5. at' \in Nat /\ (phase' = "agent" /\ at' > 14 => crashed' = TRUE)
  BY <1>1, <1>2 DEF ExerciseInv
<1> QED
  BY <1>1, <1>3, <1>4, <1>5 DEF ExerciseInv

\* What is still running when its phase has looked for it is on record.
LEMMA LeftKeeps ==
    ASSUME ExerciseInv, LeftInv, ExerciseNext
    PROVE  LeftInv'
<1>1. CASE CtrlCExercise \/ Decide
  BY <1>1 DEF CtrlCExercise, Decide, LeftInv, ExerciseInv
<1>2. ASSUME Early, UNCHANGED verdict PROVE LeftInv'
  BY <1>2 DEF Early, LeftInv
<1>3. ASSUME NEW wrong \in BOOLEAN, LastStep, AtTheEnd(wrong), UNCHANGED verdict PROVE LeftInv'
  <2>1. running' \subseteq running /\ (failed = TRUE \/ Unreleased(running') => failed' = TRUE)
    BY <1>3 DEF AtTheEnd
  <2>2. phase = "transport" => at = 15
    BY <1>3, OutageIsChecked DEF LastStep
  <2>3. ASSUME verdict' # "interrupted", failed' # TRUE PROVE running' = {}
    <3>0. /\ "first listener" \in running => phase = "transport" /\ at < 9
          /\ "second listener" \in running => phase = "transport"
          /\ "agent" \in running => phase = "agent"
      BY <1>3, <2>1, <2>3 DEF LeftInv
    <3>1. "first listener" \notin running'
      <4>1. at = 15 => ~(at < 9)
        OBVIOUS
      <4> QED
        BY <2>1, <2>2, <3>0, <4>1, Zenon
    <3>2. "second listener" \notin running' /\ "agent" \notin running'
      BY <2>1, <2>3, <3>0 DEF Unreleased, Held
    <3> QED
      BY <2>1, <3>1, <3>2 DEF LeftInv
  <2> QED
    BY <2>1, <2>3 DEF LeftInv
<1>4. ASSUME phase = "transport" => at # 8, NEW wrong \in BOOLEAN, Onward(wrong), UNCHANGED verdict,
             running' \subseteq {"first listener", "second listener", "agent"},
             "first listener" \in running' => "first listener" \in running \/ (phase = "transport" /\ at = 1),
             "second listener" \in running' => "second listener" \in running \/ phase = "transport",
             "agent" \in running' => "agent" \in running \/ phase = "agent"
      PROVE  LeftInv'
  <2>1. at' = at + 1 /\ phase' = phase /\ (failed = TRUE => failed' = TRUE) /\ at \in Nat
    BY <1>4 DEF Onward, ExerciseInv
  <2>0. (at < 9 /\ at # 8 => at < 8) /\ (at = 1 => at < 8) /\ (at < 8 => at' < 9)
    BY <2>1
  <2>2. ASSUME verdict' # "interrupted", failed' # TRUE
        PROVE  /\ "first listener" \in running => phase = "transport" /\ at < 9
               /\ "second listener" \in running => phase = "transport"
               /\ "agent" \in running => phase = "agent"
    BY <1>4, <2>1, <2>2 DEF LeftInv
  <2>3. ASSUME verdict' # "interrupted", failed' # TRUE
        PROVE  /\ "first listener" \in running' => phase' = "transport" /\ at' < 9
               /\ "second listener" \in running' => phase' = "transport"
               /\ "agent" \in running' => phase' = "agent"
    <3>1. "first listener" \in running' => phase' = "transport" /\ at < 8
      <4>1. "first listener" \in running => phase = "transport" /\ at < 9 /\ at # 8
        BY <1>4, <2>2, <2>3
      <4> QED
        BY <1>4, <2>0, <2>1, <4>1, Zenon
    <3>2. ("second listener" \in running' => phase' = "transport") /\ ("agent" \in running' => phase' = "agent")
      BY <1>4, <2>1, <2>2, <2>3
    <3> QED
      BY <2>0, <3>1, <3>2, Zenon
  <2> QED
    BY <1>4, <2>3 DEF LeftInv
<1>5. ASSUME NEW found \in Outcomes, Probe(found) PROVE LeftInv'
  <2> DEFINE wrong == ~Passed(Step, found)
  <2>1. verdict' = verdict /\ wrong \in BOOLEAN
    BY <1>5 DEF Probe
  <2>2. phase = "transport" => at # 8
    BY <1>5, OutageIsChecked DEF Probe, Step
  <2>3. Early \/ (LastStep /\ AtTheEnd(wrong)) \/ (Onward(wrong) /\ UNCHANGED running)
    BY <1>5 DEF Probe
  <2> HIDE DEF wrong
  <2>4. CASE Onward(wrong) /\ UNCHANGED running
    <3>1. running' = running /\ running \subseteq {"first listener", "second listener", "agent"}
      BY <2>4 DEF LeftInv
    <3>2. /\ running' \subseteq {"first listener", "second listener", "agent"}
          /\ "first listener" \in running' => "first listener" \in running
          /\ "second listener" \in running' => "second listener" \in running
          /\ "agent" \in running' => "agent" \in running
      BY <3>1
    <3>3. Onward(wrong) /\ UNCHANGED verdict
      BY <2>1, <2>4
    <3> QED
      BY <1>4, <2>1, <2>2, <3>2, <3>3, Zenon
  <2> QED
    BY <1>2, <1>3, <2>1, <2>3, <2>4
<1>6. ASSUME NEW ok \in BOOLEAN, Setup(ok) PROVE LeftInv'
  <2>1. CASE ok
    <3>1. Onward(FALSE) /\ verdict' = verdict
      BY <1>6, <2>1 DEF Setup
    <3>2. phase = "transport" => at # 8
      BY <1>6, OutageIsChecked DEF Setup, Step
    <3>3. \/ running' = running
          \/ running' = running \ {"agent"}
          \/ phase = "transport" /\ running' = running \cup {Listener}
          \/ phase = "agent" /\ running' = running \cup {"agent"}
      <4> HIDE DEF Listener, Step
      <4> QED
        BY <1>6, <2>1 DEF Setup
    <3>4. (Listener = "first listener" /\ at = 1) \/ Listener = "second listener"
      BY DEF Listener
    <3>5. running \subseteq {"first listener", "second listener", "agent"}
      BY DEF LeftInv
    <3>6. /\ running' \subseteq {"first listener", "second listener", "agent"}
          /\ "first listener" \in running' => "first listener" \in running \/ (phase = "transport" /\ at = 1)
          /\ "second listener" \in running' => "second listener" \in running \/ phase = "transport"
          /\ "agent" \in running' => "agent" \in running \/ phase = "agent"
      <4>1. CASE phase = "transport" /\ running' = running \cup {Listener}
        <5>1. PICK l \in {"first listener", "second listener"} : l = Listener /\ (l = "first listener" => at = 1)
          BY <3>4
        <5>2. running' = running \cup {l}
          BY <4>1, <5>1
        <5> QED
          BY <3>5, <4>1, <5>1, <5>2
      <4>2. CASE running' = running \/ running' = running \ {"agent"}
        BY <3>5, <4>2
      <4>3. CASE phase = "agent" /\ running' = running \cup {"agent"}
        BY <3>5, <4>3
      <4> QED
        BY <3>3, <4>1, <4>2, <4>3
    <3> QED
      BY <1>4, <3>1, <3>2, <3>6
  <2>2. CASE ~ok
    BY <1>2, <1>6, <2>2 DEF Setup
  <2> QED
    BY <2>1, <2>2
<1>7. CASE Outage
  <2> DEFINE wrong == "first listener" \in running'
  <2>1. running' \subseteq running /\ verdict' = verdict /\ Onward(wrong)
    BY <1>7 DEF Outage
  <2>2. phase' = phase /\ (failed = TRUE \/ "first listener" \in running' => failed' = TRUE)
    BY <2>1 DEF Onward
  <2> QED
    BY <2>1, <2>2 DEF LeftInv
<1> QED
  BY <1>1, <1>5, <1>6, <1>7 DEF ExerciseNext

(* "Operating prerequisites met" is only said where nothing that should work *)
(* was refused and nothing that should be refused worked, and the agent was *)
(* killed and came back; a listener or an agent that outlives the exercise *)
(* is on record, unless Ctrl+C left it (exercise).                         *)
THEOREM VerdictEarned == ExerciseSpec => []PrerequisitesAreEarned
<1> DEFINE IInv == ExerciseInv /\ LeftInv
<1>1. ExerciseInit => IInv
  BY DEF ExerciseInit, ExerciseInv, LeftInv
<1>2. IInv /\ [ExerciseNext]_exerciseVars => IInv'
  <2>1. ASSUME ExerciseInv, CtrlCExercise \/ Decide \/ UNCHANGED exerciseVars PROVE ExerciseInv'
    BY <2>1 DEF CtrlCExercise, Decide, exerciseVars, ExerciseInv, Gates, Asked
  <2>2. ASSUME LeftInv, UNCHANGED exerciseVars PROVE LeftInv'
    BY <2>2 DEF exerciseVars, LeftInv
  <2> QED
    BY <2>1, <2>2, ProbeKeeps, SetupKeeps, OutageKeeps, LeftKeeps DEF ExerciseNext
<1>3. IInv => PrerequisitesAreEarned
  <2> SUFFICES ASSUME IInv PROVE PrerequisitesAreEarned
    OBVIOUS
  <2>1. mistaken => failed \/ slow
    BY DEF ExerciseInv
  <2>2. verdict = "met" => ~mistaken /\ ("agent" \in parts => crashed) /\ ~failed
    BY <2>1 DEF ExerciseInv, Gates, Asked
  <2>3. verdict \in {"met", "unmet"} /\ running # {} => failed
    BY DEF ExerciseInv, LeftInv
  <2> QED
    BY <2>1, <2>2, <2>3 DEF PrerequisitesAreEarned
<1> QED
  BY <1>1, <1>2, <1>3, PTL DEF ExerciseSpec

-----------------------------------------------------------------------------
(* The leak detector                                                       *)

\* The processes of a target, as they are read.
TreeType(t) ==
    /\ IsFiniteSet(DOMAIN t) /\ DOMAIN t \subseteq Nat \ {0}
    /\ t \in [DOMAIN t -> [created : Nat, value : Nat, readable : BOOLEAN]]

\* A set of natural numbers has a least one.
LEMMA HasLeast ==
    ASSUME NEW S, S \subseteq Nat, S # {}
    PROVE  Min(S) \in S /\ \A n \in S : Min(S) <= n
<1> DEFINE R == OpToRel(<, Nat)
<1>1. R = {p \in Nat \X Nat : p[1] < p[2]}
  BY DEF OpToRel
<1>2. IsWellFoundedOn(R, Nat)
  BY NatLessThanWellFounded
<1> HIDE DEF R
<1>3. PICK x \in S : \A y \in S : ~(<<y, x>> \in R)
  BY <1>2, WFMin
<1>4. \A y \in S : x <= y
  <2> SUFFICES ASSUME NEW y \in S, y < x PROVE FALSE
    OBVIOUS
  <2>1. <<y, x>> \in R
    BY <1>1
  <2> QED
    BY <1>3, <2>1
<1>5. \E m \in S : \A n \in S : m <= n
  BY <1>4
<1> QED
  BY <1>5 DEF Min

\* Growth leaves a tree a tree, with the same processes unreadable.
LEMMA GrownType == ASSUME NEW t, TreeType(t) PROVE TreeType(Grown(t)) /\ Unmeasured(Grown(t)) = Unmeasured(t)
<1> DEFINE g == Grown(t)
<1>1. DOMAIN g = DOMAIN t /\ \A p \in DOMAIN t : g[p] = IF p = Root THEN [t[p] EXCEPT !.value = @ + 1] ELSE t[p]
  BY DEF Grown
<1>2. \A p \in DOMAIN t : g[p] \in [created : Nat, value : Nat, readable : BOOLEAN] /\ g[p].readable = t[p].readable
  BY <1>1 DEF TreeType
<1>3. g = [p \in DOMAIN t |-> g[p]]
  BY <1>1 DEF Grown
<1> HIDE DEF g
<1>4. g \in [DOMAIN t -> [created : Nat, value : Nat, readable : BOOLEAN]]
  BY <1>2, <1>3
<1>5. TreeType(g)
  BY <1>1, <1>4 DEF TreeType
<1>6. Unmeasured(g) = Unmeasured(t)
  BY <1>1, <1>2 DEF Unmeasured
<1> QED
  BY <1>5, <1>6 DEF g

\* A tree whose processes are those of a typed one, or new and typed.
LEMMA TreeIsTyped ==
    ASSUME NEW t, TreeType(t), NEW u, NEW p, p \in Nat \ {0}, DOMAIN u \subseteq DOMAIN t \cup {p},
           u = [q \in DOMAIN u |-> u[q]],
           \A q \in DOMAIN u : \/ q \in DOMAIN t /\ u[q] = t[q]
                               \/ u[q] \in [created : Nat, value : Nat, readable : BOOLEAN]
    PROVE  TreeType(u)
<1>1. IsFiniteSet(DOMAIN t \cup {p})
  BY FS_AddElement DEF TreeType
<1>2. IsFiniteSet(DOMAIN u)
  BY <1>1, FS_Subset
<1>3. \A q \in DOMAIN u : u[q] \in [created : Nat, value : Nat, readable : BOOLEAN]
  BY DEF TreeType
<1>4. u \in [DOMAIN u -> [created : Nat, value : Nat, readable : BOOLEAN]]
  BY <1>3
<1> QED
  BY <1>2, <1>4 DEF TreeType

\* So does whatever else happens to it.
LEMMA MovedType ==
    ASSUME NEW t, TreeType(t), ticks \in Nat, NEW u \in Moved(t)
    PROVE  TreeType(u)
<1> USE DetectorAssumption
<1> DEFINE P == [created : Nat, value : Nat, readable : BOOLEAN]
<1>0. \A q \in DOMAIN t : t[q] \in P
  BY DEF TreeType
<1>1. CASE u = t
  BY <1>1
<1>2. CASE u = [t EXCEPT ![Root].value = Max({0, @ - 2})]
  <2>1. \A n \in Nat : Max({0, n - 2}) \in Nat
    <3> SUFFICES ASSUME NEW n \in Nat PROVE Max({0, n - 2}) \in Nat
      OBVIOUS
    <3>1. \E m \in {0, n - 2} : \A k \in {0, n - 2} : m >= k
      <4>1. CASE n >= 2
        BY <4>1
      <4>2. CASE ~(n >= 2)
        BY <4>2
      <4> QED
        BY <4>1, <4>2
    <3>2. Max({0, n - 2}) \in {0, n - 2} /\ Max({0, n - 2}) >= 0
      BY <3>1 DEF Max
    <3> QED
      BY <3>2
  <2>2. \A q \in DOMAIN u : u[q] \in P
    BY <1>0, <1>2, <2>1
  <2>3. DOMAIN u \subseteq DOMAIN t \cup {Root} /\ u = [q \in DOMAIN u |-> u[q]] /\ Root \in Nat \ {0}
    BY <1>2
  <2> QED
    BY <2>2, <2>3, TreeIsTyped
<1>3. CASE u \in Spawned(t)
  <2> DEFINE free == Pids \ DOMAIN t
  <2>1. free # {}
    BY <1>3 DEF Spawned
  <2>2. Min(free) \in Nat \ {0}
    BY <2>1, HasLeast
  <2>3. PICK m : m = Min(free)
    OBVIOUS
  <2>4. PICK r \in BOOLEAN : u = [p \in DOMAIN t \cup {m} |->
            IF p \in DOMAIN t THEN t[p] ELSE [created |-> ticks, value |-> 2, readable |-> r]]
    BY <1>3, <2>1, <2>3 DEF Spawned
  <2>5. \A q \in DOMAIN u : u[q] \in P
    BY <1>0, <2>4
  <2>6. DOMAIN u \subseteq DOMAIN t \cup {m} /\ u = [q \in DOMAIN u |-> u[q]] /\ m \in Nat \ {0}
    BY <2>2, <2>3, <2>4
  <2> QED
    BY <2>5, <2>6, TreeIsTyped
<1>4. CASE \E p \in DOMAIN t \ {Root} : u = [q \in DOMAIN t \ {p} |-> t[q]]
  BY <1>4, TreeIsTyped
<1>5. CASE \E p \in DOMAIN t \ {Root} : u = [t EXCEPT ![p] = [created |-> ticks, value |-> 1, readable |-> TRUE]]
  <2>1. PICK p \in DOMAIN t : u = [t EXCEPT ![p] = [created |-> ticks, value |-> 1, readable |-> TRUE]]
    BY <1>5
  <2>2. \A q \in DOMAIN u : u[q] \in P
    BY <1>0, <2>1
  <2>3. DOMAIN u \subseteq DOMAIN t \cup {Root} /\ u = [q \in DOMAIN u |-> u[q]] /\ Root \in Nat \ {0}
    BY <2>1
  <2> QED
    BY <2>2, <2>3, TreeIsTyped
<1>6. CASE \E p \in DOMAIN t : u = [t EXCEPT ![p].readable = ~@]
  <2>1. PICK p \in DOMAIN t : u = [t EXCEPT ![p].readable = ~@]
    BY <1>6
  <2>2. \A q \in DOMAIN u : u[q] \in P
    BY <1>0, <2>1
  <2>3. DOMAIN u \subseteq DOMAIN t \cup {Root} /\ u = [q \in DOMAIN u |-> u[q]] /\ Root \in Nat \ {0}
    BY <2>1
  <2> QED
    BY <2>2, <2>3, TreeIsTyped
<1> QED
  BY <1>1, <1>2, <1>3, <1>4, <1>5, <1>6 DEF Moved

\* A total is an integer.
LEMMA TotalsType ==
    ASSUME NEW t, TreeType(t)
    PROVE  Totals(t) \in Int
<1> DEFINE f == [p \in {q \in DOMAIN t : t[q].readable} |-> t[p].value]
<1>1. IsFiniteSet({q \in DOMAIN t : t[q].readable})
  BY FS_Subset DEF TreeType
<1>2. Summable(f)
  BY <1>1 DEF Summable, TreeType
<1> HIDE DEF f
<1>3. SumOver(f) \in Int
  BY <1>2, SumType
<1> QED
  BY <1>3 DEF Totals, f

\* A point of a series.
Point == [at : Nat, value : Int, mono : Nat, missing : SUBSET Nat]

\* Points that compare, all after since on the monotonic clock.
Comparable(points, since) ==
    /\ points \in Seq(Point)
    /\ \A i, j \in 1..Len(points) :
          /\ points[i].missing = points[j].missing
          /\ i < j => points[i].at < points[j].at
          /\ points[j].at - points[i].at = points[j].mono - points[i].mono
    /\ \A i \in 1..Len(points) : points[i].mono > since

\* The clocks, and what a tick remembers of them.
ClockType ==
    /\ wall \in Nat /\ mono \in Nat /\ ticks \in Nat /\ warmed \in Nat
    /\ timing = <<>> \/ timing = <<wall, mono>>
    /\ active = None \/ active \in 0..mono
    /\ paused = None \/ paused \in 0..mono

\* The points of a series go up to now, on both clocks, and leave out the
\* processes that cannot be read now.
SeriesInv ==
    /\ Comparable(series.points, paused)
    /\ \A i \in 1..Len(series.points) :
          /\ series.points[i].missing = series.segment
          /\ series.points[i].at <= wall /\ wall - series.points[i].at = mono - series.points[i].mono
    /\ series.points # <<>> => timing # <<>> /\ warmed >= Warmup /\ series.segment = Unmeasured(tree)

\* What is judged compares, and nothing is while sampling rests.
JudgedInv ==
    /\ \A p \in judged : Comparable(p, paused)
    /\ timing = <<>> => judged = {}

\* The invariant of what is measured.
MeasureInv == ClockType /\ TreeType(tree) /\ SeriesInv /\ JudgedInv

\* The clocks go on by the same, or part by more than is tolerated.
ClockStep == (wall' - wall) - (mono' - mono) \in {-4, 0, 4}

\* A tick moves the tree and the clocks, and then does one of three things.
LEMMA TickIsOneOf ==
    ASSUME MeasureInv, DetectorNext
    PROVE  /\ TreeType(tree') /\ wall' \in Nat /\ mono' \in Nat /\ mono' > mono /\ ticks' \in Nat
           /\ ClockStep
           /\ \/ CollectTick /\ paused' = paused
              \/ FailedTick /\ paused' = paused /\ Unmeasured(tree') = Unmeasured(tree)
              \/ PausedTick /\ paused' = mono'
<1>1. TreeType(Grown(tree)) /\ Unmeasured(Grown(tree)) = Unmeasured(tree)
  BY GrownType DEF MeasureInv
<1>2. \A u \in Moved(tree) : TreeType(u)
  BY MovedType DEF MeasureInv, ClockType
<1>3. wall \in Nat /\ mono \in Nat /\ ticks \in Nat
  BY DEF MeasureInv, ClockType
<1>4. ticks' = ticks + 1
  BY DEF DetectorNext, Grow, Move, ClockMoves, Fail, Paused, Event, Tick
<1>5. CASE Grow
  BY <1>1, <1>3, <1>4, <1>5 DEF Grow, ClockStep
<1>6. CASE Move
  BY <1>2, <1>3, <1>4, <1>6 DEF Move, ClockStep
<1>7. CASE ClockMoves
  BY <1>1, <1>3, <1>4, <1>7 DEF ClockMoves, ClockStep
<1>8. CASE Fail
  BY <1>1, <1>3, <1>4, <1>8 DEF Fail, ClockStep
<1>9. CASE Paused
  BY <1>1, <1>3, <1>4, <1>9 DEF Paused, ClockStep
<1> QED
  BY <1>5, <1>6, <1>7, <1>8, <1>9 DEF DetectorNext

\* Of points that compare any selection compares.
LEMMA SelectedCompare ==
    ASSUME NEW points, NEW since, Comparable(points, since), NEW I
    PROVE  /\ Comparable(Selected(points, I), since)
           /\ \A k \in 1..Len(Selected(points, I)) :
                 \E i \in I \cap (1..Len(points)) : Selected(points, I)[k] = points[i]
<1> DEFINE r == Selected(points, I)
<1>1. r \in Seq(Point)
  BY SelectedPlaces DEF Comparable
<1>2. PICK h : Places(h, r, points, I, Len(points))
  BY SelectedPlaces DEF Comparable
<1> HIDE DEF r
<1>3. \A k \in 1..Len(r) : h[k] \in I \cap (1..Len(points)) /\ r[k] = points[h[k]]
  BY <1>2 DEF Places
<1>4. \A j, k \in 1..Len(r) : j < k => h[j] < h[k]
  BY <1>2 DEF Places
<1>5. \A i, j \in 1..Len(r) :
          /\ r[i].missing = r[j].missing
          /\ i < j => r[i].at < r[j].at
          /\ r[j].at - r[i].at = r[j].mono - r[i].mono
  BY <1>3, <1>4 DEF Comparable
<1>6. \A i \in 1..Len(r) : r[i].mono > since
  BY <1>3 DEF Comparable
<1>7. Comparable(r, since)
  BY <1>1, <1>5, <1>6 DEF Comparable
<1> QED
  BY <1>3, <1>7 DEF r

\* No points compare.
LEMMA NothingCompares ==
    ASSUME NEW since
    PROVE  Comparable(<<>>, since)
  BY DEF Comparable

\* The clocks of points that compare.
LEMMA PointTypes ==
    ASSUME NEW points, NEW since, Comparable(points, since)
    PROVE  \A i \in 1..Len(points) : points[i] \in Point /\ points[i].at \in Nat /\ points[i].mono \in Nat
<1>1. \A i \in 1..Len(points) : points[i] \in Point
  BY DEF Comparable
<1> QED
  BY <1>1 DEF Point

\* A point after all others, by both clocks, compares with them.
LEMMA AppendCompares ==
    ASSUME NEW points, NEW since \in Int, Comparable(points, since), NEW q \in Point, q.mono > since,
           \A i \in 1..Len(points) :
              /\ points[i].missing = q.missing
              /\ points[i].at < q.at /\ q.at - points[i].at = q.mono - points[i].mono
    PROVE  /\ Comparable(Append(points, q), since)
           /\ \A i \in 1..Len(Append(points, q)) : Append(points, q)[i] = q \/ \E j \in 1..Len(points) : Append(points, q)[i] = points[j]
<1> DEFINE all == Append(points, q)
           L == Len(points)
<1>1. points \in Seq(Point) /\ L \in Nat
  BY DEF Comparable
<1>2. all \in Seq(Point) /\ Len(all) = L + 1 /\ all[L + 1] = q /\ \A i \in 1..L : all[i] = points[i]
  BY <1>1
<1> HIDE DEF all
<1>3. \A i \in 1..L + 1 : i = L + 1 \/ i \in 1..L
  BY <1>1
<1> HIDE DEF L
<1>4. \A i \in 1..L + 1 : all[i].at \in Nat /\ all[i].mono \in Nat /\ all[i].missing = q.missing
  <2>1. \A i \in 1..L + 1 : all[i] \in Point
    BY <1>1, <1>2
  <2>2. \A i \in 1..L + 1 : all[i].missing = q.missing
    BY <1>2, <1>3 DEF L
  <2> QED
    BY <2>1, <2>2 DEF Point
<1>5. \A i \in 1..L + 1 : q.at - all[i].at = q.mono - all[i].mono
  <2>1. q.at \in Nat /\ q.mono \in Nat
    BY DEF Point
  <2> QED
    BY <1>2, <1>3, <2>1 DEF L
<1>6. \A i, j \in 1..L + 1 : all[j].at - all[i].at = all[j].mono - all[i].mono
  <2> SUFFICES ASSUME NEW i \in 1..L + 1, NEW j \in 1..L + 1
               PROVE  all[j].at - all[i].at = all[j].mono - all[i].mono
    OBVIOUS
  <2>1. PICK a, b, c, d \in Nat : a = all[i].at /\ b = all[j].at /\ c = all[i].mono /\ d = all[j].mono
    BY <1>4
  <2>2. PICK x, y \in Nat : x = q.at /\ y = q.mono
    BY DEF Point
  <2>3. x - a = y - c /\ x - b = y - d
    BY <1>5, <2>1, <2>2
  <2>4. b - a = d - c
    BY <2>3
  <2> QED
    BY <2>1, <2>4
<1>7. \A i, j \in 1..L + 1 : i < j => all[i].at < all[j].at
  <2> SUFFICES ASSUME NEW i \in 1..L + 1, NEW j \in 1..L + 1, i < j PROVE all[i].at < all[j].at
    OBVIOUS
  <2>1. i \in 1..L
    BY <1>1
  <2>2. CASE j = L + 1
    BY <1>2, <2>1, <2>2 DEF L
  <2>3. CASE j \in 1..L
    BY <1>2, <2>1, <2>3 DEF L, Comparable
  <2> QED
    BY <1>3, <2>2, <2>3
<1>8. \A i \in 1..L + 1 : all[i].mono > since
  BY <1>2, <1>3 DEF L, Comparable
<1>9. Comparable(all, since)
  BY <1>2, <1>4, <1>6, <1>7, <1>8 DEF Comparable
<1>10. \A i \in 1..Len(all) : all[i] = q \/ \E j \in 1..L : all[i] = points[j]
  BY <1>2, <1>3
<1> QED
  BY <1>9, <1>10 DEF all, L

\* Unless the windows were restarted, the wall clock went on.
LEMMA ClockAdvances ==
    ASSUME ClockType, timing # <<>>, ~Restarts, wall' \in Nat
    PROVE  wall' > wall
<1>1. timing[1] = wall /\ wall \in Nat
  BY DEF ClockType
<1>2. ~(wall' <= timing[1])
  BY DEF Restarts, Adjusted
<1> QED
  BY <1>1, <1>2

\* Then both clocks went on by the same.
LEMMA ClocksAgree ==
    ASSUME ClockType, timing # <<>>, ~Restarts, wall' \in Nat, mono' \in Nat, ClockStep
    PROVE  wall' > wall /\ wall' - wall = mono' - mono
<1>1. timing[1] = wall /\ timing[2] = mono /\ wall \in Nat /\ mono \in Nat
  BY DEF ClockType
<1>2. (wall' - wall) - (mono' - mono) \in -1..1
  BY <1>1 DEF Restarts, Adjusted
<1> DEFINE w == wall' - wall
           m == mono' - mono
<1>3. w \in Int /\ m \in Int
  BY <1>1
<1>4. w - m \in -1..1 /\ w - m \in {-4, 0, 4}
  BY <1>2 DEF ClockStep
<1> HIDE DEF w, m
<1>5. w = m
  BY <1>3, <1>4
<1> QED
  BY <1>5, ClockAdvances DEF w, m

\* What a sample leaves of a series, and adds to it.
LEMMA ExtendsSeries ==
    ASSUME MeasureInv, TreeType(tree'), wall' \in Nat, mono' \in Nat, mono' > mono, ClockStep,
           NEW s, s = (IF Restarts THEN EmptySeries ELSE series), NEW e, e = Extended(s, tree', wall')
    PROVE  /\ Comparable(e.points, paused)
           /\ \A i \in 1..Len(e.points) :
                 /\ e.points[i].missing = e.segment
                 /\ e.points[i].at <= wall' /\ wall' - e.points[i].at = mono' - e.points[i].mono
           /\ e.points # <<>> => e.segment = Unmeasured(tree')
<1>1. CASE Unmeasured(tree') = DOMAIN tree'
  BY <1>1, NothingCompares DEF Extended, EmptySeries
<1>2. CASE Unmeasured(tree') # DOMAIN tree'
  <2>1. PICK point : point = [at |-> wall', value |-> Totals(tree'), mono |-> mono', missing |-> Unmeasured(tree')]
    OBVIOUS
  <2>2. PICK points : points = IF s.segment = Unmeasured(tree') /\ (s.points = <<>> \/ Last(s.points).at < wall')
                               THEN s.points ELSE <<>>
    OBVIOUS
  <2>3. PICK all : all = Append(points, point)
    OBVIOUS
  <2>4. e = [points |-> Selected(all, {i \in DOMAIN all : all[i].at >= wall' - MaxAge}), segment |-> Unmeasured(tree')]
    BY <1>2, <2>1, <2>2, <2>3 DEF Extended, Since
  <2>5. point \in Point /\ point.at = wall' /\ point.mono = mono' /\ point.missing = Unmeasured(tree')
    <3>1. Unmeasured(tree') \in SUBSET Nat
      BY DEF Unmeasured, TreeType
    <3>2. Totals(tree') \in Int
      BY TotalsType
    <3> QED
      BY <2>1, <3>1, <3>2 DEF Point
  <2>6. paused \in Int /\ mono' > paused
    BY DEF None, MeasureInv, ClockType
  <2>7. /\ Comparable(points, paused)
        /\ \A i \in 1..Len(points) :
              /\ points[i].missing = Unmeasured(tree')
              /\ points[i].at < wall' /\ wall' - points[i].at = mono' - points[i].mono
    <3>1. CASE points = <<>>
      <4>1. Comparable(points, paused)
        BY <3>1, NothingCompares
      <4> QED
        BY <3>1, <4>1
    <3>2. CASE points # <<>>
      <4>1. s.segment = Unmeasured(tree') /\ points = s.points
        BY <2>2, <3>2
      <4>2. s = series /\ ~Restarts
        BY <3>2, <4>1 DEF EmptySeries
      <4>3. timing # <<>>
        BY <3>2, <4>1, <4>2 DEF MeasureInv, SeriesInv
      <4>4. wall' > wall /\ wall' - wall = mono' - mono /\ wall \in Nat /\ mono \in Nat
        BY <4>2, <4>3, ClocksAgree DEF MeasureInv, ClockType
      <4>5. Comparable(points, paused)
        BY <4>1, <4>2 DEF MeasureInv, SeriesInv
      <4>6. \A i \in 1..Len(points) : points[i].at \in Nat /\ points[i].mono \in Nat
        BY <4>5, PointTypes
      <4>7. \A i \in 1..Len(points) :
              /\ points[i].missing = Unmeasured(tree')
              /\ points[i].at <= wall /\ wall - points[i].at = mono - points[i].mono
        BY <4>1, <4>2 DEF MeasureInv, SeriesInv
      <4> SUFFICES ASSUME NEW i \in 1..Len(points)
                   PROVE  points[i].at < wall' /\ wall' - points[i].at = mono' - points[i].mono
        BY <4>5, <4>7
      <4>8. PICK a, m \in Nat : a = points[i].at /\ m = points[i].mono
        BY <4>6
      <4>9. a <= wall /\ wall - a = mono - m
        BY <4>7, <4>8
      <4>10. a < wall' /\ wall' - a = mono' - m
        BY <4>4, <4>9
      <4> QED
        BY <4>8, <4>10
    <3> QED
      BY <3>1, <3>2
  <2>8. /\ Comparable(all, paused)
        /\ \A i \in 1..Len(all) : all[i] = point \/ \E j \in 1..Len(points) : all[i] = points[j]
    BY <2>3, <2>5, <2>6, <2>7, AppendCompares
  <2>9. \A i \in 1..Len(all) :
          /\ all[i].missing = Unmeasured(tree')
          /\ all[i].at <= wall' /\ wall' - all[i].at = mono' - all[i].mono
    <3>1. point.at <= wall' /\ wall' - point.at = mono' - point.mono
      BY <2>5
    <3>2. \A j \in 1..Len(points) : points[j].at <= wall'
      BY <2>7, PointTypes
    <3> QED
      BY <2>5, <2>7, <2>8, <3>1, <3>2
  <2>10. PICK I, r : I = {i \in DOMAIN all : all[i].at >= wall' - MaxAge} /\ r = Selected(all, I)
    OBVIOUS
  <2>11. Comparable(r, paused) /\ \A k \in 1..Len(r) : \E i \in 1..Len(all) : r[k] = all[i]
    <3>1. Comparable(all, paused)
      BY <2>8
    <3>2. /\ Comparable(Selected(all, I), paused)
          /\ \A k \in 1..Len(Selected(all, I)) : \E i \in I \cap (1..Len(all)) : Selected(all, I)[k] = all[i]
      BY <3>1, SelectedCompare
    <3> QED
      BY <2>10, <3>2
  <2>12. e.points = r /\ e.segment = Unmeasured(tree')
    BY <2>4, <2>10
  <2> QED
    BY <2>9, <2>11, <2>12
<1> QED
  BY <1>1, <1>2

\* A sample does not set the warm-up back.
LEMMA WarmsUp ==
    ASSUME MeasureInv, mono' \in Nat, mono' > mono, CollectTick
    PROVE  warmed' \in Nat /\ warmed' >= warmed
<1>1. mono \in Nat /\ warmed \in Nat /\ (active = None \/ active \in 0..mono)
  BY DEF MeasureInv, ClockType
<1>2. warmed' = IF Restarts \/ active = None THEN warmed ELSE warmed + (mono' - active)
  BY DEF CollectTick
<1>3. CASE Restarts \/ active = None
  BY <1>1, <1>2, <1>3
<1>4. CASE ~(Restarts \/ active = None)
  <2>1. active \in 0..mono
    BY <1>1, <1>4
  <2>2. warmed' = warmed + (mono' - active)
    BY <1>2, <1>4, Zenon
  <2>3. PICK a, m, n, w \in Nat : a = active /\ m = mono /\ n = mono' /\ w = warmed
    BY <1>1, <2>1
  <2>4. a <= m /\ m < n
    BY <2>1, <2>3
  <2>5. w + (n - a) \in Nat /\ w + (n - a) >= w
    BY <2>4
  <2> QED
    BY <2>2, <2>3, <2>5
<1> QED
  BY <1>3, <1>4

\* Collecting a sample keeps the invariant of what is measured.
LEMMA CollectMeasures ==
    ASSUME MeasureInv, TreeType(tree'), wall' \in Nat, mono' \in Nat, mono' > mono, ticks' \in Nat,
           ClockStep, CollectTick, paused' = paused
    PROVE  MeasureInv'
<1>1. mono \in Nat /\ warmed \in Nat /\ (active = None \/ active \in 0..mono) /\ (paused = None \/ paused \in 0..mono)
  BY DEF MeasureInv, ClockType
<1>2. warmed' \in Nat /\ warmed' >= warmed
  BY WarmsUp
<1>3. ClockType'
  <2>1. active' \in 0..mono' /\ (paused' = None \/ paused' \in 0..mono')
    BY <1>1 DEF CollectTick
  <2> QED
    BY <1>2, <2>1 DEF CollectTick, ClockType
<1>4. PICK s : s = IF Restarts THEN EmptySeries ELSE series
  OBVIOUS
<1>5. series' = IF warmed' < Warmup THEN s ELSE Extended(s, tree', wall')
  BY <1>4 DEF CollectTick
<1>6. timing' = <<wall', mono'>> /\ timing' # <<>>
  BY DEF CollectTick
<1>7. SeriesInv'
  <2>1. CASE warmed' < Warmup
    <3>1. s.points = <<>>
      <4>1. CASE Restarts
        BY <1>4, <4>1 DEF EmptySeries
      <4>2. CASE ~Restarts
        <5>1. series.points # <<>> => warmed >= Warmup
          BY DEF MeasureInv, SeriesInv
        <5> QED
          BY <1>1, <1>2, <1>4, <2>1, <4>2, <5>1, DetectorAssumption
      <4> QED
        BY <4>1, <4>2
    <3>2. series'.points = <<>>
      BY <1>5, <2>1, <3>1
    <3> QED
      BY <3>2, NothingCompares DEF SeriesInv
  <2>2. CASE ~(warmed' < Warmup)
    <3>1. PICK e : e = Extended(s, tree', wall')
      OBVIOUS
    <3>2. /\ Comparable(e.points, paused)
          /\ \A i \in 1..Len(e.points) :
                /\ e.points[i].missing = e.segment
                /\ e.points[i].at <= wall' /\ wall' - e.points[i].at = mono' - e.points[i].mono
          /\ e.points # <<>> => e.segment = Unmeasured(tree')
      BY <1>4, <3>1, ExtendsSeries
    <3>3. series' = e /\ warmed' >= Warmup
      BY <1>2, <1>5, <2>2, <3>1, DetectorAssumption
    <3> QED
      BY <1>6, <3>2, <3>3 DEF SeriesInv, Unmeasured
  <2> QED
    BY <2>1, <2>2
<1>8. \A p \in judged' : Comparable(p, paused')
  <2> SUFFICES ASSUME NEW p \in judged' PROVE Comparable(p, paused')
    OBVIOUS
  <2>1. PICK w : p = InWindow(series'.points, wall', w)
    BY DEF CollectTick
  <2>2. PICK I, q : q = series'.points /\ I = {i \in DOMAIN q : q[i].at >= wall' - w} /\ p = Selected(q, I)
    BY <2>1 DEF InWindow, Since
  <2>3. Comparable(q, paused')
    BY <1>7, <2>2 DEF SeriesInv
  <2> QED
    BY <2>2, <2>3, SelectedCompare
<1>9. JudgedInv'
  BY <1>6, <1>8 DEF JudgedInv
<1> QED
  BY <1>3, <1>7, <1>9 DEF MeasureInv

\* So does a collection that fails.
LEMMA FailureMeasures ==
    ASSUME MeasureInv, TreeType(tree'), wall' \in Nat, mono' \in Nat, mono' > mono, ticks' \in Nat,
           ClockStep, FailedTick, paused' = paused, Unmeasured(tree') = Unmeasured(tree)
    PROVE  MeasureInv'
<1>1. mono \in Nat /\ wall \in Nat /\ (active = None \/ active \in 0..mono) /\ (paused = None \/ paused \in 0..mono)
  BY DEF MeasureInv, ClockType
<1>2. ClockType'
  BY <1>1 DEF FailedTick, ClockType, MeasureInv
<1>3. SeriesInv'
  <2>1. CASE series'.points = <<>>
    BY <2>1, NothingCompares DEF SeriesInv
  <2>2. CASE series'.points # <<>>
    <3>1. ~Restarts /\ series' = series
      BY <2>2 DEF FailedTick, EmptySeries
    <3>2. timing # <<>> /\ warmed >= Warmup /\ series.segment = Unmeasured(tree)
      BY <2>2, <3>1 DEF MeasureInv, SeriesInv
    <3>3. wall' > wall /\ wall' - wall = mono' - mono
      BY <3>1, <3>2, ClocksAgree DEF MeasureInv
    <3>4. PICK q : q = series.points
      OBVIOUS
    <3>5. Comparable(q, paused)
      BY <3>4 DEF MeasureInv, SeriesInv
    <3>6. \A i \in 1..Len(q) : q[i].at <= wall' /\ wall' - q[i].at = mono' - q[i].mono
      <4> SUFFICES ASSUME NEW i \in 1..Len(q) PROVE q[i].at <= wall' /\ wall' - q[i].at = mono' - q[i].mono
        OBVIOUS
      <4>1. PICK a, m \in Nat : a = q[i].at /\ m = q[i].mono
        BY <3>5, PointTypes
      <4>2. a <= wall /\ wall - a = mono - m
        BY <3>4, <4>1 DEF MeasureInv, SeriesInv
      <4>3. a <= wall' /\ wall' - a = mono' - m
        BY <1>1, <3>3, <4>2
      <4> QED
        BY <4>1, <4>3
    <3>7. \A i \in 1..Len(q) : q[i].missing = series.segment
      BY <3>4 DEF MeasureInv, SeriesInv
    <3>8. timing' # <<>> /\ warmed' = warmed
      BY DEF FailedTick
    <3>9. Unmeasured(tree)' = Unmeasured(tree')
      BY DEF Unmeasured
    <3> QED
      BY <3>1, <3>2, <3>4, <3>5, <3>6, <3>7, <3>8, <3>9 DEF SeriesInv
  <2> QED
    BY <2>1, <2>2
<1>4. JudgedInv'
  BY DEF JudgedInv, FailedTick
<1> QED
  BY <1>2, <1>3, <1>4 DEF MeasureInv

\* And so does a pause.
LEMMA PauseMeasures ==
    ASSUME MeasureInv, TreeType(tree'), wall' \in Nat, mono' \in Nat, mono' > mono, ticks' \in Nat,
           PausedTick, paused' = mono'
    PROVE  MeasureInv'
<1>1. ClockType'
  BY DEF PausedTick, ClockType, MeasureInv
<1>2. series'.points = <<>> /\ judged' = {}
  <2>1. CASE timing # <<>>
    BY <2>1 DEF PausedTick, EmptySeries
  <2>2. CASE timing = <<>>
    BY <2>2 DEF PausedTick, MeasureInv, SeriesInv, JudgedInv
  <2> QED
    BY <2>1, <2>2
<1>3. SeriesInv' /\ JudgedInv'
  BY <1>2, NothingCompares DEF SeriesInv, JudgedInv
<1> QED
  BY <1>1, <1>3 DEF MeasureInv

\* It holds at the start.
LEMMA MeasureStarts == ASSUME DetectorInit PROVE MeasureInv
<1> USE DetectorAssumption
<1>1. ClockType
  BY DEF DetectorInit, ClockType
<1>2. TreeType(tree)
  <2>1. IsFiniteSet({Root}) /\ Root \in Nat \ {0}
    BY FS_Singleton
  <2> QED
    BY <2>1 DEF DetectorInit, TreeType
<1>3. SeriesInv
  BY NothingCompares DEF DetectorInit, SeriesInv, EmptySeries
<1>4. JudgedInv
  BY DEF DetectorInit, JudgedInv
<1> QED
  BY <1>1, <1>2, <1>3, <1>4 DEF MeasureInv

\* Every step keeps it.
LEMMA MeasureKeeps == ASSUME MeasureInv, [DetectorNext]_detectorVars PROVE MeasureInv'
<1>1. CASE DetectorNext
  BY <1>1, TickIsOneOf, CollectMeasures, FailureMeasures, PauseMeasures
<1>2. CASE UNCHANGED detectorVars
  BY <1>2 DEF detectorVars, clocks, MeasureInv, ClockType, TreeType, SeriesInv, JudgedInv, Unmeasured
<1> QED
  BY <1>1, <1>2

\* What is judged compares.
LEMMA WindowsDoCompare == ASSUME MeasureInv PROVE WindowsCompare
<1> SUFFICES ASSUME NEW p \in judged, NEW i \in 2..Len(p)
             PROVE  /\ p[i].missing = p[1].missing
                    /\ p[i].at > p[i - 1].at
                    /\ p[i].at - p[i - 1].at = p[i].mono - p[i - 1].mono
                    /\ p[1].mono > paused
  BY DEF WindowsCompare
<1>1. Comparable(p, paused)
  BY DEF MeasureInv, JudgedInv
<1>2. Len(p) \in Nat
  BY <1>1 DEF Comparable
<1>3. 1 \in 1..Len(p) /\ i \in 1..Len(p) /\ i - 1 \in 1..Len(p) /\ i - 1 < i
  BY <1>2
<1>4. p[i - 1].at < p[i].at
  BY <1>1, <1>3 DEF Comparable
<1>5. p[i].at \in Nat /\ p[i - 1].at \in Nat
  BY <1>1, <1>3, PointTypes
<1> QED
  BY <1>1, <1>3, <1>4, <1>5 DEF Comparable

-----------------------------------------------------------------------------
(* The histories, and what they have to do with a series                   *)

\* A point of a track.
Mark == [at : Nat, value : Nat \cup {None}]

\* The history of one process.
Track == [pid : Nat, created : Nat, first : Nat, last : Nat, points : Seq(Mark),
          kept : BOOLEAN, existed : BOOLEAN, exited : Nat \cup {None}]

\* The live tracks, by PID.
LiveType(live) ==
    /\ IsFiniteSet(DOMAIN live) /\ DOMAIN live \subseteq Nat \ {0}
    /\ \A p \in DOMAIN live : live[p] \in Track /\ live[p].pid = p

\* A history; each exit is replaced once at most, or may still be.
HistoryType(h) ==
    /\ h = [live |-> h.live, departed |-> h.departed, candidates |-> h.candidates, observed |-> h.observed,
            started |-> h.started, exited |-> h.exited, restarted |-> h.restarted]
    /\ LiveType(h.live) /\ h.departed \in Seq(Track) /\ h.candidates \in Seq(Track)
    /\ h.started \in Nat /\ h.exited \in Nat /\ h.restarted \in Nat
    /\ h.restarted + Len(h.candidates) <= h.exited

\* The points of a track, as a set.
Marks(track) == {track.points[i] : i \in DOMAIN track.points}

\* Points in the order of the wall clock.
Rising(points) == \A i, j \in 1..Len(points) : i < j => points[i].at < points[j].at

\* A track has points of its process, up to now.
Sound(track, now) ==
    /\ Rising(track.points)
    /\ \A m \in Marks(track) : m.at <= now /\ (track.existed \/ track.first <= m.at)
    /\ track.existed \/ track.first <= now

\* So has every live one, and none of them does without points.
LiveSound(h, now) == \A p \in Live(h) : h.live[p].kept /\ h.live[p].exited = None /\ Sound(h.live[p], now)

\* A departed one has points from before its process exited.
DepartedSound(h, now) ==
    \A k \in DOMAIN h.departed :
        /\ Sound(h.departed[k], now) /\ h.departed[k].exited \in Nat /\ h.departed[k].exited <= now
        /\ \A m \in Marks(h.departed[k]) : m.at < h.departed[k].exited

\* The process was there at a time.
Old(track, when) == track.existed \/ track.first <= when

\* From a time on, the points without a value are those of a process that is unreadable.
Clear(track, when, unread) ==
    \A m \in Marks(track) : m.at >= when => (m.value = None <=> track.pid \in unread)

\* Of a time, every process there has its point, and those without a value are the ones
\* that are missing from the total.
Complete(h, when, unread) ==
    /\ \A p \in Live(h) : /\ Old(h.live[p], when) => \E m \in Marks(h.live[p]) : m.at = when
                          /\ Clear(h.live[p], when, unread)
    /\ \A k \in DOMAIN h.departed :
          /\ Old(h.departed[k], when) /\ (\E m \in Marks(h.departed[k]) : m.at >= when)
                => \E m \in Marks(h.departed[k]) : m.at = when
          /\ Clear(h.departed[k], when, unread)

\* The values a track has of a time: one at most.
ReadAt(track, when) == {m.value : m \in {n \in Marks(track) : n.at = when /\ n.value # None}}

\* What a process held, as far as it could be read.
ValueAt(track, when) == IF ReadAt(track, when) = {} THEN 0 ELSE CHOOSE v \in ReadAt(track, when) : TRUE

\* What all of them held.
HeldAt(h, when) ==
    SumOver([p \in Live(h) |-> ValueAt(h.live[p], when)])
      + SumOver([k \in DOMAIN h.departed |-> ValueAt(h.departed[k], when)])

\* Nothing is known of what any process held.
Forgotten(h) == h.departed = <<>> /\ \A p \in Live(h) : h.live[p].points = <<>> /\ h.live[p].existed

\* Each point of the series that a window can reach is the sum of what the processes held.
Accounted(h, points, unread, now) ==
    \A i \in 1..Len(points) : points[i].at >= now - MaxAge =>
        Complete(h, points[i].at, unread) /\ points[i].value = HeldAt(h, points[i].at)

\* The invariant of the histories: as long as no limit cut anything off, they account
\* for the series.
HistoryInv ==
    /\ HistoryType(history)
    /\ timing = <<>> => Forgotten(history)
    /\ ~overflow => LiveSound(history, wall) /\ DepartedSound(history, wall)
                    /\ Accounted(history, series.points, series.segment, wall)

\* An alert is attributed by all its total changed by.
AlertInv ==
    alert.severity > 0 /\ ~overflow =>
       alert.by.fromNew + alert.by.fromExisting + alert.by.lost = alert.current - alert.baseline

-----------------------------------------------------------------------------
(* What the limits leave of a list *)

\* All of a list.
LEMMA SelectedAll ==
    ASSUME NEW X, NEW s \in Seq(X), NEW I, 1..Len(s) \subseteq I
    PROVE  Selected(s, I) = s
<1>1. PICK f : Runs(f, s, I, Len(s)) /\ Selected(s, I) = f[Len(s)]
  BY SelectedRuns
<1> DEFINE J == 0 + 1 .. Len(s)
<1>2. PICK g : Runs(g, s, J, Len(s)) /\ Selected(s, J) = g[Len(s)]
  BY SelectedRuns
<1>3. Selected(s, J) = s
  <2>1. Selected(s, J) = SubSeq(s, 0 + 1, Len(s))
    BY SelectedEnd
  <2> QED
    BY <2>1
<1> DEFINE S == {n \in Nat : n <= Len(s) => f[n] = g[n]}
<1>4. 0 \in S
  BY <1>1, <1>2 DEF Runs
<1>5. ASSUME NEW n \in Nat, n \in S PROVE n + 1 \in S
  <2> SUFFICES ASSUME n + 1 <= Len(s) PROVE f[n + 1] = g[n + 1]
    OBVIOUS
  <2>1. n + 1 \in 1..Len(s) /\ (n + 1) - 1 = n /\ n + 1 \in J /\ n + 1 \in I /\ f[n] = g[n]
    BY <1>5
  <2> HIDE DEF J, S
  <2>2. f[n + 1] = Append(f[n], s[n + 1])
    BY <1>1, <2>1 DEF Runs
  <2>3. g[n + 1] = Append(g[n], s[n + 1])
    BY <1>2, <2>1 DEF Runs
  <2> QED
    BY <2>1, <2>2, <2>3
<1> HIDE DEF J, S
<1>6. Len(s) \in S
  BY <1>4, <1>5, Climb
<1>7. Len(s) \in Nat
  OBVIOUS
<1>8. f[Len(s)] = g[Len(s)]
  BY <1>6, <1>7 DEF S
<1> QED
  BY <1>1, <1>2, <1>3, <1>8

\* A selection is not longer than its list.
LEMMA SelectedLen ==
    ASSUME NEW X, NEW s \in Seq(X), NEW I
    PROVE  Selected(s, I) \in Seq(X) /\ Len(Selected(s, I)) <= Len(s)
<1> DEFINE r == Selected(s, I)
<1>1. r \in Seq(X)
  BY SelectedPlaces
<1>2. PICK h : Places(h, r, s, I, Len(s))
  BY SelectedPlaces
<1> HIDE DEF r
<1>3. /\ \A k \in 1..Len(r) : h[k] \in 1..Len(s)
      /\ \A j, k \in 1..Len(r) : j < k => h[j] < h[k]
  BY <1>2 DEF Places
<1> DEFINE S == {k \in Nat : 1 <= k /\ k <= Len(r) => h[k] >= k}
<1>4. 0 \in S
  OBVIOUS
<1>5. ASSUME NEW k \in Nat, k \in S PROVE k + 1 \in S
  <2> SUFFICES ASSUME k + 1 <= Len(r) PROVE h[k + 1] >= k + 1
    OBVIOUS
  <2>1. Len(r) \in Nat /\ k + 1 \in 1..Len(r)
    BY <1>1
  <2>2. CASE k = 0
    BY <1>3, <2>1, <2>2
  <2>3. CASE k # 0
    <3>1. k \in 1..Len(r) /\ k < k + 1 /\ h[k] >= k
      BY <1>5, <2>1, <2>3
    <3>2. PICK a, b \in 1..Len(s) : a = h[k] /\ b = h[k + 1]
      BY <1>3, <2>1, <3>1
    <3>3. a < b
      BY <1>3, <2>1, <3>1, <3>2
    <3>4. b >= k + 1
      BY <3>1, <3>2, <3>3
    <3> QED
      BY <3>2, <3>4
  <2> QED
    BY <2>2, <2>3
<1> HIDE DEF S
<1>6. Len(r) \in S /\ Len(r) \in Nat
  BY <1>1, <1>4, <1>5, Climb
<1>7. Len(r) <= Len(s)
  <2>1. CASE Len(r) = 0
    BY <2>1
  <2>2. CASE Len(r) # 0
    <3>1. Len(r) \in 1..Len(r) /\ h[Len(r)] >= Len(r)
      BY <1>6, <2>2 DEF S
    <3>2. h[Len(r)] \in 1..Len(s)
      BY <1>3, <3>1
    <3> QED
      BY <1>6, <3>1, <3>2
  <2> QED
    BY <2>1, <2>2
<1> QED
  BY <1>1, <1>7 DEF r

\* A deque keeps what there is room for.
LEMMA LatestIs ==
    ASSUME NEW X, NEW s \in Seq(X), NEW limit \in Nat
    PROVE  /\ Latest(s, limit) \in Seq(X) /\ Len(Latest(s, limit)) <= Len(s)
           /\ Len(s) <= limit => Latest(s, limit) = s
<1>1. PICK I : I = {i \in DOMAIN s : i > Len(s) - limit}
  OBVIOUS
<1>2. Latest(s, limit) = Selected(s, I)
  BY <1>1 DEF Latest
<1>3. Len(s) <= limit => 1..Len(s) \subseteq I
  BY <1>1
<1> QED
  BY <1>2, <1>3, SelectedAll, SelectedLen

-----------------------------------------------------------------------------
(* The points of a track *)

\* The points of a track.
LEMMA MarksAre ==
    ASSUME NEW t, t \in Track
    PROVE  t.points \in Seq(Mark) /\ Marks(t) \subseteq Mark /\ \A m \in Marks(t) : m.at \in Nat
<1>1. t.points \in Seq(Mark)
  BY DEF Track
<1>2. Marks(t) \subseteq Mark
  BY <1>1 DEF Marks
<1> QED
  BY <1>1, <1>2 DEF Mark

\* A selection of rising points rises.
LEMMA SelectedRises ==
    ASSUME NEW points \in Seq(Mark), Rising(points), NEW I
    PROVE  Rising(Selected(points, I))
<1> DEFINE r == Selected(points, I)
<1>1. r \in Seq(Mark)
  BY SelectedPlaces
<1>2. PICK h : Places(h, r, points, I, Len(points))
  BY SelectedPlaces
<1> HIDE DEF r
<1>3. \A k \in 1..Len(r) : h[k] \in 1..Len(points) /\ r[k] = points[h[k]]
  BY <1>2 DEF Places
<1>4. \A j, k \in 1..Len(r) : j < k => h[j] < h[k]
  BY <1>2 DEF Places
<1>5. Rising(r)
  BY <1>3, <1>4 DEF Rising
<1> QED
  BY <1>5 DEF r

\* And so do rising points with a later one.
LEMMA AppendRises ==
    ASSUME NEW points \in Seq(Mark), Rising(points), NEW m \in Mark, \A i \in 1..Len(points) : points[i].at < m.at
    PROVE  Rising(Append(points, m))
<1> DEFINE all == Append(points, m)
           L == Len(points)
<1>1. L \in Nat /\ Len(all) = L + 1 /\ all[L + 1] = m /\ \A i \in 1..L : all[i] = points[i]
  OBVIOUS
<1> HIDE DEF all
<1> SUFFICES ASSUME NEW i \in 1..L + 1, NEW j \in 1..L + 1, i < j PROVE all[i].at < all[j].at
  BY <1>1 DEF Rising, all
<1>2. i \in 1..L
  BY <1>1
<1>3. CASE j = L + 1
  BY <1>1, <1>2, <1>3
<1>4. CASE j # L + 1
  <2>1. j \in 1..L
    BY <1>1, <1>4
  <2> QED
    BY <1>1, <1>2, <2>1 DEF Rising
<1> QED
  BY <1>3, <1>4

\* A process as the tree shows it.
Process == [created : Nat, value : Nat, readable : BOOLEAN]

\* The marks a list of points has.
MarkSet(points) == {points[i] : i \in DOMAIN points}

\* Points from a time on.
LEMMA SelectedMarks ==
    ASSUME NEW points \in Seq(Mark), NEW low \in Int
    PROVE  MarkSet(Selected(points, {i \in DOMAIN points : points[i].at >= low})) = {m \in MarkSet(points) : m.at >= low}
<1> DEFINE I == {i \in DOMAIN points : points[i].at >= low}
           r == Selected(points, I)
<1>1. /\ r \in Seq(Mark)
      /\ \A k \in 1..Len(r) : \E i \in I \cap (1..Len(points)) : r[k] = points[i]
      /\ \A i \in I \cap (1..Len(points)) : \E k \in 1..Len(r) : r[k] = points[i]
  <2> HIDE DEF I
  <2> QED
    BY SelectedFrom
<1> HIDE DEF r
<1>2. MarkSet(r) \subseteq {m \in MarkSet(points) : m.at >= low}
  <2> SUFFICES ASSUME NEW k \in DOMAIN r PROVE r[k] \in MarkSet(points) /\ r[k].at >= low
    BY DEF MarkSet
  <2>1. k \in 1..Len(r)
    BY <1>1
  <2>2. PICK i \in I : r[k] = points[i]
    BY <1>1, <2>1
  <2> QED
    BY <2>2 DEF MarkSet
<1>3. {m \in MarkSet(points) : m.at >= low} \subseteq MarkSet(r)
  <2> SUFFICES ASSUME NEW i \in DOMAIN points, points[i].at >= low PROVE points[i] \in MarkSet(r)
    BY DEF MarkSet
  <2>1. i \in I /\ i \in 1..Len(points)
    OBVIOUS
  <2> HIDE DEF I
  <2>2. PICK k \in 1..Len(r) : r[k] = points[i]
    BY <1>1, <2>1
  <2>3. k \in DOMAIN r
    BY <1>1, <2>2
  <2> QED
    BY <2>2, <2>3 DEF MarkSet
<1> QED
  BY <1>2, <1>3 DEF r

\* Points, and one more.
LEMMA AppendMarks ==
    ASSUME NEW points \in Seq(Mark), NEW m \in Mark
    PROVE  Append(points, m) \in Seq(Mark) /\ MarkSet(Append(points, m)) = MarkSet(points) \cup {m}
<1> DEFINE all == Append(points, m)
           L == Len(points)
<1>1. L \in Nat /\ all \in Seq(Mark) /\ Len(all) = L + 1 /\ all[L + 1] = m /\ \A i \in 1..L : all[i] = points[i]
  OBVIOUS
<1> HIDE DEF all
<1>2. DOMAIN all = 1..L + 1 /\ DOMAIN points = 1..L /\ 1..L + 1 = (1..L) \cup {L + 1}
  BY <1>1
<1> HIDE DEF L
<1>3. MarkSet(all) = MarkSet(points) \cup {m}
  BY <1>1, <1>2 DEF MarkSet
<1> QED
  BY <1>1, <1>3 DEF all

\* What recording leaves of a track.
Recorded(r, t, now, process, maxAge) ==
    /\ r \in Track
    /\ r.pid = t.pid /\ r.created = t.created /\ r.first = t.first /\ r.kept = t.kept
    /\ r.existed = t.existed /\ r.exited = t.exited
    /\ t.kept /\ Len(t.points) < MaxPoints =>
         Marks(r) = {m \in Marks(t) \cup {[at |-> now, value |-> Reading(process)]} : m.at >= now - maxAge}
    /\ Rising(t.points) /\ (\A m \in Marks(t) : m.at < now) => Rising(r.points)

\* What Record does to a track.
LEMMA RecordIs ==
    ASSUME NEW t, t \in Track, NEW now \in Nat, NEW process, process \in Process, NEW maxAge \in Nat
    PROVE  Recorded(Record(t, now, process, maxAge), t, now, process, maxAge)
<1> USE DetectorAssumption
<1>1. PICK m : m = [at |-> now, value |-> Reading(process)]
  OBVIOUS
<1>2. m \in Mark /\ m.at = now
  BY <1>1 DEF Mark, Reading, Process, None
<1>3. t.points \in Seq(Mark)
  BY DEF Track
<1>4. PICK all : all = Append(t.points, m)
  OBVIOUS
<1>5. all \in Seq(Mark) /\ Len(all) = Len(t.points) + 1 /\ MarkSet(all) = MarkSet(t.points) \cup {m}
  BY <1>2, <1>3, <1>4, AppendMarks
<1>6. PICK points : points = Latest(all, MaxPoints)
  OBVIOUS
<1>7. points \in Seq(Mark) /\ (Len(all) <= MaxPoints => points = all)
  BY <1>5, <1>6, LatestIs
<1>8. PICK I : I = {i \in DOMAIN points : points[i].at >= now - maxAge}
  OBVIOUS
<1>9. PICK rest : rest = IF t.kept THEN Selected(points, I) ELSE <<>>
  OBVIOUS
<1>10. PICK r : r = [t EXCEPT !.last = now, !.points = rest]
  OBVIOUS
<1>11. Record(t, now, process, maxAge) = r
  BY <1>1, <1>4, <1>6, <1>8, <1>9, <1>10 DEF Record
<1>12. rest \in Seq(Mark)
  BY <1>7, <1>9, SelectedLen
<1>13. /\ r \in Track /\ r.points = rest
       /\ r.pid = t.pid /\ r.created = t.created /\ r.first = t.first /\ r.kept = t.kept
       /\ r.existed = t.existed /\ r.exited = t.exited
  BY <1>10, <1>12 DEF Track
<1>14. ASSUME t.kept, Len(t.points) < MaxPoints
       PROVE  Marks(r) = {x \in Marks(t) \cup {m} : x.at >= now - maxAge}
  <2>1. points = all
    BY <1>3, <1>5, <1>7, <1>14
  <2>2. MarkSet(rest) = {x \in MarkSet(all) : x.at >= now - maxAge}
    <3>1. rest = Selected(all, {i \in DOMAIN all : all[i].at >= now - maxAge})
      BY <1>8, <1>9, <1>14, <2>1
    <3>2. now - maxAge \in Int
      OBVIOUS
    <3> QED
      BY <1>5, <3>1, <3>2, SelectedMarks
  <2> QED
    BY <1>5, <1>13, <2>2 DEF Marks, MarkSet
<1>15. ASSUME Rising(t.points), \A x \in Marks(t) : x.at < now
       PROVE  Rising(rest)
  <2>1. \A i \in 1..Len(t.points) : t.points[i].at < m.at
    BY <1>2, <1>3, <1>15 DEF Marks
  <2>2. Rising(all)
    BY <1>2, <1>3, <1>4, <1>15, <2>1, AppendRises
  <2>3. Rising(points)
    <3>1. PICK J : J = {i \in DOMAIN all : i > Len(all) - MaxPoints}
      OBVIOUS
    <3>2. points = Selected(all, J)
      BY <1>6, <3>1 DEF Latest
    <3> QED
      BY <1>5, <2>2, <3>2, SelectedRises
  <2>4. CASE t.kept
    BY <1>7, <1>9, <2>3, <2>4, SelectedRises
  <2>5. CASE ~t.kept
    BY <1>9, <2>5 DEF Rising
  <2> QED
    BY <2>4, <2>5
<1> QED
  BY <1>1, <1>11, <1>13, <1>14, <1>15 DEF Recorded

-----------------------------------------------------------------------------
(* The processes of a tree one after the other *)

\* A sequence of the elements of a set, each once.
Enumerates(r, S) ==
    /\ r \in Seq(S)
    /\ \A x \in S : \E k \in 1..Len(r) : r[k] = x
    /\ \A j, k \in 1..Len(r) : r[j] = r[k] => j = k

\* InOrder enumerates a set of PIDs.
LEMMA InOrderIs ==
    ASSUME NEW S, S \subseteq Nat \ {0}, IsFiniteSet(S)
    PROVE  Enumerates(InOrder(S), S)
<1>1. CASE S = {}
  BY <1>1 DEF InOrder, Enumerates
<1>2. CASE S # {}
  <2>1. PICK max : max = Max(S)
    OBVIOUS
  <2>2. max \in S /\ \A n \in S : n <= max
    <3>1. S \subseteq Nat
      OBVIOUS
    <3>2. \E m \in S : \A n \in S : n <= m
      BY <1>2, <3>1, HasGreatest
    <3>3. \E m \in S : \A n \in S : m >= n
      BY <3>2
    <3>4. max \in S /\ \A n \in S : max >= n
      BY <2>1, <3>3 DEF Max
    <3> QED
      BY <3>4
  <2>3. PICK s : s = [n \in 1..max |-> n]
    OBVIOUS
  <2>4. s \in Seq(Nat) /\ Len(s) = max /\ \A n \in 1..max : s[n] = n
    BY <2>2, <2>3
  <2>5. PICK r : r = Selected(s, S)
    OBVIOUS
  <2>6. r \in Seq(Nat)
    BY <2>4, <2>5, SelectedPlaces
  <2>7. PICK h : Places(h, r, s, S, max)
    <3>1. \E h : Places(h, Selected(s, S), s, S, Len(s))
      BY <2>4, SelectedPlaces
    <3> QED
      BY <2>4, <2>5, <3>1
  <2>8. \A k \in 1..Len(r) : r[k] \in S /\ r[k] = h[k] /\ h[k] \in 1..max
    BY <2>4, <2>7 DEF Places
  <2>9. r \in Seq(S)
    BY <2>6, <2>8
  <2>10. \A x \in S : \E k \in 1..Len(r) : r[k] = x
    <3> SUFFICES ASSUME NEW x \in S PROVE \E k \in 1..Len(r) : r[k] = x
      OBVIOUS
    <3>1. x \in S \cap (1..max)
      BY <2>2
    <3>2. PICK k \in 1..Len(r) : h[k] = x
      BY <2>7, <3>1 DEF Places
    <3> QED
      BY <2>8, <3>2
  <2>11. \A j, k \in 1..Len(r) : r[j] = r[k] => j = k
    <3> SUFFICES ASSUME NEW j \in 1..Len(r), NEW k \in 1..Len(r), r[j] = r[k], j # k PROVE FALSE
      OBVIOUS
    <3>1. h[j] = h[k] /\ h[j] \in Nat
      BY <2>8
    <3>2. j < k \/ k < j
      BY <2>6
    <3>3. h[j] < h[k] \/ h[k] < h[j]
      BY <2>7, <3>2 DEF Places
    <3> QED
      BY <3>1, <3>3
  <2>12. InOrder(S) = r
    BY <1>2, <2>1, <2>3, <2>5 DEF InOrder
  <2> QED
    BY <2>9, <2>10, <2>11, <2>12 DEF Enumerates
<1> QED
  BY <1>1, <1>2

\* Two sequences enumerate the union of disjoint sets.
LEMMA BothEnumerate ==
    ASSUME NEW A, NEW B, A \cap B = {}, NEW r, Enumerates(r, A), NEW s, Enumerates(s, B)
    PROVE  Enumerates(r \o s, A \cup B)
<1>1. r \in Seq(A \cup B) /\ s \in Seq(A \cup B)
  BY DEF Enumerates
<1>2. PICK m, n \in Nat : m = Len(r) /\ n = Len(s)
  BY <1>1
<1>3. PICK t : t = r \o s
  OBVIOUS
<1>4. /\ t \in Seq(A \cup B) /\ Len(t) = m + n
      /\ \A i \in 1..m : t[i] = r[i]
      /\ \A i \in 1..n : t[m + i] = s[i]
  BY <1>1, <1>2, <1>3
<1>5. \A i \in 1..m + n : i \in 1..m \/ (i - m \in 1..n /\ i = m + (i - m))
  OBVIOUS
<1>6. \A i \in 1..m : i \in 1..m + n
  OBVIOUS
<1>7. \A i \in 1..n : m + i \in 1..m + n
  OBVIOUS
<1>8. \A x \in A \cup B : \E k \in 1..Len(t) : t[k] = x
  <2>1. \A x \in A : \E k \in 1..m : t[k] = x
    BY <1>2, <1>4 DEF Enumerates
  <2>2. \A x \in B : \E k \in 1..n : t[m + k] = x
    BY <1>2, <1>4 DEF Enumerates
  <2> QED
    BY <1>4, <1>6, <1>7, <2>1, <2>2
<1>9. \A j, k \in 1..Len(t) : t[j] = t[k] => j = k
  <2> SUFFICES ASSUME NEW j \in 1..m + n, NEW k \in 1..m + n, t[j] = t[k] PROVE j = k
    BY <1>4
  <2>1. \A i \in 1..m : t[i] \in A /\ r[i] \in A
    BY <1>2, <1>4 DEF Enumerates
  <2>2. \A i \in 1..n : t[m + i] \in B
    BY <1>2, <1>4 DEF Enumerates
  <2>3. CASE j \in 1..m /\ k \in 1..m
    BY <1>2, <1>4, <2>3 DEF Enumerates
  <2>4. CASE j \in 1..m /\ k \notin 1..m
    <3>1. t[j] \in A /\ t[k] \in B
      BY <1>5, <2>1, <2>2, <2>4
    <3> QED
      BY <3>1
  <2>5. CASE j \notin 1..m /\ k \in 1..m
    <3>1. t[k] \in A /\ t[j] \in B
      BY <1>5, <2>1, <2>2, <2>5
    <3> QED
      BY <3>1
  <2>6. CASE j \notin 1..m /\ k \notin 1..m
    <3>1. PICK a, b \in 1..n : a = j - m /\ b = k - m /\ j = m + a /\ k = m + b
      BY <1>5, <2>6
    <3>2. s[a] = s[b]
      BY <1>4, <3>1
    <3>3. a = b
      BY <1>2, <3>2 DEF Enumerates
    <3> QED
      BY <3>1, <3>3
  <2> QED
    BY <2>3, <2>4, <2>5, <2>6
<1>10. Enumerates(t, A \cup B)
  BY <1>4, <1>8, <1>9 DEF Enumerates
<1> QED
  BY <1>3, <1>10

\* The processes that are not there any more.
Left(h, t) == {p \in Live(h) : ~GoesOn(h, t, p)}

\* Ended enumerates them.
LEMMA EndedIs ==
    ASSUME NEW h, LiveType(h.live), NEW t
    PROVE  Enumerates(Ended(h, t), Left(h, t))
<1> DEFINE A == Live(h) \ DOMAIN t
           B == {p \in Live(h) \cap DOMAIN t : ~GoesOn(h, t, p)}
<1>1. /\ IsFiniteSet(A) /\ A \subseteq Nat \ {0}
      /\ IsFiniteSet(B) /\ B \subseteq Nat \ {0}
  <2>1. IsFiniteSet(Live(h)) /\ A \subseteq Live(h) /\ B \subseteq Live(h) /\ Live(h) \subseteq Nat \ {0}
    BY DEF LiveType, Live
  <2> HIDE DEF A, B
  <2> QED
    BY <2>1, FS_Subset
<1>2. A \cup B = Left(h, t) /\ A \cap B = {}
  BY DEF Left, GoesOn
<1>3. Ended(h, t) = InOrder(A) \o InOrder(B)
  BY DEF Ended
<1> HIDE DEF A, B
<1>4. Enumerates(InOrder(A), A) /\ Enumerates(InOrder(B), B)
  BY <1>1, InOrderIs
<1> QED
  BY <1>2, <1>3, <1>4, BothEnumerate

\* The tracks of the processes that left, each with its exit.
HaveLeft(gone, ended, h, now) ==
    /\ gone \in Seq(Track) /\ Len(gone) = Len(ended)
    /\ \A i \in 1..Len(ended) : gone[i] = [h.live[ended[i]] EXCEPT !.exited = now]

\* Gone has their tracks, with the time they were missed.
LEMMA GoneIs ==
    ASSUME NEW h, LiveType(h.live), NEW t, NEW now \in Nat
    PROVE  Ended(h, t) \in Seq(Left(h, t)) /\ HaveLeft(Gone(h, now, t), Ended(h, t), h, now)
<1>1. PICK e : e = Ended(h, t)
  OBVIOUS
<1>2. e \in Seq(Left(h, t))
  BY <1>1, EndedIs DEF Enumerates
<1>3. Gone(h, now, t) = [i \in 1..Len(e) |-> [h.live[e[i]] EXCEPT !.exited = now]]
  BY <1>1, <1>2 DEF Gone
<1>4. \A i \in 1..Len(e) : [h.live[e[i]] EXCEPT !.exited = now] \in Track
  <2> SUFFICES ASSUME NEW i \in 1..Len(e) PROVE [h.live[e[i]] EXCEPT !.exited = now] \in Track
    OBVIOUS
  <2>1. e[i] \in Live(h)
    BY <1>2 DEF Left
  <2>2. h.live[e[i]] \in Track
    BY <2>1 DEF LiveType, Live
  <2> QED
    BY <2>2 DEF Track
<1>5. Len(e) \in Nat
  BY <1>2
<1>6. PICK g : g = Gone(h, now, t)
  OBVIOUS
<1>7. g = [i \in 1..Len(e) |-> [h.live[e[i]] EXCEPT !.exited = now]]
  BY <1>3, <1>6
<1>8. \A i \in 1..Len(e) : g[i] = [h.live[e[i]] EXCEPT !.exited = now]
  BY <1>7
<1>9. g \in Seq(Track) /\ Len(g) = Len(e)
  BY <1>4, <1>5, <1>7, <1>8
<1> QED
  BY <1>1, <1>2, <1>6, <1>8, <1>9 DEF HaveLeft

-----------------------------------------------------------------------------
(* Free slots, and replaced exits *)

\* With slots for all, every process has one.
LEMMA AllTracked ==
    ASSUME NEW h, NEW t, TreeType(t), Cardinality(DOMAIN t) <= MaxTracked
    PROVE  Tracked(h, t) = DOMAIN t
<1>0. MaxTracked \in Nat
  BY DetectorAssumption
<1>1. PICK pids : pids = InOrder(DOMAIN t)
  OBVIOUS
<1>2. Enumerates(pids, DOMAIN t)
  BY <1>1, InOrderIs DEF TreeType
<1>3. PICK L \in Nat : L = Len(pids)
  BY <1>2 DEF Enumerates
<1>4. \A k \in 1..L : pids[k] \in DOMAIN t
  BY <1>2, <1>3 DEF Enumerates
<1> DEFINE Start == WithPoints(h) \cap DOMAIN t
           Had(before, n) == IF GoesOn(h, t, pids[n]) THEN before ELSE before \ {pids[n]}
           Next1(before, n) == IF Cardinality(Had(before, n)) < MaxTracked THEN Had(before, n) \cup {pids[n]} ELSE Had(before, n)
           Body(f, n) == IF n = 0 THEN Start ELSE Next1(f[n - 1], n)
           upTo == CHOOSE f : f = [n \in 0..L |-> Body(f, n)]
<1>5. Tracked(h, t) = upTo[L]
  BY <1>1, <1>3 DEF Tracked
<1> DEFINE Runs1(f, m) == f[0] = Start /\ \A n \in 1..m : f[n] = Next1(f[n - 1], n)
           S == {m \in Nat : \E f : Runs1(f, m)}
<1> HIDE DEF Start, Next1
<1>6. 0 \in S
  <2>1. Runs1([n \in 0..0 |-> Start], 0)
    OBVIOUS
  <2> QED
    BY <2>1
<1>7. ASSUME NEW m \in Nat, m \in S PROVE m + 1 \in S
  <2>1. PICK g : Runs1(g, m)
    BY <1>7
  <2> DEFINE e == [n \in 0..m + 1 |-> IF n = m + 1 THEN Next1(g[m], n) ELSE g[n]]
  <2>2. e[0] = Start
    BY <2>1
  <2>3. ASSUME NEW n \in 1..m + 1 PROVE e[n] = Next1(e[n - 1], n)
    <3>1. CASE n = m + 1
      <4>1. e[n] = Next1(g[m], n) /\ e[n - 1] = g[m]
        BY <3>1
      <4> QED
        BY <4>1
    <3>2. CASE n # m + 1
      <4>1. n \in 1..m /\ e[n] = g[n] /\ e[n - 1] = g[n - 1]
        BY <3>2
      <4> QED
        BY <2>1, <4>1
    <3> QED
      BY <3>1, <3>2
  <2> HIDE DEF e
  <2>4. Runs1(e, m + 1)
    BY <2>2, <2>3
  <2> QED
    BY <2>4
<1>8. L \in S
  <2> HIDE DEF S
  <2> QED
    BY <1>6, <1>7, Climb
<1>9. PICK g : Runs1(g, L)
  BY <1>8
<1> DEFINE e == [n \in 0..L |-> g[n]]
<1>10. e = [n \in 0..L |-> Body(e, n)]
  <2>1. \A n \in 0..L : e[n] = Body(e, n)
    BY <1>9
  <2> QED
    BY <2>1
<1>11. upTo = [n \in 0..L |-> Body(upTo, n)]
  <2> HIDE DEF e
  <2> QED
    BY <1>10
<1> HIDE DEF upTo
<1>12. upTo[0] = Start /\ \A n \in 1..L : upTo[n] = Next1(upTo[n - 1], n)
  <2>1. \A n \in 0..L : upTo[n] = Body(upTo, n)
    BY <1>11
  <2> QED
    BY <2>1
<1> DEFINE R == {n \in Nat : n <= L => upTo[n] \subseteq DOMAIN t /\ \A k \in 1..n : pids[k] \in upTo[n]}
<1>13. 0 \in R
  BY <1>12 DEF Start
<1>14. ASSUME NEW n \in Nat, n \in R PROVE n + 1 \in R
  <2> SUFFICES ASSUME n + 1 <= L
               PROVE  upTo[n + 1] \subseteq DOMAIN t /\ \A k \in 1..n + 1 : pids[k] \in upTo[n + 1]
    OBVIOUS
  <2>1. /\ n + 1 \in 1..L /\ (n + 1) - 1 = n
        /\ upTo[n] \subseteq DOMAIN t /\ \A k \in 1..n : pids[k] \in upTo[n]
    BY <1>14
  <2>2. PICK x, before : x = pids[n + 1] /\ before = upTo[n]
    OBVIOUS
  <2>3. x \in DOMAIN t /\ before \subseteq DOMAIN t
    BY <1>4, <2>1, <2>2
  <2>4. PICK had : had = IF GoesOn(h, t, x) THEN before ELSE before \ {x}
    OBVIOUS
  <2>5. upTo[n + 1] = IF Cardinality(had) < MaxTracked THEN had \cup {x} ELSE had
    BY <1>12, <2>1, <2>2, <2>4 DEF Next1
  <2>6. had \subseteq DOMAIN t /\ before \subseteq had \cup {x}
    BY <2>3, <2>4
  <2>7. x \in had \/ Cardinality(had) < MaxTracked
    <3> SUFFICES ASSUME x \notin had PROVE Cardinality(had) < MaxTracked
      OBVIOUS
    <3>1. had \subseteq DOMAIN t \ {x} /\ IsFiniteSet(DOMAIN t)
      BY <2>6 DEF TreeType
    <3>2. IsFiniteSet(DOMAIN t \ {x}) /\ Cardinality(DOMAIN t \ {x}) = IF x \in DOMAIN t THEN Cardinality(DOMAIN t) - 1 ELSE Cardinality(DOMAIN t)
      BY <3>1, FS_RemoveElement, Zenon
    <3>3. Cardinality(DOMAIN t \ {x}) = Cardinality(DOMAIN t) - 1
      BY <2>3, <3>2
    <3>4. Cardinality(had) <= Cardinality(DOMAIN t \ {x}) /\ IsFiniteSet(had)
      BY <3>1, <3>2, FS_Subset
    <3>5. Cardinality(had) \in Nat /\ Cardinality(DOMAIN t) \in Nat /\ Cardinality(DOMAIN t \ {x}) \in Nat
      BY <3>1, <3>2, <3>4, FS_CardinalityType
    <3> QED
      BY <1>0, <3>3, <3>4, <3>5
  <2>8. upTo[n + 1] = had \cup {x}
    BY <2>5, <2>7
  <2>9. \A k \in 1..n + 1 : k = n + 1 \/ k \in 1..n
    OBVIOUS
  <2> QED
    BY <2>1, <2>2, <2>3, <2>6, <2>8, <2>9
<1>15. Nat \subseteq R
  <2> HIDE DEF R
  <2> QED
    BY <1>13, <1>14, Climb
<1>16. upTo[L] \subseteq DOMAIN t /\ \A k \in 1..L : pids[k] \in upTo[L]
  BY <1>15
<1>17. \A x \in DOMAIN t : \E k \in 1..L : pids[k] = x
  BY <1>2, <1>3 DEF Enumerates
<1>18. DOMAIN t \subseteq upTo[L]
  BY <1>16, <1>17
<1> QED
  BY <1>5, <1>16, <1>18

\* What the starts leave of the exits they may replace.
LEMMA RemainingIs ==
    ASSUME NEW candidates \in Seq(Track), NEW X, NEW starts \in Seq(X)
    PROVE  Remaining(candidates, starts) \in Seq(Track) /\ Len(Remaining(candidates, starts)) <= Len(candidates)
<1> DEFINE L == Len(starts)
           Next1(c, n) == LET replaced == Replaced(c, starts[n]) IN
                          Selected(c, {i \in DOMAIN c : i \notin replaced \/ \E j \in replaced : i < j})
           Body(f, n) == IF n = 0 THEN candidates ELSE Next1(f[n - 1], n)
           after == CHOOSE f : f = [n \in 0..L |-> Body(f, n)]
<1>1. L \in Nat
  OBVIOUS
<1>2. Remaining(candidates, starts) = after[L]
  BY DEF Remaining
<1>3. ASSUME NEW c \in Seq(Track), NEW n PROVE Next1(c, n) \in Seq(Track) /\ Len(Next1(c, n)) <= Len(c)
  <2>1. PICK I : I = {i \in DOMAIN c : i \notin Replaced(c, starts[n]) \/ \E j \in Replaced(c, starts[n]) : i < j}
    OBVIOUS
  <2>2. Next1(c, n) = Selected(c, I)
    BY <2>1
  <2> QED
    BY <2>2, SelectedLen
<1> DEFINE Runs1(f, m) == f[0] = candidates /\ \A n \in 1..m : f[n] = Next1(f[n - 1], n)
           S == {m \in Nat : \E f : Runs1(f, m)}
<1> HIDE DEF Next1, L
<1>4. 0 \in S
  <2>1. Runs1([n \in 0..0 |-> candidates], 0)
    OBVIOUS
  <2> QED
    BY <2>1
<1>5. ASSUME NEW m \in Nat, m \in S PROVE m + 1 \in S
  <2>1. PICK g : Runs1(g, m)
    BY <1>5
  <2> DEFINE e == [n \in 0..m + 1 |-> IF n = m + 1 THEN Next1(g[m], n) ELSE g[n]]
  <2>2. e[0] = candidates
    BY <2>1
  <2>3. \A n \in 1..m + 1 : e[n] = Next1(e[n - 1], n)
    BY <2>1
  <2> HIDE DEF e
  <2>4. Runs1(e, m + 1)
    BY <2>2, <2>3
  <2> QED
    BY <2>4
<1>6. L \in S
  <2> HIDE DEF S
  <2> QED
    BY <1>1, <1>4, <1>5, Climb
<1>7. PICK g : Runs1(g, L)
  BY <1>6
<1> DEFINE e == [n \in 0..L |-> g[n]]
<1>8. e = [n \in 0..L |-> Body(e, n)]
  <2>1. \A n \in 0..L : e[n] = Body(e, n)
    BY <1>1, <1>7
  <2> QED
    BY <2>1
<1>9. after = [n \in 0..L |-> Body(after, n)]
  <2> HIDE DEF e
  <2> QED
    BY <1>8
<1> HIDE DEF after
<1>10. after[0] = candidates /\ \A n \in 1..L : after[n] = Next1(after[n - 1], n)
  <2>1. \A n \in 0..L : after[n] = Body(after, n)
    BY <1>9
  <2> QED
    BY <1>1, <2>1
<1> DEFINE R == {n \in Nat : n <= L => after[n] \in Seq(Track) /\ Len(after[n]) <= Len(candidates)}
<1>11. 0 \in R
  BY <1>10
<1>12. ASSUME NEW n \in Nat, n \in R PROVE n + 1 \in R
  <2> SUFFICES ASSUME n + 1 <= L
               PROVE  after[n + 1] \in Seq(Track) /\ Len(after[n + 1]) <= Len(candidates)
    OBVIOUS
  <2>1. n + 1 \in 1..L /\ (n + 1) - 1 = n /\ after[n] \in Seq(Track) /\ Len(after[n]) <= Len(candidates)
    BY <1>1, <1>12
  <2>2. after[n + 1] = Next1(after[n], n + 1)
    BY <1>10, <2>1
  <2>3. after[n + 1] \in Seq(Track) /\ Len(after[n + 1]) <= Len(after[n])
    BY <1>3, <2>1, <2>2
  <2> QED
    BY <2>1, <2>3
<1>13. Nat \subseteq R
  <2> HIDE DEF R
  <2> QED
    BY <1>11, <1>12, Climb
<1> QED
  BY <1>1, <1>2, <1>13

-----------------------------------------------------------------------------
(* One sample of the tree *)

\* The track a process is recorded in.
Continued(h, now, t, p) ==
    [(IF GoesOn(h, t, p) THEN h.live[p] ELSE NewTrack(now, p, t[p])) EXCEPT !.kept = p \in Tracked(h, t)]

\* It is the track of the process, or a new one.
IsContinued(k, h, now, t, p) ==
    /\ k \in Track /\ k.pid = p
    /\ p \in Tracked(h, t) => k.kept = TRUE
    /\ GoesOn(h, t, p) => /\ k.points = h.live[p].points /\ k.first = h.live[p].first
                          /\ k.existed = h.live[p].existed /\ k.exited = h.live[p].exited
    /\ ~GoesOn(h, t, p) => k.points = <<>> /\ k.first = now /\ k.existed = FALSE /\ k.exited = None

\* And has a type.
LEMMA ContinuedIs ==
    ASSUME NEW h, LiveType(h.live), NEW t, TreeType(t), NEW now \in Nat, NEW p \in DOMAIN t
    PROVE  IsContinued(Continued(h, now, t, p), h, now, t, p)
<1>1. p \in Nat /\ t[p] \in Process /\ t[p].created \in Nat
  BY DEF TreeType, Process
<1>2. PICK n : n = NewTrack(now, p, t[p])
  OBVIOUS
<1>3. n \in Track /\ n.pid = p /\ n.points = <<>> /\ n.first = now /\ n.existed = FALSE /\ n.exited = None
  BY <1>1, <1>2 DEF NewTrack, Track, None
<1>4. GoesOn(h, t, p) => h.live[p] \in Track /\ h.live[p].pid = p
  BY DEF GoesOn, Live, LiveType
<1>5. PICK b : b = IF GoesOn(h, t, p) THEN h.live[p] ELSE n
  OBVIOUS
<1>6. b \in Track /\ b.pid = p
  BY <1>3, <1>4, <1>5
<1>7. (p \in Tracked(h, t)) \in BOOLEAN
  OBVIOUS
<1>8. PICK r : r = [b EXCEPT !.kept = p \in Tracked(h, t)]
  OBVIOUS
<1>9. r \in Track /\ r.pid = b.pid /\ (p \in Tracked(h, t) => r.kept = TRUE) /\ r.points = b.points /\ r.first = b.first
      /\ r.existed = b.existed /\ r.exited = b.exited
  BY <1>6, <1>7, <1>8 DEF Track
<1>10. Continued(h, now, t, p) = r
  BY <1>2, <1>5, <1>8 DEF Continued
<1> QED
  BY <1>3, <1>5, <1>6, <1>9, <1>10 DEF IsContinued

\* The live tracks after a sample.
LEMMA FollowedIs ==
    ASSUME NEW h, LiveType(h.live), NEW t, TreeType(t), NEW now \in Nat, NEW maxAge \in Nat
    PROVE  /\ DOMAIN Followed(h, now, t, maxAge) = DOMAIN t
           /\ \A p \in DOMAIN t : /\ Followed(h, now, t, maxAge)[p] \in Track
                                  /\ Followed(h, now, t, maxAge)[p].pid = p
                                  /\ Recorded(Followed(h, now, t, maxAge)[p], Continued(h, now, t, p), now, t[p], maxAge)
           /\ LiveType(Followed(h, now, t, maxAge))
<1>1. PICK f : f = Followed(h, now, t, maxAge)
  OBVIOUS
<1>2. f = [p \in DOMAIN t |-> Record(Continued(h, now, t, p), now, t[p], maxAge)]
  BY <1>1 DEF Followed, Continued
<1>3. ASSUME NEW p \in DOMAIN t
      PROVE  f[p] \in Track /\ f[p].pid = p /\ Recorded(f[p], Continued(h, now, t, p), now, t[p], maxAge)
  <2>1. f[p] = Record(Continued(h, now, t, p), now, t[p], maxAge)
    BY <1>2
  <2>2. Continued(h, now, t, p) \in Track /\ Continued(h, now, t, p).pid = p
    <3>1. IsContinued(Continued(h, now, t, p), h, now, t, p)
      BY ContinuedIs
    <3> QED
      BY <3>1 DEF IsContinued
  <2>3. t[p] \in Process
    BY DEF TreeType, Process
  <2>4. Recorded(f[p], Continued(h, now, t, p), now, t[p], maxAge)
    BY <2>1, <2>2, <2>3, RecordIs
  <2> QED
    BY <2>2, <2>4 DEF Recorded
<1>4. DOMAIN f = DOMAIN t
  BY <1>2
<1>5. LiveType(f)
  BY <1>3, <1>4 DEF LiveType, TreeType
<1> QED
  BY <1>1, <1>3, <1>4, <1>5

\* A sample leaves a history a history.
LEMMA ObserveType ==
    ASSUME NEW h, HistoryType(h), NEW t, TreeType(t), NEW now \in Nat, NEW maxAge \in Nat
    PROVE  HistoryType(Observe(h, now, t, maxAge))
<1> USE DetectorAssumption
<1>1. LiveType(h.live) /\ h.departed \in Seq(Track) /\ h.candidates \in Seq(Track)
      /\ h.started \in Nat /\ h.exited \in Nat /\ h.restarted \in Nat
      /\ h.restarted + Len(h.candidates) <= h.exited
  BY DEF HistoryType
<1>2. PICK gone : gone = Gone(h, now, t)
  OBVIOUS
<1>3. gone \in Seq(Track) /\ Len(gone) = Len(Ended(h, t))
  <2>1. HaveLeft(gone, Ended(h, t), h, now)
    BY <1>1, <1>2, GoneIs
  <2> QED
    BY <2>1 DEF HaveLeft
<1>4. Departed(h, now, t, maxAge) \in Seq(Track)
  <2>1. PICK I : I = {i \in DOMAIN gone : gone[i].kept}
    OBVIOUS
  <2>2. PICK a : a = Latest(h.departed \o Selected(gone, I), MaxExited)
    OBVIOUS
  <2>3. Selected(gone, I) \in Seq(Track)
    BY <1>3, SelectedLen
  <2>4. h.departed \o Selected(gone, I) \in Seq(Track)
    BY <1>1, <2>3
  <2>5. a \in Seq(Track)
    BY <2>2, <2>4, LatestIs
  <2>6. PICK J : J = {i \in DOMAIN a : a[i].exited >= now - maxAge}
    OBVIOUS
  <2>7. Departed(h, now, t, maxAge) = Selected(a, J)
    BY <1>2, <2>1, <2>2, <2>6 DEF Departed
  <2> QED
    BY <2>5, <2>7, SelectedLen
<1>5. PICK candidates : candidates = Replaceable(h, now, t)
  OBVIOUS
<1>6. candidates \in Seq(Track) /\ Len(candidates) <= Len(h.candidates) + Len(gone)
  <2>1. PICK s : s = h.candidates
    OBVIOUS
  <2>2. s \in Seq(Track) /\ s \o gone \in Seq(Track) /\ Len(s \o gone) = Len(s) + Len(gone)
    <3>1. s \in Seq(Track) /\ gone \in Seq(Track)
      BY <1>1, <1>3, <2>1
    <3> QED
      BY <3>1
  <2>8. PICK all : all = s \o gone
    OBVIOUS
  <2>9. PICK a : a = Latest(all, MaxExited)
    OBVIOUS
  <2>3. a \in Seq(Track) /\ Len(a) <= Len(all)
    BY <2>2, <2>8, <2>9, LatestIs
  <2>4. PICK J : J = {i \in DOMAIN a : now - a[i].exited <= RestartSeconds}
    OBVIOUS
  <2>5. candidates = Selected(a, J)
    BY <1>2, <1>5, <2>1, <2>4, <2>8, <2>9 DEF Replaceable
  <2>6. candidates \in Seq(Track) /\ Len(candidates) <= Len(a)
    BY <2>3, <2>5, SelectedLen
  <2>7. Len(candidates) \in Nat /\ Len(a) \in Nat /\ Len(s) \in Nat /\ Len(gone) \in Nat
    <3>1. Len(candidates) \in Nat
      BY ONLY <2>6, SMTT(30)
    <3>2. Len(a) \in Nat
      BY ONLY <2>3, SMTT(30)
    <3>3. Len(s) \in Nat
      BY ONLY <2>2, SMTT(30)
    <3>4. Len(gone) \in Nat
      BY ONLY <1>3, SMTT(30)
    <3> QED
      BY <3>1, <3>2, <3>3, <3>4
  <2> QED
    BY ONLY <2>1, <2>2, <2>3, <2>6, <2>7, <2>8, SMTT(30)
<1>7. PICK pids : pids = InOrder(DOMAIN t)
  OBVIOUS
<1>8. pids \in Seq(DOMAIN t)
  BY <1>7, InOrderIs DEF Enumerates, TreeType
<1>9. PICK starts : starts = Selected(pids, {i \in DOMAIN pids : h.observed /\ ~GoesOn(h, t, pids[i])})
  OBVIOUS
<1>10. starts \in Seq(DOMAIN t)
  <2>1. PICK I : I = {i \in DOMAIN pids : h.observed /\ ~GoesOn(h, t, pids[i])}
    OBVIOUS
  <2> QED
    BY <1>8, <1>9, <2>1, SelectedLen
<1>11. PICK remaining : remaining = Remaining(candidates, starts)
  OBVIOUS
<1>12. remaining \in Seq(Track) /\ Len(remaining) <= Len(candidates)
  BY <1>6, <1>10, <1>11, RemainingIs
<1>13. PICK o : o = Observe(h, now, t, maxAge)
  OBVIOUS
<1>14. o = [live |-> Followed(h, now, t, maxAge), departed |-> Departed(h, now, t, maxAge),
            candidates |-> remaining, observed |-> TRUE,
            started |-> h.started + Len(starts), exited |-> h.exited + Len(Ended(h, t)),
            restarted |-> h.restarted + (Len(candidates) - Len(remaining))]
  BY <1>5, <1>7, <1>9, <1>11, <1>13 DEF Observe
<1>15. LiveType(o.live)
  BY <1>1, <1>14, FollowedIs
<1>16. PICK a, b, c, d, e \in Nat :
          a = Len(h.candidates) /\ b = Len(gone) /\ c = Len(candidates) /\ d = Len(remaining) /\ e = Len(starts)
  <2>1. Len(h.candidates) \in Nat
    BY <1>1
  <2>2. Len(gone) \in Nat /\ Len(candidates) \in Nat /\ Len(remaining) \in Nat /\ Len(starts) \in Nat
    BY <1>3, <1>6, <1>10, <1>12
  <2> QED
    BY <2>1, <2>2
<1>17. PICK f, g, i \in Nat : f = h.restarted /\ g = h.exited /\ i = h.started
  BY <1>1
<1>18. f + a <= g /\ c <= a + b /\ d <= c
  BY <1>1, <1>6, <1>12, <1>16, <1>17
<1>23. o.started = i + e /\ o.exited = g + b /\ o.restarted = f + (c - d) /\ Len(o.candidates) = d
  <2>1. o.started = h.started + Len(starts) /\ o.exited = h.exited + Len(Ended(h, t)) /\ o.candidates = remaining
    BY <1>14
  <2>2. o.restarted = h.restarted + (Len(candidates) - Len(remaining))
    BY <1>14
  <2> QED
    BY <1>3, <1>16, <1>17, <2>1, <2>2
<1>19. o.started \in Nat /\ o.exited \in Nat /\ o.restarted \in Nat /\ o.restarted + Len(o.candidates) <= o.exited
  <2>1. i + e \in Nat /\ g + b \in Nat /\ f + (c - d) \in Nat
    BY <1>18
  <2>2. (f + (c - d)) + d <= g + b
    BY <1>18
  <2> QED
    BY <1>23, <2>1, <2>2
<1>20. o.departed \in Seq(Track) /\ o.candidates \in Seq(Track)
  BY <1>4, <1>12, <1>14
<1>21. o = [live |-> o.live, departed |-> o.departed, candidates |-> o.candidates, observed |-> o.observed,
            started |-> o.started, exited |-> o.exited, restarted |-> o.restarted]
  BY <1>14
<1>22. HistoryType(o)
  BY <1>15, <1>19, <1>20, <1>21 DEF HistoryType
<1> QED
  BY <1>13, <1>22

-----------------------------------------------------------------------------
(* A sample no limit cuts anything off *)

\* What a sample at now finds: every track has points, all before now.
Before(h, now) ==
    /\ LiveSound(h, now) /\ DepartedSound(h, now)
    /\ \A p \in Live(h) : \A m \in Marks(h.live[p]) : m.at < now

\* The points of a process from before the sample.
OldMarks(h, t, p) == IF GoesOn(h, t, p) THEN Marks(h.live[p]) ELSE {}

\* The point of the sample.
NewMark(now, t, p) == [at |-> now, value |-> Reading(t[p])]

\* A live track after a sample: the process of before, or a new one, with what is young
\* enough of its points.
IsFollowed(r, h, now, t, p, maxAge) ==
    /\ r \in Track /\ r.pid = p /\ r.kept = TRUE /\ r.exited = None /\ Rising(r.points)
    /\ Marks(r) = {m \in OldMarks(h, t, p) \cup {NewMark(now, t, p)} : m.at >= now - maxAge}
    /\ GoesOn(h, t, p) => r.first = h.live[p].first /\ r.existed = h.live[p].existed
    /\ ~GoesOn(h, t, p) => r.first = now /\ r.existed = FALSE

\* As long as there is room, every live process has such a track.
LEMMA ObserveLive ==
    ASSUME NEW h, HistoryType(h), NEW t, TreeType(t), NEW now \in Nat, NEW maxAge \in Nat,
           Before(h, now), ~Overflows(h, t), NEW p \in DOMAIN t
    PROVE  IsFollowed(Observe(h, now, t, maxAge).live[p], h, now, t, p, maxAge)
<1> USE DetectorAssumption
<1>1. LiveType(h.live)
  BY DEF HistoryType
<1>2. PICK r : r = Followed(h, now, t, maxAge)[p]
  OBVIOUS
<1>3. Observe(h, now, t, maxAge).live[p] = r
  BY <1>2 DEF Observe
<1>4. PICK k : k = Continued(h, now, t, p)
  OBVIOUS
<1>5. IsContinued(k, h, now, t, p)
  BY <1>1, <1>4, ContinuedIs
<1>6. r \in Track /\ r.pid = p /\ Recorded(r, k, now, t[p], maxAge)
  <2>1. \A q \in DOMAIN t : /\ Followed(h, now, t, maxAge)[q] \in Track
                            /\ Followed(h, now, t, maxAge)[q].pid = q
                            /\ Recorded(Followed(h, now, t, maxAge)[q], Continued(h, now, t, q), now, t[q], maxAge)
    BY <1>1, FollowedIs
  <2> QED
    BY <1>2, <1>4, <2>1
<1>7. p \in Tracked(h, t)
  <2>1. Cardinality(DOMAIN t) <= MaxTracked
    <3>1. Cardinality(DOMAIN t) \in Nat
      BY FS_CardinalityType DEF TreeType
    <3> QED
      BY <3>1 DEF Overflows
  <2> QED
    BY <2>1, AllTracked
<1>8. k.kept = TRUE /\ r.kept = TRUE
  BY <1>5, <1>6, <1>7 DEF IsContinued, Recorded
<1>9. GoesOn(h, t, p) => /\ p \in Live(h) /\ h.live[p] \in Track
                         /\ Len(h.live[p].points) < MaxPoints /\ h.live[p].exited = None
                         /\ Rising(h.live[p].points) /\ \A m \in Marks(h.live[p]) : m.at < now
  <2> SUFFICES ASSUME GoesOn(h, t, p)
               PROVE  /\ p \in Live(h) /\ h.live[p] \in Track
                      /\ Len(h.live[p].points) < MaxPoints /\ h.live[p].exited = None
                      /\ Rising(h.live[p].points) /\ \A m \in Marks(h.live[p]) : m.at < now
    OBVIOUS
  <2>1. p \in Live(h) /\ h.live[p] \in Track
    BY <1>1 DEF GoesOn, Live, LiveType
  <2>2. Len(h.live[p].points) < MaxPoints
    <3>1. Len(h.live[p].points) \in Nat
      BY <2>1, MarksAre
    <3>2. ~(Len(h.live[p].points) >= MaxPoints)
      BY <2>1 DEF Overflows
    <3> QED
      BY <3>1, <3>2
  <2> QED
    BY <2>1, <2>2 DEF Before, LiveSound, Sound
<1>10. /\ Len(k.points) < MaxPoints /\ k.exited = None /\ Rising(k.points)
       /\ Marks(k) = OldMarks(h, t, p) /\ \A m \in Marks(k) : m.at < now
  <2>1. CASE GoesOn(h, t, p)
    <3>1. k.points = h.live[p].points /\ k.exited = h.live[p].exited
      BY <1>5, <2>1 DEF IsContinued
    <3> QED
      BY <1>9, <2>1, <3>1 DEF Marks, OldMarks
  <2>2. CASE ~GoesOn(h, t, p)
    <3>1. k.points = <<>> /\ k.exited = None
      BY <1>5, <2>2 DEF IsContinued
    <3>2. Len(<<>>) < MaxPoints /\ Rising(<<>>)
      BY DEF Rising
    <3> QED
      BY <2>2, <3>1, <3>2 DEF Marks, OldMarks
  <2> QED
    BY <2>1, <2>2
<1>11. Marks(r) = {m \in OldMarks(h, t, p) \cup {NewMark(now, t, p)} : m.at >= now - maxAge}
  BY <1>6, <1>8, <1>10 DEF Recorded, NewMark
<1>12. Rising(r.points) /\ r.exited = None
  BY <1>6, <1>10 DEF Recorded
<1>13. r.first = k.first /\ r.existed = k.existed
  BY <1>6 DEF Recorded
<1>14. IsFollowed(r, h, now, t, p, maxAge)
  BY <1>5, <1>6, <1>8, <1>11, <1>12, <1>13 DEF IsFollowed, IsContinued
<1> QED
  BY <1>3, <1>14

\* The tracks that have departed, those of the processes that left among them.
AllDeparted(h, now, t) == h.departed \o Gone(h, now, t)

\* As long as there is room, a departed track is only dropped for its age.
LEMMA ObserveDeparted ==
    ASSUME NEW h, HistoryType(h), NEW t, TreeType(t), NEW now \in Nat, NEW maxAge \in Nat,
           Before(h, now), ~Overflows(h, t)
    PROVE  /\ AllDeparted(h, now, t) \in Seq(Track)
           /\ Len(AllDeparted(h, now, t)) = Len(h.departed) + Len(Gone(h, now, t))
           /\ Observe(h, now, t, maxAge).departed =
                Selected(AllDeparted(h, now, t),
                         {i \in DOMAIN AllDeparted(h, now, t) : AllDeparted(h, now, t)[i].exited >= now - maxAge})
<1> USE DetectorAssumption
<1>1. LiveType(h.live) /\ h.departed \in Seq(Track)
  BY DEF HistoryType
<1>2. PICK gone : gone = Gone(h, now, t)
  OBVIOUS
<1>3. PICK ended : ended = Ended(h, t)
  OBVIOUS
<1>4. /\ ended \in Seq(Left(h, t)) /\ gone \in Seq(Track) /\ Len(gone) = Len(ended)
      /\ \A i \in 1..Len(ended) : gone[i] = [h.live[ended[i]] EXCEPT !.exited = now]
  <2>1. ended \in Seq(Left(h, t)) /\ HaveLeft(gone, ended, h, now)
    BY <1>1, <1>2, <1>3, GoneIs
  <2> QED
    BY <2>1 DEF HaveLeft
<1>5. PICK I : I = {i \in DOMAIN gone : gone[i].kept}
  OBVIOUS
<1>6. 1..Len(gone) \subseteq I
  <2> SUFFICES ASSUME NEW i \in 1..Len(gone) PROVE i \in DOMAIN gone /\ gone[i].kept
    BY <1>5
  <2>1. ended[i] \in Live(h)
    BY <1>4 DEF Left
  <2>2. h.live[ended[i]] \in Track /\ h.live[ended[i]].kept
    BY <1>1, <2>1 DEF LiveType, Live, Before, LiveSound
  <2>3. gone[i] = [h.live[ended[i]] EXCEPT !.exited = now]
    BY <1>4
  <2> QED
    BY <1>4, <2>2, <2>3 DEF Track
<1>7. Selected(gone, I) = gone
  BY <1>4, <1>6, SelectedAll
<1>8. PICK s : s = h.departed
  OBVIOUS
<1>9. s \o gone \in Seq(Track) /\ Len(s \o gone) = Len(s) + Len(gone)
  <2>1. s \in Seq(Track) /\ gone \in Seq(Track)
    BY <1>1, <1>4, <1>8
  <2> QED
    BY <2>1
<1>10. Len(s) + Len(gone) <= MaxExited
  <2>1. Len(s) \in Nat /\ Len(gone) \in Nat
    BY <1>1, <1>4, <1>8
  <2>2. ~(Len(s) + Len(gone) > MaxExited)
    BY <1>3, <1>4, <1>8 DEF Overflows
  <2> QED
    BY <2>1, <2>2
<1>11. Latest(s \o gone, MaxExited) = s \o gone
  BY <1>9, <1>10, LatestIs
<1>12. PICK all : all = s \o gone
  OBVIOUS
<1>13. Departed(h, now, t, maxAge) = Selected(all, {i \in DOMAIN all : all[i].exited >= now - maxAge})
  BY <1>2, <1>5, <1>7, <1>8, <1>11, <1>12 DEF Departed
<1>14. all = AllDeparted(h, now, t)
  BY <1>2, <1>8, <1>12 DEF AllDeparted
<1>15. Observe(h, now, t, maxAge).departed = Departed(h, now, t, maxAge)
  BY DEF Observe
<1> QED
  BY <1>2, <1>8, <1>9, <1>12, <1>13, <1>14, <1>15

\* A live track that became a departed one.
GoneFrom(d, u, now) ==
    /\ d \in Track /\ d.exited = now /\ d.points = u.points /\ d.pid = u.pid
    /\ d.first = u.first /\ d.existed = u.existed

\* The departed tracks are those of before and those that left.
LEMMA AllDepartedAre ==
    ASSUME NEW h, HistoryType(h), NEW t, NEW now \in Nat
    PROVE  /\ AllDeparted(h, now, t) \in Seq(Track)
           /\ Len(AllDeparted(h, now, t)) = Len(h.departed) + Len(Ended(h, t))
           /\ \A i \in 1..Len(h.departed) : AllDeparted(h, now, t)[i] = h.departed[i]
           /\ \A i \in 1..Len(Ended(h, t)) :
                 /\ Ended(h, t)[i] \in Left(h, t)
                 /\ GoneFrom(AllDeparted(h, now, t)[Len(h.departed) + i], h.live[Ended(h, t)[i]], now)
<1>1. LiveType(h.live) /\ h.departed \in Seq(Track)
  BY DEF HistoryType
<1>2. PICK gone : gone = Gone(h, now, t)
  OBVIOUS
<1>3. PICK ended : ended = Ended(h, t)
  OBVIOUS
<1>4. ended \in Seq(Left(h, t)) /\ HaveLeft(gone, ended, h, now)
  BY <1>1, <1>2, <1>3, GoneIs
<1>5. PICK s : s = h.departed
  OBVIOUS
<1>6. s \in Seq(Track) /\ gone \in Seq(Track) /\ Len(gone) = Len(ended)
  BY <1>1, <1>4, <1>5 DEF HaveLeft
<1>7. PICK all : all = s \o gone
  OBVIOUS
<1>8. PICK m, n \in Nat : m = Len(s) /\ n = Len(gone)
  BY <1>6
<1>9. all \in Seq(Track) /\ Len(all) = m + n /\ (\A i \in 1..m : all[i] = s[i]) /\ (\A i \in 1..n : all[m + i] = gone[i])
  BY <1>6, <1>7, <1>8
<1>10. ASSUME NEW i \in 1..n PROVE ended[i] \in Left(h, t) /\ GoneFrom(all[m + i], h.live[ended[i]], now)
  <2>1. ended[i] \in Left(h, t)
    BY <1>4, <1>6, <1>8
  <2>2. PICK u : u = h.live[ended[i]]
    OBVIOUS
  <2>3. u \in Track
    BY <1>1, <2>1, <2>2 DEF LiveType, Left, Live
  <2>4. gone[i] = [u EXCEPT !.exited = now]
    BY <1>4, <1>6, <1>8, <2>2 DEF HaveLeft
  <2>5. PICK g : g = [u EXCEPT !.exited = now]
    OBVIOUS
  <2>6. g \in Track /\ g.exited = now /\ g.points = u.points /\ g.pid = u.pid /\ g.first = u.first /\ g.existed = u.existed
    BY <2>3, <2>5 DEF Track
  <2>7. all[m + i] = g
    BY <1>9, <2>4, <2>5
  <2> QED
    BY <2>1, <2>2, <2>6, <2>7 DEF GoneFrom
<1>11. all = AllDeparted(h, now, t)
  BY <1>2, <1>5, <1>7 DEF AllDeparted
<1> QED
  BY <1>3, <1>5, <1>6, <1>8, <1>9, <1>10, <1>11

\* Where a departed track comes from.
LEMMA DepartedFrom ==
    ASSUME NEW h, HistoryType(h), NEW t, TreeType(t), NEW now \in Nat, NEW maxAge \in Nat,
           Before(h, now), ~Overflows(h, t), NEW o, o = Observe(h, now, t, maxAge), NEW k \in DOMAIN o.departed
    PROVE  \/ \E j \in DOMAIN h.departed : o.departed[k] = h.departed[j]
           \/ \E p \in Left(h, t) : GoneFrom(o.departed[k], h.live[p], now)
<1>1. PICK all : all = AllDeparted(h, now, t)
  OBVIOUS
<1>2. PICK I : I = {i \in DOMAIN all : all[i].exited >= now - maxAge}
  OBVIOUS
<1>3. all \in Seq(Track) /\ o.departed = Selected(all, I)
  <2>1. AllDeparted(h, now, t) \in Seq(Track)
    BY ObserveDeparted
  <2>2. Observe(h, now, t, maxAge).departed =
          Selected(AllDeparted(h, now, t),
                   {i \in DOMAIN AllDeparted(h, now, t) : AllDeparted(h, now, t)[i].exited >= now - maxAge})
    BY ObserveDeparted
  <2> QED
    BY <1>1, <1>2, <2>1, <2>2
<1>4. PICK d : d = o.departed
  OBVIOUS
<1>5. d \in Seq(Track) /\ \A j \in 1..Len(d) : \E i \in 1..Len(all) : d[j] = all[i]
  BY ONLY <1>3, <1>4, SelectedFrom, SMTT(30)
<1>6. PICK i \in 1..Len(all) : d[k] = all[i]
  BY <1>4, <1>5
<1>7. h.departed \in Seq(Track) /\ LiveType(h.live)
  BY DEF HistoryType
<1>8. Ended(h, t) \in Seq(Left(h, t))
  BY <1>7, GoneIs
<1>9. PICK m, n \in Nat : m = Len(h.departed) /\ n = Len(Ended(h, t))
  BY <1>7, <1>8
<1>10. Len(all) = m + n
  BY <1>1, <1>9, AllDepartedAre
<1>11. CASE i \in 1..m
  <2>1. all[i] = h.departed[i]
    BY <1>1, <1>9, <1>11, AllDepartedAre
  <2>2. i \in DOMAIN h.departed
    BY <1>7, <1>9, <1>11
  <2> QED
    BY <1>4, <1>6, <2>1, <2>2
<1>12. CASE i \notin 1..m
  <2>1. PICK j \in 1..n : i = m + j
    <3>1. i - m \in 1..n /\ i = m + (i - m)
      BY <1>10, <1>12
    <3> QED
      BY <3>1
  <2>2. Ended(h, t)[j] \in Left(h, t) /\ GoneFrom(all[m + j], h.live[Ended(h, t)[j]], now)
    BY <1>1, <1>9, AllDepartedAre
  <2> QED
    BY <1>4, <1>6, <2>1, <2>2
<1> QED
  BY <1>11, <1>12

\* The point of the sample has the value of the process, if it could be read.
LEMMA NewMarkIs ==
    ASSUME NEW t, TreeType(t), NEW now \in Nat, NEW p \in DOMAIN t
    PROVE  NewMark(now, t, p) \in Mark /\ NewMark(now, t, p).at = now
           /\ (NewMark(now, t, p).value = None <=> p \in Unmeasured(t))
           /\ (p \notin Unmeasured(t) => NewMark(now, t, p).value = t[p].value)
<1>1. t[p] \in Process
  BY DEF TreeType, Process
<1>2. NewMark(now, t, p) = [at |-> now, value |-> Reading(t[p])]
  BY DEF NewMark
<1>3. CASE t[p].readable
  <2>1. Reading(t[p]) = t[p].value /\ t[p].value \in Nat /\ p \notin Unmeasured(t)
    BY <1>1, <1>3 DEF Reading, Unmeasured, Process
  <2> QED
    BY <1>2, <2>1 DEF Mark, None
<1>4. CASE ~t[p].readable
  <2>1. Reading(t[p]) = None /\ p \in Unmeasured(t)
    BY <1>1, <1>4 DEF Reading, Unmeasured, Process
  <2> QED
    BY <1>2, <2>1 DEF Mark, None
<1> QED
  BY <1>3, <1>4

\* A sample leaves a history sound.
LEMMA ObserveSound ==
    ASSUME NEW h, HistoryType(h), NEW t, TreeType(t), NEW now \in Nat, NEW maxAge \in Nat,
           Before(h, now), ~Overflows(h, t), NEW o, o = Observe(h, now, t, maxAge)
    PROVE  LiveSound(o, now) /\ DepartedSound(o, now)
<1>1. HistoryType(o) /\ LiveType(h.live)
  <2>1. HistoryType(o)
    BY ObserveType
  <2>2. LiveType(h.live)
    BY DEF HistoryType
  <2> QED
    BY <2>1, <2>2
<1>2. Live(o) = DOMAIN t
  <2>1. o.live = Followed(h, now, t, maxAge)
    BY DEF Observe
  <2> QED
    BY <2>1 DEF Live, Followed
<1>3. ASSUME NEW p \in Live(h) PROVE h.live[p] \in Track /\ Sound(h.live[p], now) /\ \A m \in Marks(h.live[p]) : m.at < now /\ m.at \in Nat
  <2>1. h.live[p] \in Track
    BY <1>1 DEF LiveType, Live
  <2> QED
    BY <2>1, MarksAre DEF Before, LiveSound
<1>4. ASSUME NEW p \in DOMAIN t PROVE o.live[p].kept /\ o.live[p].exited = None /\ Sound(o.live[p], now)
  <2>1. PICK r : r = o.live[p]
    OBVIOUS
  <2>2. IsFollowed(r, h, now, t, p, maxAge)
    BY <2>1, ObserveLive
  <2>3. PICK new : new = NewMark(now, t, p)
    OBVIOUS
  <2>4. new.at = now
    BY <2>3, NewMarkIs
  <2>5. r.kept /\ r.exited = None /\ Rising(r.points)
    BY <2>2 DEF IsFollowed
  <2>6. \A m \in Marks(r) : m \in OldMarks(h, t, p) \/ m = new
    BY <2>2, <2>3 DEF IsFollowed
  <2>7. CASE GoesOn(h, t, p)
    <3>1. PICK u : u = h.live[p]
      OBVIOUS
    <3>2. /\ Sound(u, now) /\ (\A m \in Marks(u) : m.at < now /\ m.at \in Nat)
          /\ r.first = u.first /\ r.existed = u.existed /\ OldMarks(h, t, p) = Marks(u)
      BY <1>3, <2>2, <2>7, <3>1 DEF GoesOn, IsFollowed, OldMarks
    <3>3. \A m \in Marks(u) : m.at <= now
      BY <3>2
    <3>4. \A m \in Marks(r) : m.at <= now /\ (r.existed \/ r.first <= m.at)
      BY <2>4, <2>6, <3>2, <3>3 DEF Sound
    <3> QED
      BY <2>1, <2>5, <3>2, <3>4 DEF Sound
  <2>8. CASE ~GoesOn(h, t, p)
    <3>1. r.first = now /\ r.existed = FALSE /\ OldMarks(h, t, p) = {}
      BY <2>2, <2>8 DEF IsFollowed, OldMarks
    <3> QED
      BY <2>1, <2>4, <2>5, <2>6, <3>1 DEF Sound
  <2> QED
    BY <2>7, <2>8
<1>5. ASSUME NEW k \in DOMAIN o.departed
      PROVE  /\ Sound(o.departed[k], now) /\ o.departed[k].exited \in Nat /\ o.departed[k].exited <= now
             /\ \A m \in Marks(o.departed[k]) : m.at < o.departed[k].exited
  <2>1. CASE \E j \in DOMAIN h.departed : o.departed[k] = h.departed[j]
    BY <2>1 DEF Before, DepartedSound
  <2>2. CASE \E p \in Left(h, t) : GoneFrom(o.departed[k], h.live[p], now)
    <3>1. PICK p \in Left(h, t) : GoneFrom(o.departed[k], h.live[p], now)
      BY <2>2
    <3>2. PICK d, u : d = o.departed[k] /\ u = h.live[p]
      OBVIOUS
    <3>3. Sound(u, now) /\ (\A m \in Marks(u) : m.at < now)
      BY <1>3, <3>2 DEF Left
    <3>4. d.points = u.points /\ d.first = u.first /\ d.existed = u.existed /\ d.exited = now
      BY <3>1, <3>2 DEF GoneFrom
    <3>5. Marks(d) = Marks(u)
      BY <3>4 DEF Marks
    <3>6. Sound(d, now) /\ \A m \in Marks(d) : m.at < now
      BY <3>3, <3>4, <3>5 DEF Sound
    <3> QED
      BY <3>2, <3>4, <3>6
  <2> QED
    BY <2>1, <2>2, DepartedFrom
<1> QED
  BY <1>2, <1>4, <1>5 DEF LiveSound, DepartedSound

\* What a track tells hangs on its points and its process.
LEMMA SameMarksComplete ==
    ASSUME NEW d, NEW u, d.points = u.points, d.first = u.first, d.existed = u.existed, d.pid = u.pid, NEW when, NEW unread
    PROVE  /\ Marks(d) = Marks(u) /\ (Old(d, when) <=> Old(u, when)) /\ (Clear(d, when, unread) <=> Clear(u, when, unread))
<1>1. Marks(d) = Marks(u)
  BY DEF Marks
<1> QED
  BY <1>1 DEF Old, Clear

\* What was complete at a time stays so while the same processes are read.
LEMMA StaysComplete ==
    ASSUME NEW h, HistoryType(h), NEW t, TreeType(t), NEW now \in Nat, NEW maxAge \in Nat,
           Before(h, now), ~Overflows(h, t), NEW o, o = Observe(h, now, t, maxAge),
           NEW when \in Nat, when < now, when >= now - maxAge, Complete(h, when, Unmeasured(t))
    PROVE  Complete(o, when, Unmeasured(t))
<1>1. LiveType(h.live)
  BY DEF HistoryType
<1>2. Live(o) = DOMAIN t
  <2>1. o.live = Followed(h, now, t, maxAge)
    BY DEF Observe
  <2> QED
    BY <2>1 DEF Live, Followed
<1>3. PICK unread : unread = Unmeasured(t)
  OBVIOUS
<1>4. ASSUME NEW p \in DOMAIN t
      PROVE  /\ Old(o.live[p], when) => \E m \in Marks(o.live[p]) : m.at = when
             /\ Clear(o.live[p], when, unread)
  <2>1. PICK r : r = o.live[p]
    OBVIOUS
  <2>2. IsFollowed(r, h, now, t, p, maxAge)
    BY <2>1, ObserveLive
  <2>3. PICK new : new = NewMark(now, t, p)
    OBVIOUS
  <2>4. new.at = now /\ (new.value = None <=> p \in unread)
    BY <1>3, <2>3, NewMarkIs
  <2>5. Marks(r) = {m \in OldMarks(h, t, p) \cup {new} : m.at >= now - maxAge} /\ r.pid = p
    BY <2>2, <2>3 DEF IsFollowed
  <2>6. CASE GoesOn(h, t, p)
    <3>1. PICK u : u = h.live[p]
      OBVIOUS
    <3>2. p \in Live(h)
      BY <2>6 DEF GoesOn
    <3>3. r.first = u.first /\ r.existed = u.existed /\ OldMarks(h, t, p) = Marks(u) /\ u.pid = p
      BY <1>1, <2>2, <2>6, <3>1, <3>2 DEF IsFollowed, OldMarks, LiveType, Live
    <3>4. (Old(u, when) => \E m \in Marks(u) : m.at = when) /\ Clear(u, when, unread)
      BY <1>3, <3>1, <3>2 DEF Complete
    <3>5. Old(r, when) => \E m \in Marks(r) : m.at = when
      BY <2>5, <3>3, <3>4 DEF Old
    <3>6. Clear(r, when, unread)
      BY <2>4, <2>5, <3>3, <3>4 DEF Clear
    <3> QED
      BY <2>1, <3>5, <3>6
  <2>7. CASE ~GoesOn(h, t, p)
    <3>1. r.first = now /\ r.existed = FALSE /\ OldMarks(h, t, p) = {}
      BY <2>2, <2>7 DEF IsFollowed, OldMarks
    <3>2. ~Old(r, when)
      BY <3>1 DEF Old
    <3>3. Clear(r, when, unread)
      BY <2>4, <2>5, <3>1 DEF Clear
    <3> QED
      BY <2>1, <3>2, <3>3
  <2> QED
    BY <2>6, <2>7
<1>5. ASSUME NEW k \in DOMAIN o.departed
      PROVE  /\ Old(o.departed[k], when) /\ (\E m \in Marks(o.departed[k]) : m.at >= when)
                   => \E m \in Marks(o.departed[k]) : m.at = when
             /\ Clear(o.departed[k], when, unread)
  <2>1. CASE \E j \in DOMAIN h.departed : o.departed[k] = h.departed[j]
    BY <1>3, <2>1 DEF Complete
  <2>2. CASE \E p \in Left(h, t) : GoneFrom(o.departed[k], h.live[p], now)
    <3>1. PICK p \in Left(h, t) : GoneFrom(o.departed[k], h.live[p], now)
      BY <2>2
    <3>2. PICK d, u : d = o.departed[k] /\ u = h.live[p]
      OBVIOUS
    <3>3. (Old(u, when) => \E m \in Marks(u) : m.at = when) /\ Clear(u, when, unread)
      BY <1>3, <3>2 DEF Complete, Left
    <3>4. d.points = u.points /\ d.first = u.first /\ d.existed = u.existed /\ d.pid = u.pid
      BY <3>1, <3>2 DEF GoneFrom
    <3>5. Marks(d) = Marks(u) /\ (Old(d, when) <=> Old(u, when)) /\ (Clear(d, when, unread) <=> Clear(u, when, unread))
      BY <3>4, SameMarksComplete
    <3> QED
      BY <3>2, <3>3, <3>5
  <2> QED
    BY <2>1, <2>2, DepartedFrom
<1> QED
  BY <1>2, <1>3, <1>4, <1>5 DEF Complete

\* At the time of the sample itself every live track has a point.
LEMMA BecomesComplete ==
    ASSUME NEW h, HistoryType(h), NEW t, TreeType(t), NEW now \in Nat, NEW maxAge \in Nat,
           Before(h, now), ~Overflows(h, t), NEW o, o = Observe(h, now, t, maxAge)
    PROVE  /\ Complete(o, now, Unmeasured(t))
           /\ \A p \in DOMAIN t : {m \in Marks(o.live[p]) : m.at = now} = {NewMark(now, t, p)}
           /\ \A k \in DOMAIN o.departed : {m \in Marks(o.departed[k]) : m.at = now} = {}
<1>1. LiveType(h.live)
  BY DEF HistoryType
<1>2. Live(o) = DOMAIN t
  <2>1. o.live = Followed(h, now, t, maxAge)
    BY DEF Observe
  <2> QED
    BY <2>1 DEF Live, Followed
<1>3. PICK unread : unread = Unmeasured(t)
  OBVIOUS
<1>4. ASSUME NEW p \in DOMAIN t
      PROVE  /\ (\E m \in Marks(o.live[p]) : m.at = now) /\ Clear(o.live[p], now, unread)
             /\ {m \in Marks(o.live[p]) : m.at = now} = {NewMark(now, t, p)}
  <2>1. PICK r : r = o.live[p]
    OBVIOUS
  <2>2. IsFollowed(r, h, now, t, p, maxAge)
    BY <2>1, ObserveLive
  <2>3. PICK new : new = NewMark(now, t, p)
    OBVIOUS
  <2>4. new.at = now /\ (new.value = None <=> p \in unread)
    BY <1>3, <2>3, NewMarkIs
  <2>5. Marks(r) = {m \in OldMarks(h, t, p) \cup {new} : m.at >= now - maxAge} /\ r.pid = p
    BY <2>2, <2>3 DEF IsFollowed
  <2>6. \A m \in OldMarks(h, t, p) : m.at < now /\ m.at \in Nat
    <3>1. CASE GoesOn(h, t, p)
      <4>1. p \in Live(h) /\ h.live[p] \in Track
        BY <1>1, <3>1 DEF GoesOn, Live, LiveType
      <4> QED
        BY <3>1, <4>1, MarksAre DEF OldMarks, Before
    <3> QED
      BY <3>1 DEF OldMarks
  <2>7. new \in Marks(r)
    BY <2>4, <2>5
  <2>8. \A m \in Marks(r) : m = new \/ (m.at < now /\ m.at \in Nat)
    BY <2>5, <2>6
  <2>9. Clear(r, now, unread)
    BY <2>4, <2>5, <2>8 DEF Clear
  <2>10. {m \in Marks(r) : m.at = now} = {new}
    BY <2>4, <2>7, <2>8
  <2> QED
    BY <2>1, <2>3, <2>4, <2>7, <2>9, <2>10
<1>5. ASSUME NEW k \in DOMAIN o.departed
      PROVE  \A m \in Marks(o.departed[k]) : m.at < now /\ m.at \in Nat
  <2>1. PICK d : d = o.departed[k]
    OBVIOUS
  <2>2. d \in Track
    BY <2>1, ObserveType DEF HistoryType
  <2>3. d.exited \in Nat /\ d.exited <= now /\ \A m \in Marks(d) : m.at < d.exited
    BY <2>1, ObserveSound DEF DepartedSound
  <2>4. \A m \in Marks(d) : m.at \in Nat
    BY <2>2, MarksAre
  <2>5. \A m \in Marks(d) : m.at < now
    BY <2>3, <2>4
  <2> QED
    BY <2>1, <2>4, <2>5
<1>6. ASSUME NEW k \in DOMAIN o.departed
      PROVE  /\ ~\E m \in Marks(o.departed[k]) : m.at >= now
             /\ {m \in Marks(o.departed[k]) : m.at = now} = {} /\ Clear(o.departed[k], now, unread)
  <2>1. \A m \in Marks(o.departed[k]) : ~(m.at >= now) /\ m.at # now
    BY <1>5
  <2> QED
    BY <2>1 DEF Clear
<1> QED
  BY <1>2, <1>3, <1>4, <1>6 DEF Complete

-----------------------------------------------------------------------------
(* What the tracks held at a time *)

\* The points of a track at a time: one at most.
PointsAt(track, when) == {m \in Marks(track) : m.at = when}

\* What is held at a time is in the points of the time.
LEMMA HeldIs ==
    ASSUME NEW track, NEW when
    PROVE  ReadAt(track, when) = {m.value : m \in {n \in PointsAt(track, when) : n.value # None}}
  BY DEF ReadAt, PointsAt

\* What a process held is an integer.
LEMMA ValueType ==
    ASSUME NEW track, track \in Track, NEW when
    PROVE  ValueAt(track, when) \in Int
<1>1. Marks(track) \subseteq Mark
  BY MarksAre
<1>2. ReadAt(track, when) \subseteq Nat
  BY <1>1 DEF ReadAt, Mark
<1> QED
  BY <1>2 DEF ValueAt

\* The same points hold the same.
LEMMA ValueSame ==
    ASSUME NEW d, NEW u, NEW when, PointsAt(d, when) = PointsAt(u, when)
    PROVE  ValueAt(d, when) = ValueAt(u, when)
<1>1. ReadAt(d, when) = ReadAt(u, when)
  BY HeldIs
<1> QED
  BY <1>1 DEF ValueAt

\* No point, no value.
LEMMA ValueNone ==
    ASSUME NEW track, NEW when, PointsAt(track, when) = {}
    PROVE  ValueAt(track, when) = 0
<1>1. ReadAt(track, when) = {}
  BY HeldIs
<1> QED
  BY <1>1 DEF ValueAt

\* One point has the value.
LEMMA ValueOne ==
    ASSUME NEW track, NEW when, NEW m, PointsAt(track, when) = {m}
    PROVE  ValueAt(track, when) = IF m.value = None THEN 0 ELSE m.value
<1>1. CASE m.value = None
  <2>1. ReadAt(track, when) = {}
    BY <1>1, HeldIs
  <2> QED
    BY <1>1, <2>1 DEF ValueAt
<1>2. CASE m.value # None
  <2>1. ReadAt(track, when) = {m.value}
    BY <1>2, HeldIs
  <2>2. (CHOOSE v \in {m.value} : TRUE) = m.value
    OBVIOUS
  <2>3. {m.value} # {}
    OBVIOUS
  <2> QED
    BY <1>2, <2>1, <2>2, <2>3 DEF ValueAt
<1> QED
  BY <1>1, <1>2

\* What each of the live processes held.
LiveValues(h, when) == [p \in Live(h) |-> ValueAt(h.live[p], when)]

\* What each of the departed ones held.
DepartedValues(h, when) == [k \in DOMAIN h.departed |-> ValueAt(h.departed[k], when)]

\* What each of those held that leave.
LeftValues(h, t, when) == [p \in Left(h, t) |-> ValueAt(h.live[p], when)]

\* These can be added up.
LEMMA ValuesAdd ==
    ASSUME NEW h, HistoryType(h), NEW when
    PROVE  /\ Summable(LiveValues(h, when)) /\ Summable(DepartedValues(h, when))
           /\ HeldAt(h, when) = SumOver(LiveValues(h, when)) + SumOver(DepartedValues(h, when))
<1>1. LiveType(h.live) /\ h.departed \in Seq(Track)
  BY DEF HistoryType
<1>2. Summable(LiveValues(h, when))
  <2>1. \A p \in Live(h) : ValueAt(h.live[p], when) \in Int
    BY <1>1, ValueType DEF LiveType, Live
  <2>2. IsFiniteSet(Live(h)) /\ Live(h) \subseteq Nat
    BY <1>1 DEF LiveType, Live
  <2> QED
    BY <2>1, <2>2 DEF Summable, LiveValues
<1>3. Summable(DepartedValues(h, when))
  <2>1. PICK d : d = h.departed
    OBVIOUS
  <2>2. d \in Seq(Track) /\ DOMAIN d = 1..Len(d) /\ Len(d) \in Nat
    BY <1>1, <2>1
  <2>3. \A k \in DOMAIN d : ValueAt(d[k], when) \in Int
    BY <2>2, ValueType
  <2>4. IsFiniteSet(1..Len(d)) /\ 1..Len(d) \subseteq Nat
    BY <2>2, FS_Interval
  <2> QED
    BY <2>1, <2>2, <2>3, <2>4 DEF Summable, DepartedValues
<1> QED
  BY <1>2, <1>3 DEF HeldAt, LiveValues, DepartedValues

\* The live tracks: those that go on held what they hold, and new ones nothing.
LEMMA LiveHeld ==
    ASSUME NEW h, HistoryType(h), NEW t, TreeType(t), NEW now \in Nat, NEW maxAge \in Nat,
           Before(h, now), ~Overflows(h, t), NEW o, o = Observe(h, now, t, maxAge),
           NEW when \in Nat, when < now, when >= now - maxAge
    PROVE  /\ Summable(LeftValues(h, t, when))
           /\ SumOver(LiveValues(h, when)) = SumOver(LiveValues(o, when)) + SumOver(LeftValues(h, t, when))
<1>1. HistoryType(o) /\ LiveType(h.live)
  <2>1. HistoryType(o)
    BY ObserveType
  <2>2. LiveType(h.live)
    BY DEF HistoryType
  <2> QED
    BY <2>1, <2>2
<1>2. Live(o) = DOMAIN t
  <2>1. o.live = Followed(h, now, t, maxAge)
    BY DEF Observe
  <2> QED
    BY <2>1 DEF Live, Followed
<1>3. PICK Stay : Stay = {p \in Live(h) : GoesOn(h, t, p)}
  OBVIOUS
<1>4. PICK L : L = Left(h, t)
  OBVIOUS
<1>5. PICK f, g : f = LiveValues(h, when) /\ g = LiveValues(o, when)
  OBVIOUS
<1>6. Summable(f) /\ Summable(g)
  BY <1>1, <1>5, ValuesAdd
<1>7. DOMAIN f = Live(h) /\ DOMAIN g = DOMAIN t /\ Live(h) = Stay \cup L /\ Stay \cap L = {}
  BY <1>2, <1>3, <1>4, <1>5 DEF LiveValues, Left
<1>8. PICK a, b : a = [p \in Stay |-> f[p]] /\ b = [p \in L |-> f[p]]
  OBVIOUS
<1>9. SumOver(f) = SumOver(a) + SumOver(b)
  BY <1>6, <1>7, <1>8, SumParts
<1>10. Summable(a) /\ Summable(b)
  <2>1. IsFiniteSet(Stay) /\ IsFiniteSet(L) /\ Stay \subseteq DOMAIN f /\ L \subseteq DOMAIN f
    BY <1>6, <1>7, FS_Subset DEF Summable
  <2> QED
    BY <1>6, <1>8, <2>1 DEF Summable
<1>11. ASSUME NEW p \in DOMAIN t, NEW r, r = o.live[p]
       PROVE  PointsAt(r, when) = {m \in OldMarks(h, t, p) : m.at = when}
  <2>1. IsFollowed(r, h, now, t, p, maxAge)
    BY <1>11, ObserveLive
  <2>2. NewMark(now, t, p).at = now
    BY NewMarkIs
  <2>3. Marks(r) = {m \in OldMarks(h, t, p) \cup {NewMark(now, t, p)} : m.at >= now - maxAge}
    BY <2>1 DEF IsFollowed
  <2> QED
    BY <2>2, <2>3 DEF PointsAt
<1>12. \A p \in Stay : p \in DOMAIN t /\ g[p] = f[p]
  <2> SUFFICES ASSUME NEW p \in Stay PROVE p \in DOMAIN t /\ g[p] = f[p]
    OBVIOUS
  <2>1. GoesOn(h, t, p) /\ p \in DOMAIN t /\ p \in Live(h)
    BY <1>3 DEF GoesOn
  <2>2. PICK r, u : r = o.live[p] /\ u = h.live[p]
    OBVIOUS
  <2>3. PointsAt(r, when) = PointsAt(u, when)
    BY <1>11, <2>1, <2>2 DEF OldMarks, PointsAt
  <2>4. ValueAt(r, when) = ValueAt(u, when)
    BY <2>3, ValueSame
  <2> QED
    BY <1>2, <1>5, <2>1, <2>2, <2>4 DEF LiveValues
<1>13. \A p \in DOMAIN t : p \notin Stay => g[p] = 0
  <2> SUFFICES ASSUME NEW p \in DOMAIN t, p \notin Stay PROVE g[p] = 0
    OBVIOUS
  <2>1. ~GoesOn(h, t, p)
    BY <1>3 DEF GoesOn
  <2>2. PICK r : r = o.live[p]
    OBVIOUS
  <2>3. PointsAt(r, when) = {}
    BY <1>11, <2>1, <2>2 DEF OldMarks
  <2>4. ValueAt(r, when) = 0
    BY <2>3, ValueNone
  <2> QED
    BY <1>2, <1>5, <2>2, <2>4 DEF LiveValues
<1>14. PICK w : w = [p \in Stay |-> p]
  OBVIOUS
<1>15. Moves(a, g, w)
  BY <1>6, <1>7, <1>8, <1>10, <1>12, <1>13, <1>14 DEF Moves
<1>16. SumOver(a) = SumOver(g)
  BY <1>15, SumMoved
<1>17. b = LeftValues(h, t, when)
  BY <1>4, <1>5, <1>8 DEF LiveValues, Left, LeftValues
<1> QED
  BY <1>5, <1>9, <1>10, <1>16, <1>17

\* The departed tracks: those that are dropped held nothing any more, and
\* those of processes that left hold what they held.
LEMMA DepartedHeld ==
    ASSUME NEW h, HistoryType(h), NEW t, TreeType(t), NEW now \in Nat, NEW maxAge \in Nat,
           Before(h, now), ~Overflows(h, t), NEW o, o = Observe(h, now, t, maxAge),
           NEW when \in Nat, when < now, when >= now - maxAge
    PROVE  SumOver(DepartedValues(o, when)) =
              SumOver(DepartedValues(h, when)) + SumOver(LeftValues(h, t, when))
<1>1. HistoryType(o) /\ LiveType(h.live) /\ h.departed \in Seq(Track)
  <2>1. HistoryType(o)
    BY ObserveType
  <2>2. LiveType(h.live) /\ h.departed \in Seq(Track)
    BY DEF HistoryType
  <2> QED
    BY <2>1, <2>2
<1>2. PICK all : all = AllDeparted(h, now, t)
  OBVIOUS
<1>3. PICK I : I = {i \in DOMAIN all : all[i].exited >= now - maxAge}
  OBVIOUS
<1>4. PICK d : d = o.departed
  OBVIOUS
<1>5. all \in Seq(Track) /\ d = Selected(all, I)
  <2>1. AllDeparted(h, now, t) \in Seq(Track)
    BY ObserveDeparted
  <2>2. Observe(h, now, t, maxAge).departed =
          Selected(AllDeparted(h, now, t),
                   {i \in DOMAIN AllDeparted(h, now, t) : AllDeparted(h, now, t)[i].exited >= now - maxAge})
    BY ObserveDeparted
  <2> QED
    BY <1>2, <1>3, <1>4, <2>1, <2>2
<1>6. PICK ended : ended = Ended(h, t)
  OBVIOUS
<1>7. Enumerates(ended, Left(h, t))
  BY <1>1, <1>6, EndedIs
<1>8. PICK s : s = h.departed
  OBVIOUS
<1>9. PICK m, n \in Nat : m = Len(s) /\ n = Len(ended)
  <2>1. s \in Seq(Track) /\ ended \in Seq(Left(h, t))
    BY <1>1, <1>7, <1>8 DEF Enumerates
  <2> QED
    BY <2>1
<1>10. /\ Len(all) = m + n /\ \A i \in 1..m : all[i] = s[i]
       /\ \A i \in 1..n : ended[i] \in Left(h, t) /\ GoneFrom(all[m + i], h.live[ended[i]], now)
  BY <1>2, <1>6, <1>8, <1>9, AllDepartedAre
<1>11. DOMAIN all = 1..m + n /\ DOMAIN s = 1..m
  BY <1>1, <1>5, <1>8, <1>9, <1>10
<1>12. \A i \in 1..m + n : i \in 1..m \/ (i - m \in 1..n /\ i = m + (i - m))
  OBVIOUS
<1>13. ASSUME NEW i \in 1..m + n, i \notin I PROVE ValueAt(all[i], when) = 0
  <2>1. PICK k : k = all[i]
    OBVIOUS
  <2>2. k \in Track
    BY <1>5, <1>10, <2>1
  <2>3. k.exited \in Nat /\ \A x \in Marks(k) : x.at < k.exited
    <3>1. CASE i \in 1..m
      BY <1>8, <1>10, <1>11, <2>1, <3>1 DEF Before, DepartedSound
    <3>2. CASE i \notin 1..m
      <4>1. PICK j \in 1..n : i = m + j
        BY <1>12, <3>2
      <4>2. PICK u : u = h.live[ended[j]]
        OBVIOUS
      <4>3. GoneFrom(k, u, now) /\ ended[j] \in Live(h)
        BY <1>10, <2>1, <4>1, <4>2 DEF Left
      <4>4. Marks(k) = Marks(u) /\ k.exited = now
        BY <4>3 DEF GoneFrom, Marks
      <4>5. \A x \in Marks(u) : x.at < now
        BY <4>2, <4>3 DEF Before
      <4> QED
        BY <4>4, <4>5
    <3> QED
      BY <3>1, <3>2
  <2>4. ~(k.exited >= now - maxAge)
    BY <1>3, <1>11, <1>13, <2>1
  <2>5. PointsAt(k, when) = {}
    <3> SUFFICES ASSUME NEW x \in Marks(k), x.at = when PROVE FALSE
      BY DEF PointsAt
    <3>1. when < k.exited
      BY <2>3
    <3> QED
      BY <2>3, <2>4, <3>1
  <2> QED
    BY <2>1, <2>5, ValueNone
<1>14. PICK A : A = [i \in 1..m + n |-> ValueAt(all[i], when)]
  OBVIOUS
<1>15. Summable(A)
  <2>1. \A i \in 1..m + n : A[i] \in Int
    BY <1>5, <1>10, <1>14, ValueType
  <2>2. IsFiniteSet(1..m + n) /\ 1..m + n \subseteq Nat
    BY FS_Interval
  <2> QED
    BY <1>14, <2>1, <2>2 DEF Summable
<1>16. PICK D : D = DepartedValues(o, when)
  OBVIOUS
<1>17. Summable(D)
  BY <1>1, <1>16, ValuesAdd
<1>18. SumOver(D) = SumOver(A)
  <2>1. d \in Seq(Track)
    BY <1>1, <1>4 DEF HistoryType
  <2>2. PICK w : Places(w, d, all, I, Len(all))
    BY <1>5, SelectedPlaces
  <2>3. D = [k \in 1..Len(d) |-> ValueAt(d[k], when)]
    BY <1>4, <1>16, <2>1 DEF DepartedValues
  <2>4. w \in [DOMAIN D -> DOMAIN A]
    BY <1>10, <1>14, <2>2, <2>3 DEF Places
  <2>5. \A k \in DOMAIN D : D[k] = A[w[k]]
    <3> SUFFICES ASSUME NEW k \in 1..Len(d) PROVE D[k] = A[w[k]]
      BY <2>3
    <3>1. d[k] = all[w[k]] /\ w[k] \in 1..m + n
      BY <1>10, <2>2 DEF Places
    <3> QED
      BY <1>14, <2>3, <3>1
  <2>6. \A j, k \in DOMAIN D : w[j] = w[k] => j = k
    <3> SUFFICES ASSUME NEW j \in 1..Len(d), NEW k \in 1..Len(d), w[j] = w[k], j # k PROVE FALSE
      BY <2>3
    <3>1. j < k \/ k < j
      BY <2>1
    <3>2. w[j] \in Nat /\ w[k] \in Nat
      BY <1>10, <2>2 DEF Places
    <3>3. w[j] < w[k] \/ w[k] < w[j]
      BY <2>2, <3>1 DEF Places
    <3> QED
      BY <3>2, <3>3
  <2>7. \A b \in DOMAIN A : A[b] = 0 \/ \E k \in DOMAIN D : w[k] = b
    <3> SUFFICES ASSUME NEW b \in 1..m + n PROVE A[b] = 0 \/ \E k \in 1..Len(d) : w[k] = b
      BY <1>14, <2>3
    <3>1. CASE b \in I
      BY <1>10, <2>2, <3>1 DEF Places
    <3>2. CASE b \notin I
      BY <1>13, <1>14, <3>2
    <3> QED
      BY <3>1, <3>2
  <2>8. Moves(D, A, w)
    BY <1>15, <1>17, <2>4, <2>5, <2>6, <2>7 DEF Moves
  <2> QED
    BY <2>8, SumMoved
<1>19. PICK S, T : S = 1..m /\ T = m + 1 .. m + n
  OBVIOUS
<1>20. S \cup T = 1..m + n /\ S \cap T = {}
  BY <1>19
<1>21. PICK a, b : a = [i \in S |-> A[i]] /\ b = [i \in T |-> A[i]]
  OBVIOUS
<1>22. SumOver(A) = SumOver(a) + SumOver(b)
  <2>1. DOMAIN A = S \cup T
    BY <1>14, <1>20
  <2> QED
    BY <1>15, <1>20, <1>21, <2>1, SumParts
<1>23. a = DepartedValues(h, when)
  <2>1. \A i \in S : a[i] = ValueAt(s[i], when)
    BY <1>10, <1>14, <1>19, <1>20, <1>21
  <2>2. DepartedValues(h, when) = [i \in S |-> ValueAt(s[i], when)]
    BY <1>8, <1>11, <1>19 DEF DepartedValues
  <2> QED
    BY <1>21, <2>1, <2>2
<1>24. PICK g : g = LeftValues(h, t, when)
  OBVIOUS
<1>25. Summable(g)
  BY <1>24, LiveHeld
<1>27. g = [p \in Left(h, t) |-> ValueAt(h.live[p], when)]
  BY <1>24 DEF LeftValues
<1>26. SumOver(b) = SumOver(g)
  <2>1. PICK w : w = [i \in T |-> ended[i - m]]
    OBVIOUS
  <2>2. ASSUME NEW i \in T PROVE i - m \in 1..n /\ i = m + (i - m) /\ i \in 1..m + n
    BY <1>19
  <2>3. Summable(b)
    <3>1. IsFiniteSet(T) /\ T \subseteq Nat
      BY <1>19, FS_Interval
    <3> QED
      BY <1>15, <1>14, <1>21, <2>2, <3>1 DEF Summable
  <2>4. w \in [DOMAIN b -> DOMAIN g]
    BY <1>10, <1>21, <1>27, <2>1, <2>2
  <2>5. \A i \in DOMAIN b : b[i] = g[w[i]]
    <3> SUFFICES ASSUME NEW i \in T PROVE b[i] = g[w[i]]
      BY <1>21
    <3>1. PICK j \in 1..n : j = i - m /\ i = m + j
      BY <2>2
    <3>2. PICK u, k : u = h.live[ended[j]] /\ k = all[i]
      OBVIOUS
    <3>3. ended[j] \in Left(h, t) /\ GoneFrom(k, u, now)
      BY <1>10, <3>1, <3>2
    <3>4. PointsAt(k, when) = PointsAt(u, when)
      BY <3>3 DEF GoneFrom, PointsAt, Marks
    <3>5. ValueAt(k, when) = ValueAt(u, when)
      BY <3>4, ValueSame
    <3>6. b[i] = ValueAt(k, when)
      BY <1>14, <1>21, <2>2, <3>2
    <3>7. w[i] = ended[j] /\ g[ended[j]] = ValueAt(u, when)
      BY <1>27, <2>1, <3>1, <3>2, <3>3
    <3> QED
      BY <3>5, <3>6, <3>7
  <2>6. \A i, j \in DOMAIN b : w[i] = w[j] => i = j
    <3> SUFFICES ASSUME NEW i \in T, NEW j \in T, w[i] = w[j] PROVE i = j
      BY <1>21
    <3>1. PICK x, y \in 1..n : x = i - m /\ i = m + x /\ y = j - m /\ j = m + y
      BY <2>2
    <3>2. ended[x] = ended[y]
      BY <2>1, <3>1
    <3>3. x = y
      BY <1>7, <1>9, <3>2 DEF Enumerates
    <3> QED
      BY <3>1, <3>3
  <2>7. \A p \in DOMAIN g : \E i \in DOMAIN b : w[i] = p
    <3> SUFFICES ASSUME NEW p \in Left(h, t) PROVE \E i \in T : w[i] = p
      BY <1>21, <1>27
    <3>1. PICK j \in 1..n : ended[j] = p
      BY <1>7, <1>9 DEF Enumerates
    <3>2. m + j \in T /\ (m + j) - m = j
      BY <1>19
    <3> QED
      BY <2>1, <3>1, <3>2
  <2>8. Moves(b, g, w)
    BY <1>25, <2>3, <2>4, <2>5, <2>6, <2>7 DEF Moves
  <2> QED
    BY <2>8, SumMoved
<1> QED
  BY <1>16, <1>18, <1>22, <1>23, <1>24, <1>26

\* A sample leaves what was held before.
LEMMA StaysHeld ==
    ASSUME NEW h, HistoryType(h), NEW t, TreeType(t), NEW now \in Nat, NEW maxAge \in Nat,
           Before(h, now), ~Overflows(h, t), NEW o, o = Observe(h, now, t, maxAge),
           NEW when \in Nat, when < now, when >= now - maxAge
    PROVE  HeldAt(o, when) = HeldAt(h, when)
<1>2. HistoryType(o)
  BY ObserveType
<1>3. PICK a : a = SumOver(LeftValues(h, t, when))
  OBVIOUS
<1>4. a \in Int /\ SumOver(LiveValues(h, when)) = SumOver(LiveValues(o, when)) + a
  <2>1. Summable(LeftValues(h, t, when))
    BY LiveHeld
  <2>2. SumOver(LiveValues(h, when)) = SumOver(LiveValues(o, when)) + SumOver(LeftValues(h, t, when))
    BY LiveHeld
  <2>3. SumOver(LeftValues(h, t, when)) \in Int
    BY <2>1, SumType
  <2> QED
    BY <1>3, <2>2, <2>3
<1>5. SumOver(DepartedValues(o, when)) = SumOver(DepartedValues(h, when)) + a
  BY <1>3, DepartedHeld
<1>6. /\ HeldAt(o, when) = SumOver(LiveValues(o, when)) + SumOver(DepartedValues(o, when))
      /\ Summable(LiveValues(o, when))
  BY <1>2, ValuesAdd
<1>7. /\ HeldAt(h, when) = SumOver(LiveValues(h, when)) + SumOver(DepartedValues(h, when))
      /\ Summable(DepartedValues(h, when))
  BY ValuesAdd
<1>8. PICK x, y \in Int : x = SumOver(LiveValues(o, when)) /\ y = SumOver(DepartedValues(h, when))
  <2>1. SumOver(LiveValues(o, when)) \in Int
    BY <1>6, SumType
  <2>2. SumOver(DepartedValues(h, when)) \in Int
    BY <1>7, SumType
  <2> QED
    BY <2>1, <2>2
<1>9. HeldAt(o, when) = x + (y + a) /\ HeldAt(h, when) = (x + a) + y
  BY <1>4, <1>5, <1>6, <1>7, <1>8
<1> QED
  BY <1>4, <1>9

\* At its own time a sample holds the total it measured.
LEMMA BecomesHeld ==
    ASSUME NEW h, HistoryType(h), NEW t, TreeType(t), NEW now \in Nat, NEW maxAge \in Nat,
           Before(h, now), ~Overflows(h, t), NEW o, o = Observe(h, now, t, maxAge)
    PROVE  HeldAt(o, now) = Totals(t)
<1>1. HistoryType(o)
  BY ObserveType
<1>2. Live(o) = DOMAIN t
  <2>1. o.live = Followed(h, now, t, maxAge)
    BY DEF Observe
  <2> QED
    BY <2>1 DEF Live, Followed
<1>3. PICK M : M = {p \in DOMAIN t : t[p].readable}
  OBVIOUS
<1>4. PICK f : f = [p \in M |-> t[p].value]
  OBVIOUS
<1>5. PICK g : g = LiveValues(o, now)
  OBVIOUS
<1>6. Summable(g)
  BY <1>1, <1>5, ValuesAdd
<1>7. Summable(f)
  <2>1. IsFiniteSet(M)
    BY <1>3, FS_Subset DEF TreeType
  <2> QED
    BY <1>3, <1>4, <2>1 DEF Summable, TreeType
<1>8. DOMAIN g = DOMAIN t
  BY <1>2, <1>5 DEF LiveValues
<1>9. ASSUME NEW p \in DOMAIN t PROVE g[p] = IF p \in M THEN t[p].value ELSE 0
  <2>1. PICK r, new : r = o.live[p] /\ new = NewMark(now, t, p)
    OBVIOUS
  <2>2. {m \in Marks(r) : m.at = now} = {new}
    BY <2>1, BecomesComplete
  <2>3. ValueAt(r, now) = IF new.value = None THEN 0 ELSE new.value
    BY <2>2, ValueOne DEF PointsAt
  <2>4. g[p] = ValueAt(r, now)
    BY <1>2, <1>5, <2>1 DEF LiveValues
  <2>5. (new.value = None <=> p \in Unmeasured(t)) /\ (p \notin Unmeasured(t) => new.value = t[p].value)
    BY <2>1, NewMarkIs
  <2>6. p \in M <=> p \notin Unmeasured(t)
    BY <1>3 DEF Unmeasured
  <2> QED
    BY <2>3, <2>4, <2>5, <2>6
<1>10. PICK w : w = [p \in M |-> p]
  OBVIOUS
<1>11. Moves(f, g, w)
  <2>1. M \subseteq DOMAIN t
    BY <1>3
  <2>2. w \in [DOMAIN f -> DOMAIN g]
    BY <1>4, <1>8, <1>10, <2>1
  <2>3. \A a \in DOMAIN f : f[a] = g[w[a]]
    BY <1>4, <1>9, <1>10, <2>1
  <2>4. \A a, b \in DOMAIN f : w[a] = w[b] => a = b
    BY <1>4, <1>10
  <2>5. \A b \in DOMAIN g : g[b] = 0 \/ \E a \in DOMAIN f : w[a] = b
    BY <1>4, <1>8, <1>9, <1>10
  <2> QED
    BY <1>6, <1>7, <2>2, <2>3, <2>4, <2>5 DEF Moves
<1>12. SumOver(f) = SumOver(g)
  BY <1>11, SumMoved
<1>13. SumOver(DepartedValues(o, now)) = 0
  <2>1. PICK d : d = DepartedValues(o, now)
    OBVIOUS
  <2>2. Summable(d)
    BY <1>1, <2>1, ValuesAdd
  <2>3. \A k \in DOMAIN d : d[k] = 0
    <3> SUFFICES ASSUME NEW k \in DOMAIN o.departed PROVE ValueAt(o.departed[k], now) = 0
      BY <2>1 DEF DepartedValues
    <3>1. {m \in Marks(o.departed[k]) : m.at = now} = {}
      BY BecomesComplete
    <3>2. PointsAt(o.departed[k], now) = {}
      BY <3>1 DEF PointsAt
    <3> QED
      BY <3>2, ValueNone
  <2>4. SumOver(d) = 0
    BY <2>2, <2>3, SumZero DEF Summable
  <2> QED
    BY <2>1, <2>4
<1>14. HeldAt(o, now) = SumOver(g) + SumOver(DepartedValues(o, now)) /\ SumOver(g) \in Int
  BY <1>1, <1>5, <1>6, ValuesAdd, SumType
<1>15. Totals(t) = SumOver(f)
  BY <1>3, <1>4 DEF Totals
<1> QED
  BY <1>12, <1>13, <1>14, <1>15

-----------------------------------------------------------------------------
(* The history from one tick to the next *)

\* A series has an age.
LEMMA MaxAgeType == MaxAge \in Nat
<1>1. Windows \in Seq(Nat \ {0}) /\ Windows # <<>>
  BY DetectorAssumption
<1>2. PICK n \in Nat : n = Last(Windows)
  BY <1>1 DEF Last
<1>3. (n * 3) \div 2 \in Nat
  OBVIOUS
<1> QED
  BY <1>2, <1>3 DEF MaxAge

\* Starting over forgets the points of all, and none of the processes.
LEMMA RestartIs ==
    ASSUME NEW h, HistoryType(h), NEW r, r = RestartWindows(h)
    PROVE  /\ HistoryType(r) /\ Forgotten(r) /\ Live(r) = Live(h)
           /\ \A p \in Live(h) : r.live[p].kept = h.live[p].kept /\ r.live[p].exited = h.live[p].exited
<1>1. LiveType(h.live) /\ h.departed \in Seq(Track) /\ h.candidates \in Seq(Track)
      /\ h.started \in Nat /\ h.exited \in Nat /\ h.restarted \in Nat
      /\ h.restarted + Len(h.candidates) <= h.exited
  BY DEF HistoryType
<1>2. PICK live : live = [p \in Live(h) |-> [h.live[p] EXCEPT !.points = <<>>, !.existed = TRUE]]
  OBVIOUS
<1>3. h = [live |-> h.live, departed |-> h.departed, candidates |-> h.candidates, observed |-> h.observed,
           started |-> h.started, exited |-> h.exited, restarted |-> h.restarted]
  BY DEF HistoryType
<1>4. r = [h EXCEPT !.live = live, !.departed = <<>>, !.candidates = <<>>]
  BY <1>2 DEF RestartWindows
<1>5. PICK a, b, c, d, e, f, g : a = h.live /\ b = h.departed /\ c = h.candidates /\ d = h.observed
                                 /\ e = h.started /\ f = h.exited /\ g = h.restarted
  OBVIOUS
<1>6. r = [live |-> live, departed |-> <<>>, candidates |-> <<>>, observed |-> d,
           started |-> e, exited |-> f, restarted |-> g]
  BY <1>3, <1>4, <1>5
<1>7. ASSUME NEW p \in Live(h)
      PROVE  /\ live[p] \in Track /\ live[p].pid = p /\ live[p].points = <<>> /\ live[p].existed
             /\ live[p].kept = h.live[p].kept /\ live[p].exited = h.live[p].exited
  <2>1. PICK u : u = h.live[p]
    OBVIOUS
  <2>2. u \in Track /\ u.pid = p
    BY <1>1, <2>1 DEF LiveType, Live
  <2>3. PICK v : v = [u EXCEPT !.points = <<>>, !.existed = TRUE]
    OBVIOUS
  <2>4. live[p] = v
    BY <1>2, <2>1, <2>3
  <2>5. v \in Track /\ v.pid = u.pid /\ v.points = <<>> /\ v.existed /\ v.kept = u.kept /\ v.exited = u.exited
    <3>1. <<>> \in Seq(Mark)
      OBVIOUS
    <3> QED
      BY <2>2, <2>3, <3>1 DEF Track
  <2> QED
    BY <2>1, <2>2, <2>4, <2>5
<1>8. DOMAIN live = Live(h)
  BY <1>2
<1>9. LiveType(live)
  BY <1>1, <1>7, <1>8 DEF LiveType, Live
<1>10. g + Len(<<>>) <= f /\ e \in Nat /\ f \in Nat /\ g \in Nat
  <2>1. Len(h.candidates) \in Nat
    BY <1>1
  <2>2. e \in Nat /\ f \in Nat /\ g \in Nat /\ g + Len(h.candidates) <= f
    BY <1>1, <1>5
  <2>3. Len(<<>>) = 0
    OBVIOUS
  <2> QED
    BY <2>1, <2>2, <2>3
<1>11. HistoryType(r)
  BY <1>6, <1>9, <1>10 DEF HistoryType
<1>12. Forgotten(r) /\ Live(r) = Live(h)
  BY <1>6, <1>7, <1>8 DEF Forgotten, Live
<1> QED
  BY <1>6, <1>7, <1>11, <1>12

\* A history without points is sound at any time.
LEMMA ForgottenSound ==
    ASSUME NEW h, Forgotten(h), NEW now, \A p \in Live(h) : h.live[p].kept /\ h.live[p].exited = None
    PROVE  Before(h, now)
<1>1. ASSUME NEW p \in Live(h)
      PROVE  Marks(h.live[p]) = {} /\ Rising(h.live[p].points) /\ h.live[p].existed
  BY DEF Forgotten, Marks, Rising
<1>2. LiveSound(h, now)
  BY <1>1 DEF LiveSound, Sound
<1>3. DepartedSound(h, now)
  BY DEF Forgotten, DepartedSound
<1> QED
  BY <1>1, <1>2, <1>3 DEF Before

\* What is sound is sound later, with all its points in the past.
LEMMA LaterSound ==
    ASSUME NEW h, HistoryType(h), NEW before \in Nat, NEW now \in Nat, before < now,
           LiveSound(h, before), DepartedSound(h, before)
    PROVE  Before(h, now)
<1>1. LiveType(h.live) /\ h.departed \in Seq(Track)
  BY DEF HistoryType
<1>2. ASSUME NEW u, u \in Track, Sound(u, before)
      PROVE  Sound(u, now) /\ \A m \in Marks(u) : m.at < now
  <2>1. \A m \in Marks(u) : m.at \in Nat
    BY <1>2, MarksAre
  <2>2. \A m \in Marks(u) : m.at <= before /\ (u.existed \/ u.first <= m.at)
    BY <1>2 DEF Sound
  <2>3. \A m \in Marks(u) : m.at < now
    BY <2>1, <2>2
  <2>4. u.first \in Nat
    BY <1>2 DEF Track
  <2>5. u.existed \/ u.first <= now
    BY <1>2, <2>4 DEF Sound
  <2>6. \A m \in Marks(u) : m.at <= now
    BY <2>1, <2>3
  <2> QED
    BY <1>2, <2>2, <2>3, <2>5, <2>6 DEF Sound
<1>3. \A p \in Live(h) : h.live[p] \in Track
  BY <1>1 DEF LiveType, Live
<1>4. LiveSound(h, now) /\ \A p \in Live(h) : \A m \in Marks(h.live[p]) : m.at < now
  BY <1>2, <1>3 DEF LiveSound
<1>5. ASSUME NEW k \in DOMAIN h.departed
      PROVE  /\ Sound(h.departed[k], now) /\ h.departed[k].exited \in Nat /\ h.departed[k].exited <= now
             /\ \A m \in Marks(h.departed[k]) : m.at < h.departed[k].exited
  <2>1. h.departed[k] \in Track
    BY <1>1
  <2>2. h.departed[k].exited \in Nat /\ h.departed[k].exited <= before
    BY DEF DepartedSound
  <2>3. h.departed[k].exited <= now
    BY <2>2
  <2> QED
    BY <1>2, <2>1, <2>2, <2>3 DEF DepartedSound
<1> QED
  BY <1>4, <1>5 DEF Before, DepartedSound

\* What was sound before now is so now.
LEMMA BeforeSound ==
    ASSUME NEW h, NEW now, Before(h, now)
    PROVE  LiveSound(h, now) /\ DepartedSound(h, now)
  BY DEF Before

\* The history after the clocks were compared.
LEMMA TimedIs ==
    ASSUME MeasureInv, HistoryInv, wall' \in Nat, mono' \in Nat
    PROVE  /\ HistoryType(Timed) /\ (~Restarts => Timed = history)
           /\ ~overflow => Before(Timed, wall')
<1>1. HistoryType(history)
  BY DEF HistoryInv
<1>2. CASE Restarts
  <2>1. Timed = RestartWindows(history)
    BY <1>2 DEF Timed
  <2>2. PICK r : r = RestartWindows(history)
    OBVIOUS
  <2>3. /\ HistoryType(r) /\ Forgotten(r) /\ Live(r) = Live(history)
        /\ \A p \in Live(history) : r.live[p].kept = history.live[p].kept /\ r.live[p].exited = history.live[p].exited
    BY <1>1, <2>2, RestartIs
  <2>4. ~overflow => \A p \in Live(history) : history.live[p].kept /\ history.live[p].exited = None
    BY DEF HistoryInv, LiveSound
  <2>5. ~overflow => \A p \in Live(r) : r.live[p].kept /\ r.live[p].exited = None
    BY <2>3, <2>4
  <2>6. ~overflow => Before(r, wall')
    BY <2>3, <2>5, ForgottenSound
  <2> QED
    BY <1>2, <2>1, <2>2, <2>3, <2>6
<1>3. CASE ~Restarts
  <2>1. Timed = history
    BY <1>3 DEF Timed
  <2>2. CASE timing = <<>>
    <3>1. Forgotten(history)
      BY <2>2 DEF HistoryInv
    <3>2. ~overflow => \A p \in Live(history) : history.live[p].kept /\ history.live[p].exited = None
      BY DEF HistoryInv, LiveSound
    <3>3. ~overflow => Before(history, wall')
      BY <3>1, <3>2, ForgottenSound
    <3> QED
      BY <1>1, <2>1, <3>3
  <2>3. CASE timing # <<>>
    <3>1. wall' > wall /\ wall \in Nat
      BY <1>3, <2>3, ClockAdvances DEF MeasureInv, ClockType
    <3>2. ~overflow => Before(history, wall')
      BY <1>1, <3>1, LaterSound DEF HistoryInv
    <3> QED
      BY <1>1, <2>1, <3>2
  <2> QED
    BY <2>2, <2>3
<1> QED
  BY <1>2, <1>3

\* The point of a sample.
NewPoint == [at |-> wall', value |-> Totals(tree'), mono |-> mono', missing |-> Unmeasured(tree')]

\* Where the points of a series come from.
LEMMA ExtendedFrom ==
    ASSUME NEW s, s.points \in Seq(Point), TreeType(tree'), wall' \in Nat, mono' \in Nat,
           NEW e, e = Extended(s, tree', wall')
    PROVE  /\ e.points \in Seq(Point)
           /\ \A i \in 1..Len(e.points) :
                 /\ e.segment = Unmeasured(tree') /\ e.points[i].at >= wall' - MaxAge
                 /\ \/ e.points[i] = NewPoint
                    \/ \E j \in 1..Len(s.points) : e.points[i] = s.points[j] /\ s.segment = Unmeasured(tree')
           /\ e.points # <<>> => \E i \in 1..Len(e.points) : e.points[i] = NewPoint
<1>1. CASE Unmeasured(tree') = DOMAIN tree'
  BY <1>1 DEF Extended, EmptySeries
<1>2. CASE Unmeasured(tree') # DOMAIN tree'
  <2>1. PICK point : point = NewPoint
    OBVIOUS
  <2>2. PICK points : points = IF s.segment = Unmeasured(tree') /\ (s.points = <<>> \/ Last(s.points).at < wall')
                               THEN s.points ELSE <<>>
    OBVIOUS
  <2>3. PICK all : all = Append(points, point)
    OBVIOUS
  <2>4. PICK I : I = {i \in DOMAIN all : all[i].at >= wall' - MaxAge}
    OBVIOUS
  <2>5. e = [points |-> Selected(all, I), segment |-> Unmeasured(tree')]
    BY <1>2, <2>1, <2>2, <2>3, <2>4 DEF Extended, Since, NewPoint
  <2>6. point \in Point /\ point.at = wall'
    <3>1. PICK m \in SUBSET Nat : m = Unmeasured(tree')
      BY DEF Unmeasured, TreeType
    <3>2. PICK v \in Int : v = Totals(tree')
      BY TotalsType
    <3>3. PICK a, b \in Nat : a = wall' /\ b = mono'
      OBVIOUS
    <3>4. point = [at |-> a, value |-> v, mono |-> b, missing |-> m]
      BY <2>1, <3>1, <3>2, <3>3 DEF NewPoint
    <3> QED
      BY <3>3, <3>4 DEF Point
  <2>7. points \in Seq(Point)
    BY <2>2
  <2>8. PICK L \in Nat : L = Len(points)
    BY <2>7
  <2>9. all \in Seq(Point) /\ Len(all) = L + 1 /\ all[L + 1] = point /\ \A i \in 1..L : all[i] = points[i]
    BY <2>3, <2>6, <2>7, <2>8
  <2>10. PICK r : r = Selected(all, I)
    OBVIOUS
  <2>11. /\ r \in Seq(Point)
         /\ \A k \in 1..Len(r) : \E i \in I \cap (1..Len(all)) : r[k] = all[i]
         /\ \A i \in I \cap (1..Len(all)) : \E k \in 1..Len(r) : r[k] = all[i]
    <3>1. /\ Selected(all, I) \in Seq(Point)
          /\ \A k \in 1..Len(Selected(all, I)) : \E i \in I \cap (1..Len(all)) : Selected(all, I)[k] = all[i]
          /\ \A i \in I \cap (1..Len(all)) : \E k \in 1..Len(Selected(all, I)) : Selected(all, I)[k] = all[i]
      <4>1. all \in Seq(Point)
        BY <2>9
      <4> QED
        BY ONLY <4>1, SelectedFrom, SMTT(30)
    <3> QED
      BY <2>10, <3>1
  <2>12. e.points = r /\ e.segment = Unmeasured(tree')
    BY <2>5, <2>10
  <2>13. \E k \in 1..Len(r) : r[k] = point
    <3>1. L + 1 \in DOMAIN all /\ all[L + 1].at >= wall' - MaxAge
      BY <2>6, <2>9, MaxAgeType
    <3>2. L + 1 \in I \cap (1..Len(all))
      BY <2>4, <2>9, <3>1
    <3> QED
      BY <2>9, <2>11, <3>2
  <2>14. ASSUME NEW k \in 1..Len(r)
         PROVE  /\ r[k].at >= wall' - MaxAge
                /\ r[k] = point \/ \E j \in 1..Len(s.points) : r[k] = s.points[j] /\ s.segment = Unmeasured(tree')
    <3>1. PICK i \in I \cap (1..Len(all)) : r[k] = all[i]
      BY <2>11
    <3>2. r[k].at >= wall' - MaxAge
      BY <2>4, <3>1
    <3>3. CASE i = L + 1
      BY <2>9, <3>1, <3>2, <3>3
    <3>4. CASE i # L + 1
      <4>1. i \in 1..L
        BY <2>9, <3>4
      <4>2. points # <<>>
        BY <2>8, <4>1
      <4>3. points = s.points /\ s.segment = Unmeasured(tree')
        BY <2>2, <4>2
      <4> QED
        BY <2>8, <2>9, <3>1, <3>2, <4>1, <4>3
    <3> QED
      BY <3>3, <3>4
  <2> QED
    BY <2>1, <2>11, <2>12, <2>13, <2>14
<1> QED
  BY <1>1, <1>2

\* The points of the series after a sample: the new one, and of the ones
\* before it those of an unbroken run.
LEMMA CollectedFrom ==
    ASSUME MeasureInv, TreeType(tree'), wall' \in Nat, mono' \in Nat, mono' > mono, CollectTick
    PROVE  /\ series'.points \in Seq(Point)
           /\ \A i \in 1..Len(series'.points) :
                 /\ series'.segment = Unmeasured(tree') /\ series'.points[i].at >= wall' - MaxAge
                 /\ \/ series'.points[i] = NewPoint
                    \/ \E j \in 1..Len(series.points) : /\ series'.points[i] = series.points[j]
                                                        /\ series.segment = Unmeasured(tree') /\ ~Restarts
           /\ series'.points # <<>> => \E i \in 1..Len(series'.points) : series'.points[i] = NewPoint
<1>1. PICK s : s = IF Restarts THEN EmptySeries ELSE series
  OBVIOUS
<1>2. series' = IF warmed' < Warmup THEN s ELSE Extended(s, tree', wall')
  BY <1>1 DEF CollectTick
<1>3. s.points \in Seq(Point)
  <2>1. series.points \in Seq(Point)
    BY DEF MeasureInv, SeriesInv, Comparable
  <2>2. EmptySeries.points \in Seq(Point)
    BY DEF EmptySeries
  <2> QED
    BY <1>1, <2>1, <2>2
<1>4. Restarts => s.points = <<>>
  BY <1>1 DEF EmptySeries
<1>5. CASE warmed' < Warmup
  <2>1. s.points = <<>>
    <3>1. CASE Restarts
      BY <1>4, <3>1
    <3>2. CASE ~Restarts
      <4>1. series.points # <<>> => warmed >= Warmup
        BY DEF MeasureInv, SeriesInv
      <4>2. warmed' \in Nat /\ warmed' >= warmed /\ warmed \in Nat
        BY WarmsUp DEF MeasureInv, ClockType
      <4>3. PICK a, b, c \in Nat : a = warmed /\ b = warmed' /\ c = Warmup
        BY <4>2, DetectorAssumption
      <4>4. ~(warmed >= Warmup)
        BY <1>5, <4>2, <4>3
      <4> QED
        BY <1>1, <3>2, <4>1, <4>4
    <3> QED
      BY <3>1, <3>2
  <2>2. series' = s
    BY <1>2, <1>5
  <2>3. series'.points = <<>> /\ Len(series'.points) = 0
    BY <2>1, <2>2
  <2> QED
    BY <2>3
<1>6. CASE ~(warmed' < Warmup)
  <2>1. PICK e : e = Extended(s, tree', wall')
    OBVIOUS
  <2>2. series' = e
    BY <1>2, <1>6, <2>1
  <2>3. /\ e.points \in Seq(Point)
        /\ \A i \in 1..Len(e.points) :
              /\ e.segment = Unmeasured(tree') /\ e.points[i].at >= wall' - MaxAge
              /\ \/ e.points[i] = NewPoint
                 \/ \E j \in 1..Len(s.points) : e.points[i] = s.points[j] /\ s.segment = Unmeasured(tree')
        /\ e.points # <<>> => \E i \in 1..Len(e.points) : e.points[i] = NewPoint
    BY <1>3, <2>1, ExtendedFrom
  <2>4. \A j \in 1..Len(s.points) : ~Restarts
    BY <1>4
  <2>5. ~Restarts => s = series
    BY <1>1
  <2> QED
    BY <2>2, <2>3, <2>4, <2>5
<1> QED
  BY <1>5, <1>6

\* A history accounts for the points of a series after a sample, if it did before.
LEMMA SampleAccounted ==
    ASSUME MeasureInv, HistoryInv, TreeType(tree'), wall' \in Nat, mono' \in Nat, mono' > mono, CollectTick,
           ~overflow'
    PROVE  Accounted(history', series'.points, series'.segment, wall')
<1>1. PICK h : h = Timed
  OBVIOUS
<1>2. PICK t, w : t = tree' /\ w = wall'
  OBVIOUS
<1>3. TreeType(t) /\ w \in Nat /\ MaxAge \in Nat
  BY <1>2, MaxAgeType
<1>4. ~overflow /\ ~Overflows(h, t)
  BY <1>1, <1>2 DEF CollectTick
<1>5. HistoryType(h) /\ (~Restarts => h = history) /\ Before(h, w)
  BY <1>1, <1>2, <1>4, TimedIs
<1>6. PICK o : o = history'
  OBVIOUS
<1>7. o = Observe(h, w, t, MaxAge)
  BY <1>1, <1>2, <1>6 DEF CollectTick, Seen
<1>8. PICK points, segment : points = series'.points /\ segment = series'.segment
  OBVIOUS
<1>9. \A i \in 1..Len(points) :
         /\ segment = Unmeasured(t) /\ points[i].at >= w - MaxAge
         /\ \/ points[i] = NewPoint
            \/ \E j \in 1..Len(series.points) : /\ points[i] = series.points[j]
                                                /\ series.segment = Unmeasured(t) /\ ~Restarts
  BY <1>2, <1>8, CollectedFrom
<1>10. ASSUME NEW i \in 1..Len(points), points[i].at >= w - MaxAge
       PROVE  Complete(o, points[i].at, segment) /\ points[i].value = HeldAt(o, points[i].at)
  <2>1. CASE points[i] = NewPoint
    <3>1. points[i].at = w /\ points[i].value = Totals(t) /\ segment = Unmeasured(t)
      BY <1>2, <1>9, <2>1 DEF NewPoint
    <3>2. Complete(o, w, Unmeasured(t))
      BY <1>3, <1>4, <1>5, <1>7, BecomesComplete
    <3>3. HeldAt(o, w) = Totals(t)
      BY <1>3, <1>4, <1>5, <1>7, BecomesHeld
    <3> QED
      BY <3>1, <3>2, <3>3
  <2>2. CASE \E j \in 1..Len(series.points) : /\ points[i] = series.points[j]
                                              /\ series.segment = Unmeasured(t) /\ ~Restarts
    <3>1. PICK j \in 1..Len(series.points) : /\ points[i] = series.points[j]
                                             /\ series.segment = Unmeasured(t) /\ ~Restarts
      BY <2>2
    <3>2. h = history
      BY <1>5, <3>1
    <3>3. /\ Comparable(series.points, paused) /\ series.points[j].at <= wall
          /\ series.points # <<>> => timing # <<>>
      BY <3>1 DEF MeasureInv, SeriesInv
    <3>4. PICK when \in Nat : when = points[i].at
      BY <3>1, <3>3, PointTypes
    <3>5. timing # <<>>
      BY <3>1, <3>3
    <3>6. wall \in Nat /\ w > wall
      BY <1>2, <3>1, <3>5, ClockAdvances DEF MeasureInv, ClockType
    <3>7. when < w /\ when >= w - MaxAge /\ series.points[j].at >= wall - MaxAge
      BY <1>3, <1>10, <3>1, <3>3, <3>4, <3>6
    <3>8. Accounted(history, series.points, series.segment, wall)
      BY <1>4 DEF HistoryInv
    <3>9. Complete(h, when, Unmeasured(t)) /\ points[i].value = HeldAt(h, when)
      BY <3>1, <3>2, <3>4, <3>7, <3>8 DEF Accounted
    <3>10. Complete(o, when, Unmeasured(t))
      BY <1>3, <1>4, <1>5, <1>7, <3>7, <3>9, StaysComplete
    <3>11. HeldAt(o, when) = HeldAt(h, when)
      BY <1>3, <1>4, <1>5, <1>7, <3>7, StaysHeld
    <3> QED
      BY <1>9, <3>4, <3>9, <3>10, <3>11
  <2> QED
    BY <1>9, <2>1, <2>2
<1>11. Accounted(o, points, segment, w)
  BY <1>10 DEF Accounted
<1> QED
  BY <1>2, <1>6, <1>8, <1>11

\* A sample keeps the invariant of the histories.
LEMMA CollectHistory ==
    ASSUME MeasureInv, HistoryInv, TreeType(tree'), wall' \in Nat, mono' \in Nat, mono' > mono, CollectTick
    PROVE  HistoryInv'
<1>1. PICK h, t, w : h = Timed /\ t = tree' /\ w = wall'
  OBVIOUS
<1>2. TreeType(t) /\ w \in Nat /\ MaxAge \in Nat
  BY <1>1, MaxAgeType
<1>3. HistoryType(h) /\ (~overflow => Before(h, w))
  BY <1>1, TimedIs
<1>4. PICK o : o = history'
  OBVIOUS
<1>5. o = Observe(h, w, t, MaxAge)
  BY <1>1, <1>4 DEF CollectTick, Seen
<1>6. HistoryType(o)
  BY <1>2, <1>3, <1>5, ObserveType
<1>7. timing' # <<>>
  BY DEF CollectTick
<1>8. ASSUME ~overflow' PROVE LiveSound(o, w) /\ DepartedSound(o, w)
  <2>1. ~overflow /\ ~Overflows(h, t)
    BY <1>1, <1>8 DEF CollectTick
  <2> QED
    BY <1>2, <1>3, <1>5, <2>1, ObserveSound
<1>9. ~overflow' => Accounted(history', series'.points, series'.segment, wall')
  BY SampleAccounted
<1> QED
  BY <1>1, <1>4, <1>6, <1>7, <1>8, <1>9 DEF HistoryInv

\* Nothing is said of no points, and of points that stay what is said of them.
LEMMA FailureHistory ==
    ASSUME MeasureInv, HistoryInv, TreeType(tree'), wall' \in Nat, mono' \in Nat, FailedTick,
           Unmeasured(tree') = Unmeasured(tree)
    PROVE  HistoryInv'
<1>1. PICK h, t, w : h = Timed /\ t = tree' /\ w = wall'
  OBVIOUS
<1>2. TreeType(t) /\ w \in Nat /\ MaxAge \in Nat
  BY <1>1, MaxAgeType
<1>3. HistoryType(h) /\ (~Restarts => h = history) /\ (~overflow => Before(h, w))
  BY <1>1, TimedIs
<1>4. PICK o : o = history'
  OBVIOUS
<1>5. o = h \/ o = Observe(h, w, t, MaxAge)
  BY <1>1, <1>4 DEF FailedTick, Seen
<1>6. HistoryType(o)
  BY <1>2, <1>3, <1>5, ObserveType
<1>7. timing' # <<>>
  BY DEF FailedTick
<1>8. ASSUME ~overflow' PROVE LiveSound(o, w) /\ DepartedSound(o, w) /\ Accounted(o, series'.points, series'.segment, w)
  <2>1. ~overflow /\ ~Overflows(h, t)
    BY <1>1, <1>8 DEF FailedTick
  <2>2. Before(h, w)
    BY <1>3, <2>1
  <2>3. LiveSound(o, w) /\ DepartedSound(o, w)
    <3>1. CASE o = h
      BY <2>2, <3>1, BeforeSound
    <3>2. CASE o = Observe(h, w, t, MaxAge)
      BY <1>2, <1>3, <2>1, <2>2, <3>2, ObserveSound
    <3> QED
      BY <1>5, <3>1, <3>2
  <2>4. CASE series'.points = <<>>
    <3>1. Len(series'.points) = 0
      BY <2>4
    <3> QED
      BY <2>3, <3>1 DEF Accounted
  <2>5. CASE series'.points # <<>>
    <3>1. ~Restarts /\ series' = series
      BY <2>5 DEF FailedTick, EmptySeries
    <3>2. timing # <<>> /\ series.segment = Unmeasured(t) /\ Comparable(series.points, paused)
      BY <1>1, <2>5, <3>1 DEF MeasureInv, SeriesInv
    <3>3. h = history
      BY <1>3, <3>1
    <3>4. wall \in Nat /\ w > wall
      BY <1>1, <3>1, <3>2, ClockAdvances DEF MeasureInv, ClockType
    <3>5. Accounted(history, series.points, series.segment, wall)
      BY <2>1 DEF HistoryInv
    <3>6. ASSUME NEW i \in 1..Len(series.points), series.points[i].at >= w - MaxAge
          PROVE  Complete(o, series.points[i].at, Unmeasured(t)) /\ series.points[i].value = HeldAt(o, series.points[i].at)
      <4>1. PICK when \in Nat : when = series.points[i].at
        BY <3>2, PointTypes
      <4>2. when <= wall
        BY <4>1 DEF MeasureInv, SeriesInv
      <4>3. when < w /\ when >= w - MaxAge /\ when >= wall - MaxAge
        BY <1>2, <3>4, <3>6, <4>1, <4>2
      <4>4. Complete(h, when, Unmeasured(t)) /\ series.points[i].value = HeldAt(h, when)
        BY <3>2, <3>3, <3>5, <4>1, <4>3 DEF Accounted
      <4>5. CASE o = h
        BY <4>1, <4>4, <4>5
      <4>6. CASE o = Observe(h, w, t, MaxAge)
        <5>1. Complete(o, when, Unmeasured(t))
          BY <1>2, <1>3, <2>1, <2>2, <4>3, <4>4, <4>6, StaysComplete
        <5>2. HeldAt(o, when) = HeldAt(h, when)
          BY <1>2, <1>3, <2>1, <2>2, <4>3, <4>6, StaysHeld
        <5> QED
          BY <4>1, <4>4, <5>1, <5>2
      <4> QED
        BY <1>5, <4>5, <4>6
    <3>7. Accounted(o, series.points, series.segment, w)
      BY <3>2, <3>6 DEF Accounted
    <3> QED
      BY <2>3, <3>1, <3>7
  <2> QED
    BY <2>4, <2>5
<1> QED
  BY <1>1, <1>4, <1>6, <1>7, <1>8 DEF HistoryInv

\* So does a pause, which starts over.
LEMMA PauseHistory ==
    ASSUME MeasureInv, HistoryInv, wall' \in Nat, PausedTick
    PROVE  HistoryInv'
<1>1. PICK o : o = history'
  OBVIOUS
<1>2. timing' = <<>> /\ overflow' = overflow
  BY DEF PausedTick
<1>3. ~overflow => \A p \in Live(history) : history.live[p].kept /\ history.live[p].exited = None
  BY DEF HistoryInv, LiveSound
<1>4. /\ HistoryType(o) /\ Forgotten(o) /\ series'.points = <<>>
      /\ ~overflow => \A p \in Live(o) : o.live[p].kept /\ o.live[p].exited = None
  <2>1. CASE timing # <<>>
    <3>1. o = RestartWindows(history) /\ series'.points = <<>>
      BY <1>1, <2>1 DEF PausedTick, EmptySeries
    <3>2. HistoryType(history)
      BY DEF HistoryInv
    <3> QED
      BY <1>3, <3>1, <3>2, RestartIs
  <2>2. CASE timing = <<>>
    <3>1. o = history /\ series' = series
      BY <1>1, <2>2 DEF PausedTick
    <3>2. series.points = <<>>
      BY <2>2 DEF MeasureInv, SeriesInv
    <3> QED
      BY <1>3, <2>2, <3>1, <3>2 DEF HistoryInv
  <2> QED
    BY <2>1, <2>2
<1>5. ~overflow => LiveSound(o, wall') /\ DepartedSound(o, wall')
  BY <1>4, ForgottenSound, BeforeSound
<1>6. Len(series'.points) = 0
  BY <1>4
<1>7. Accounted(o, series'.points, series'.segment, wall')
  BY <1>6 DEF Accounted
<1> QED
  BY <1>1, <1>2, <1>4, <1>5, <1>7 DEF HistoryInv

\* It holds at the start, when nothing was observed.
LEMMA HistoryStarts == ASSUME DetectorInit PROVE HistoryInv
<1>1. LiveType(EmptyHistory.live)
  <2>1. DOMAIN EmptyHistory.live = {}
    BY DEF EmptyHistory
  <2> QED
    BY <2>1, FS_EmptySet DEF LiveType
<1>2. HistoryType(EmptyHistory)
  BY <1>1 DEF EmptyHistory, HistoryType
<1>3. Live(EmptyHistory) = {} /\ EmptyHistory.departed = <<>>
  BY DEF EmptyHistory, Live
<1>4. PICK h : h = EmptyHistory
  OBVIOUS
<1>5. history = h /\ wall = 100 /\ series.points = <<>>
  BY <1>4 DEF DetectorInit, EmptySeries
<1>6. Forgotten(h)
  BY <1>3, <1>4 DEF Forgotten
<1>7. LiveSound(h, wall) /\ DepartedSound(h, wall)
  <2>1. Before(h, wall)
    BY <1>3, <1>4, <1>6, ForgottenSound
  <2> QED
    BY <2>1, BeforeSound
<1>8. Len(series.points) = 0
  BY <1>5
<1>9. Accounted(h, series.points, series.segment, wall)
  BY <1>8 DEF Accounted
<1> QED
  BY <1>2, <1>4, <1>5, <1>6, <1>7, <1>9 DEF HistoryInv

-----------------------------------------------------------------------------
(* What a process did to the total *)

\* A track has one mark of a time.
LEMMA OneMark ==
    ASSUME NEW t, t \in Track, Rising(t.points), NEW m \in Marks(t)
    PROVE  PointsAt(t, m.at) = {m} /\ ValueAt(t, m.at) = IF m.value = None THEN 0 ELSE m.value
<1>1. t.points \in Seq(Mark) /\ \A n \in Marks(t) : n.at \in Nat
  BY MarksAre
<1>2. PICK points \in Seq(Mark) : points = t.points
  BY <1>1
<1>3. DOMAIN points = 1..Len(points)
  BY <1>2
<1>4. Marks(t) = {points[i] : i \in 1..Len(points)}
  BY <1>2, <1>3 DEF Marks
<1>5. PICK i \in 1..Len(points) : m = points[i]
  BY <1>4
<1>6. ASSUME NEW n \in Marks(t), n.at = m.at PROVE n = m
  <2>1. PICK j \in 1..Len(points) : n = points[j]
    BY <1>4
  <2>2. i < j => points[i].at < points[j].at
    BY <1>2 DEF Rising
  <2>3. j < i => points[j].at < points[i].at
    BY <1>2 DEF Rising
  <2>4. PICK a \in Nat : a = m.at /\ a = n.at
    BY <1>1, <1>6
  <2>5. ~(i < j) /\ ~(j < i)
    BY <1>5, <2>1, <2>2, <2>3, <2>4
  <2>6. i = j
    BY <1>2, <2>5
  <2> QED
    BY <1>5, <2>1, <2>6
<1>7. PointsAt(t, m.at) = {m}
  BY <1>6 DEF PointsAt
<1> QED
  BY <1>7, ValueOne

\* The marks of a window that hold a value, in their order.
LEMMA WithinIs ==
    ASSUME NEW t, t \in Track, NEW now \in Nat, Sound(t, now), NEW since \in Nat, NEW v, v = Within(t, since, now)
    PROVE  /\ v \in Seq(Mark) /\ Rising(v)
           /\ \A k \in 1..Len(v) : v[k] \in Marks(t) /\ v[k].at >= since /\ v[k].value # None
           /\ \A m \in Marks(t) : m.at >= since /\ m.value # None => \E k \in 1..Len(v) : v[k] = m
<1>1. t.points \in Seq(Mark) /\ Rising(t.points) /\ \A m \in Marks(t) : m.at <= now
  BY MarksAre DEF Sound
<1>2. PICK points \in Seq(Mark) : points = t.points
  BY <1>1
<1>3. DOMAIN points = 1..Len(points)
  BY <1>2
<1>4. Marks(t) = {points[i] : i \in 1..Len(points)}
  BY <1>2, <1>3 DEF Marks
<1>5. PICK I : I = {i \in DOMAIN points : since <= points[i].at /\ points[i].at <= now /\ points[i].value # None}
  OBVIOUS
<1>6. v = Selected(points, I)
  BY <1>2, <1>5 DEF Within
<1>7. Rising(v)
  BY <1>1, <1>2, <1>6, SelectedRises
<1>8. /\ Selected(points, I) \in Seq(Mark)
      /\ \A k \in 1..Len(Selected(points, I)) : \E i \in I \cap (1..Len(points)) : Selected(points, I)[k] = points[i]
      /\ \A i \in I \cap (1..Len(points)) : \E k \in 1..Len(Selected(points, I)) : Selected(points, I)[k] = points[i]
  <2>1. points \in Seq(Mark)
    OBVIOUS
  <2> QED
    BY ONLY <2>1, SelectedFrom, SMTT(30)
<1>9. /\ v \in Seq(Mark)
      /\ \A k \in 1..Len(v) : \E i \in I \cap (1..Len(points)) : v[k] = points[i]
      /\ \A i \in I \cap (1..Len(points)) : \E k \in 1..Len(v) : v[k] = points[i]
  BY <1>6, <1>8
<1>10. ASSUME NEW k \in 1..Len(v) PROVE v[k] \in Marks(t) /\ v[k].at >= since /\ v[k].value # None
  <2>1. PICK i \in I \cap (1..Len(points)) : v[k] = points[i]
    BY <1>9
  <2>2. v[k] \in Marks(t)
    BY <1>4, <2>1
  <2>3. since <= v[k].at /\ v[k].value # None
    BY <1>5, <2>1
  <2>4. v[k].at \in Nat
    BY <2>2, MarksAre
  <2> QED
    BY <2>2, <2>3, <2>4
<1>11. ASSUME NEW m \in Marks(t), m.at >= since, m.value # None PROVE \E k \in 1..Len(v) : v[k] = m
  <2>1. PICK i \in 1..Len(points) : m = points[i]
    BY <1>4
  <2>2. m.at \in Nat /\ m.at <= now
    BY <1>1, MarksAre
  <2>3. i \in I
    BY <1>3, <1>5, <1>11, <2>1, <2>2
  <2> QED
    BY <1>9, <2>1, <2>3
<1> QED
  BY <1>7, <1>9, <1>10, <1>11

\* Of rising marks the earliest is the first, and the latest the last.
LEMMA FirstAndLast ==
    ASSUME NEW v \in Seq(Mark), Rising(v), NEW k \in 1..Len(v)
    PROVE  /\ v # <<>> /\ 1 \in 1..Len(v) /\ Len(v) \in 1..Len(v) /\ Last(v) = v[Len(v)]
           /\ v[1].at >= v[k].at => v[1] = v[k]
           /\ Last(v).at <= v[k].at => Last(v) = v[k]
<1>1. PICK n \in Nat : n = Len(v)
  OBVIOUS
<1>2. 1 \in 1..n /\ n \in 1..n /\ v # <<>> /\ Last(v) = v[n]
  BY <1>1 DEF Last
<1>3. \A i \in 1..n : v[i] \in Mark /\ v[i].at \in Nat
  <2>1. \A m \in Mark : m.at \in Nat
    BY DEF Mark
  <2>2. \A i \in 1..n : v[i] \in Mark
    BY <1>1
  <2> QED
    BY <2>1, <2>2
<1>4. ASSUME v[1].at >= v[k].at PROVE v[1] = v[k]
  <2>1. 1 < k => v[1].at < v[k].at
    BY <1>1, <1>2 DEF Rising
  <2>2. PICK a, b \in Nat : a = v[1].at /\ b = v[k].at
    BY <1>1, <1>2, <1>3
  <2>3. ~(1 < k)
    BY <1>4, <2>1, <2>2
  <2>4. k = 1
    BY <2>3
  <2> QED
    BY <2>4
<1>5. ASSUME v[n].at <= v[k].at PROVE v[n] = v[k]
  <2>1. k < n => v[k].at < v[n].at
    BY <1>1, <1>2 DEF Rising
  <2>2. PICK a, b \in Nat : a = v[n].at /\ b = v[k].at
    BY <1>1, <1>2, <1>3
  <2>3. ~(k < n)
    BY <1>5, <2>1, <2>2
  <2>4. k = n
    BY <1>1, <2>3
  <2> QED
    BY <2>4
<1> QED
  BY <1>1, <1>2, <1>4, <1>5

\* What a track says of a process at a time: if it could be read, what it held,
\* and this at the time, too, if the process was there before.
Tells(t, since, unread) ==
    /\ Clear(t, since, unread)
    /\ Old(t, since) /\ (\E m \in Marks(t) : m.at >= since) => \E m \in Marks(t) : m.at = since

\* How a track ends: it is followed up to now, or was until the process exited.
EndsAt(t, now) ==
    \/ t.exited = None /\ \E m \in Marks(t) : m.at = now
    \/ t.exited \in Nat /\ t.exited <= now /\ \A m \in Marks(t) : m.at < t.exited

\* A process changes the total by what it holds now, less what it held then.
LEMMA ChangeIs ==
    ASSUME NEW t, t \in Track, NEW now \in Nat, Sound(t, now), NEW since \in Nat, since <= now, NEW unread,
           Tells(t, since, unread), EndsAt(t, now)
    PROVE  Change(t, since, now) = ValueAt(t, now) - ValueAt(t, since)
<1>1. /\ t.points \in Seq(Mark) /\ Rising(t.points)
      /\ \A m \in Marks(t) : m \in Mark /\ m.at \in Nat /\ m.at <= now /\ (t.existed \/ t.first <= m.at)
      /\ t.first \in Nat
  BY MarksAre DEF Sound, Track
<1>2. \A m \in Marks(t) : m.at >= since => (m.value = None <=> t.pid \in unread)
  BY DEF Tells, Clear
<1>3. PICK v : v = Within(t, since, now)
  OBVIOUS
<1>4. /\ v \in Seq(Mark) /\ Rising(v)
      /\ \A k \in 1..Len(v) : v[k] \in Marks(t) /\ v[k].at >= since /\ v[k].value # None
      /\ \A m \in Marks(t) : m.at >= since /\ m.value # None => \E k \in 1..Len(v) : v[k] = m
  BY <1>3, WithinIs
<1>5. CASE v = <<>>
  <2>1. Change(t, since, now) = 0
    BY <1>3, <1>5 DEF Change
  <2>2. \A m \in Marks(t) : m.at >= since => m.value = None
    BY <1>4, <1>5
  <2>3. ASSUME NEW when \in {since, now} PROVE ValueAt(t, when) = 0
    <3>1. CASE \E m \in Marks(t) : m.at = when
      <4>1. PICK m \in Marks(t) : m.at = when
        BY <3>1
      <4>2. m.value = None
        BY <2>2, <2>3, <4>1
      <4> QED
        BY <1>1, <4>1, <4>2, OneMark
    <3>2. CASE ~\E m \in Marks(t) : m.at = when
      <4>1. PointsAt(t, when) = {}
        BY <3>2 DEF PointsAt
      <4> QED
        BY <4>1, ValueNone
    <3> QED
      BY <3>1, <3>2
  <2>4. ValueAt(t, since) = 0 /\ ValueAt(t, now) = 0
    BY <2>3
  <2> QED
    BY <2>1, <2>4
<1>6. CASE v # <<>>
  <2>1. 1 \in 1..Len(v) /\ Len(v) \in 1..Len(v) /\ Last(v) = v[Len(v)]
    <3>1. Len(v) # 0 /\ Len(v) \in Nat
      BY <1>4, <1>6
    <3>2. 1 \in 1..Len(v)
      BY <3>1
    <3> QED
      BY <1>4, <3>2, FirstAndLast
  <2>2. v[1] \in Marks(t) /\ v[1].at >= since /\ v[1].value # None
    BY <1>4, <2>1
  <2>3. t.pid \notin unread
    BY <1>2, <2>2
  <2>4. \A m \in Marks(t) : m.at >= since => m.value # None
    BY <1>2, <2>3
  <2>5. (IF IsNew(t, since) THEN 0 ELSE v[1].value) = ValueAt(t, since)
    <3>1. CASE Old(t, since)
      <4>1. ~IsNew(t, since)
        BY <1>1, <3>1 DEF IsNew, Old
      <4>2. PICK m \in Marks(t) : m.at = since
        BY <2>2, <3>1 DEF Tells
      <4>3. m.at >= since
        BY <4>2
      <4>4. m.value # None
        BY <2>4, <4>3
      <4>5. PICK k \in 1..Len(v) : v[k] = m
        BY <1>4, <4>3, <4>4
      <4>6. v[1] = m
        BY <1>4, <2>2, <4>2, <4>5, FirstAndLast
      <4>7. ValueAt(t, since) = m.value
        BY <1>1, <4>2, <4>4, OneMark
      <4> QED
        BY <4>1, <4>6, <4>7
    <3>2. CASE ~Old(t, since)
      <4>1. IsNew(t, since)
        BY <1>1, <3>2 DEF IsNew, Old
      <4>2. \A m \in Marks(t) : m.at # since
        BY <1>1, <3>2 DEF Old
      <4>3. PointsAt(t, since) = {}
        BY <4>2 DEF PointsAt
      <4>4. ValueAt(t, since) = 0
        BY <4>3, ValueNone
      <4> QED
        BY <4>1, <4>4
    <3> QED
      BY <3>1, <3>2
  <2>6. (IF t.exited # None /\ t.exited <= now THEN 0 ELSE Last(v).value) = ValueAt(t, now)
    <3>1. CASE t.exited = None /\ \E m \in Marks(t) : m.at = now
      <4>1. PICK m \in Marks(t) : m.at = now
        BY <3>1
      <4>2. m.value # None
        BY <2>4, <4>1
      <4>3. PICK k \in 1..Len(v) : v[k] = m
        BY <1>4, <4>1, <4>2
      <4>4. Last(v) \in Marks(t)
        BY <1>4, <2>1
      <4>5. Last(v).at <= v[k].at
        BY <1>1, <4>1, <4>3, <4>4
      <4>6. Last(v) = m
        BY <1>4, <4>3, <4>5, FirstAndLast
      <4>7. ValueAt(t, now) = m.value
        BY <1>1, <4>1, <4>2, OneMark
      <4> QED
        BY <3>1, <4>6, <4>7
    <3>2. CASE t.exited \in Nat /\ t.exited <= now /\ \A m \in Marks(t) : m.at < t.exited
      <4>1. t.exited # None
        BY <3>2 DEF None
      <4>2. \A m \in Marks(t) : m.at # now
        BY <1>1, <3>2
      <4>3. PointsAt(t, now) = {}
        BY <4>2 DEF PointsAt
      <4>4. ValueAt(t, now) = 0
        BY <4>3, ValueNone
      <4> QED
        BY <3>2, <4>1, <4>4
    <3> QED
      BY <3>1, <3>2 DEF EndsAt
  <2>7. Change(t, since, now) =
          (IF t.exited # None /\ t.exited <= now THEN 0 ELSE Last(v).value) - (IF IsNew(t, since) THEN 0 ELSE v[1].value)
    BY <1>3, <1>6 DEF Change
  <2> QED
    BY <2>5, <2>6, <2>7
<1> QED
  BY <1>5, <1>6

\* Sums of three parts of a difference.
LEMMA PartsAdd ==
    ASSUME NEW a, NEW b, NEW c, NEW v, NEW w, Summable(a), Summable(b), Summable(c), Summable(v), Summable(w),
           DOMAIN b = DOMAIN a, DOMAIN c = DOMAIN a, DOMAIN v = DOMAIN a, DOMAIN w = DOMAIN a,
           \A n \in DOMAIN a : a[n] + b[n] + c[n] = v[n] - w[n]
    PROVE  /\ SumOver(a) + SumOver(b) + SumOver(c) = SumOver(v) - SumOver(w)
           /\ SumOver(a) \in Int /\ SumOver(b) \in Int /\ SumOver(c) \in Int
           /\ SumOver(v) \in Int /\ SumOver(w) \in Int
<1>1. PICK ab : ab = [n \in DOMAIN a |-> a[n] + b[n]]
  OBVIOUS
<1>2. DOMAIN ab = DOMAIN a /\ \A n \in DOMAIN ab : ab[n] = a[n] + b[n]
  BY <1>1
<1>3. Summable(ab) /\ SumOver(ab) = SumOver(a) + SumOver(b)
  BY <1>2, SumPlus
<1>4. PICK cw : cw = [n \in DOMAIN a |-> c[n] + w[n]]
  OBVIOUS
<1>5. DOMAIN cw = DOMAIN c /\ \A n \in DOMAIN cw : cw[n] = c[n] + w[n]
  BY <1>4
<1>6. Summable(cw) /\ SumOver(cw) = SumOver(c) + SumOver(w)
  BY <1>5, SumPlus
<1>7. \A n \in DOMAIN a : a[n] \in Int /\ b[n] \in Int /\ c[n] \in Int /\ v[n] \in Int /\ w[n] \in Int
  BY DEF Summable
<1>8. DOMAIN v = DOMAIN ab /\ DOMAIN cw = DOMAIN ab /\ \A n \in DOMAIN v : v[n] = ab[n] + cw[n]
  BY <1>2, <1>5, <1>7
<1>9. SumOver(v) = SumOver(ab) + SumOver(cw)
  BY <1>3, <1>6, <1>8, SumPlus
<1>10. SumOver(a) \in Int /\ SumOver(b) \in Int /\ SumOver(c) \in Int /\ SumOver(v) \in Int /\ SumOver(w) \in Int
  BY SumType
<1> QED
  BY <1>3, <1>6, <1>9, <1>10

\* The terms of GrowthIn for the live tracks.
LiveShares(h, since, until, kind) == [p \in Live(h) |-> Share(h.live[p], since, until, kind)]

\* And for the departed ones.
DepartedShares(h, since, until, kind) == [i \in DOMAIN h.departed |-> Share(h.departed[i], since, until, kind)]

\* A change is a share of one kind.
LEMMA SharesAre ==
    ASSUME NEW t, NEW since, NEW until, Change(t, since, until) \in Int
    PROVE  /\ \A kind : Share(t, since, until, kind) \in Int
           /\ Share(t, since, until, "new") + Share(t, since, until, "existing") + Share(t, since, until, "lost")
                = Change(t, since, until)
<1>1. PICK c \in Int : c = Change(t, since, until)
  OBVIOUS
<1>2. PICK k : k = Kind(t, since, until)
  OBVIOUS
<1>3. k = "new" \/ k = "existing" \/ k = "lost"
  BY <1>2 DEF Kind
<1>4. \A kind : Share(t, since, until, kind) = IF k = kind THEN c ELSE 0
  BY <1>1, <1>2 DEF Share
<1>5. \A kind : Share(t, since, until, kind) \in Int
  BY <1>4
<1>6. PICK a, b, d : /\ a = Share(t, since, until, "new") /\ b = Share(t, since, until, "existing")
                     /\ d = Share(t, since, until, "lost")
  OBVIOUS
<1>7. a = (IF k = "new" THEN c ELSE 0) /\ b = (IF k = "existing" THEN c ELSE 0) /\ d = (IF k = "lost" THEN c ELSE 0)
  BY <1>4, <1>6
<1>8. a + b + d = c
  BY <1>3, <1>7
<1> QED
  BY <1>1, <1>5, <1>6, <1>8

\* All of the growth over a stretch is what the processes hold at its end,
\* less what they held at its start.
LEMMA GrowthAdds ==
    ASSUME NEW h, HistoryType(h), NEW since, NEW now,
           \A p \in Live(h) : Change(h.live[p], since, now) = ValueAt(h.live[p], now) - ValueAt(h.live[p], since),
           \A k \in DOMAIN h.departed :
              Change(h.departed[k], since, now) = ValueAt(h.departed[k], now) - ValueAt(h.departed[k], since)
    PROVE  GrowthIn(h, since, now, "new") + GrowthIn(h, since, now, "existing") + GrowthIn(h, since, now, "lost")
             = HeldAt(h, now) - HeldAt(h, since)
<1>1. LiveType(h.live) /\ h.departed \in Seq(Track)
  BY DEF HistoryType
<1>2. /\ \A p \in Live(h) : h.live[p] \in Track
      /\ \A k \in DOMAIN h.departed : h.departed[k] \in Track
      /\ IsFiniteSet(Live(h)) /\ Live(h) \subseteq Nat
      /\ IsFiniteSet(DOMAIN h.departed) /\ DOMAIN h.departed \subseteq Nat
  <2>1. DOMAIN h.departed = 1..Len(h.departed) /\ Len(h.departed) \in Nat
    BY <1>1
  <2>2. IsFiniteSet(1..Len(h.departed))
    BY <2>1, FS_Interval
  <2>3. \A p \in Live(h) : h.live[p] \in Track
    BY <1>1 DEF LiveType, Live
  <2>4. \A k \in DOMAIN h.departed : h.departed[k] \in Track
    BY <1>1, <2>1
  <2>5. IsFiniteSet(Live(h)) /\ Live(h) \subseteq Nat
    BY <1>1 DEF LiveType, Live
  <2> QED
    BY <2>1, <2>2, <2>3, <2>4, <2>5
<1>3. \A p \in Live(h) : Change(h.live[p], since, now) \in Int
  <2>1. \A p \in Live(h) : ValueAt(h.live[p], now) \in Int /\ ValueAt(h.live[p], since) \in Int
    BY <1>2, ValueType
  <2> QED
    BY <2>1
<1>4. \A k \in DOMAIN h.departed : Change(h.departed[k], since, now) \in Int
  <2>1. \A k \in DOMAIN h.departed : ValueAt(h.departed[k], now) \in Int /\ ValueAt(h.departed[k], since) \in Int
    BY <1>2, ValueType
  <2> QED
    BY <2>1
<1>5. /\ Summable(LiveValues(h, now)) /\ Summable(DepartedValues(h, now))
      /\ HeldAt(h, now) = SumOver(LiveValues(h, now)) + SumOver(DepartedValues(h, now))
  BY ValuesAdd
<1>6. /\ Summable(LiveValues(h, since)) /\ Summable(DepartedValues(h, since))
      /\ HeldAt(h, since) = SumOver(LiveValues(h, since)) + SumOver(DepartedValues(h, since))
  BY ValuesAdd
<1>7. PICK a, b, c, v, w : /\ a = LiveShares(h, since, now, "new") /\ b = LiveShares(h, since, now, "existing")
                           /\ c = LiveShares(h, since, now, "lost")
                           /\ v = LiveValues(h, now) /\ w = LiveValues(h, since)
  OBVIOUS
<1>8. /\ DOMAIN a = Live(h) /\ DOMAIN b = Live(h) /\ DOMAIN c = Live(h) /\ DOMAIN v = Live(h) /\ DOMAIN w = Live(h)
      /\ \A p \in Live(h) : /\ a[p] = Share(h.live[p], since, now, "new")
                            /\ b[p] = Share(h.live[p], since, now, "existing")
                            /\ c[p] = Share(h.live[p], since, now, "lost")
                            /\ v[p] = ValueAt(h.live[p], now) /\ w[p] = ValueAt(h.live[p], since)
  BY <1>7 DEF LiveShares, LiveValues
<1>9. \A p \in Live(h) : a[p] \in Int /\ b[p] \in Int /\ c[p] \in Int /\ a[p] + b[p] + c[p] = v[p] - w[p]
  <2> SUFFICES ASSUME NEW p \in Live(h)
               PROVE  a[p] \in Int /\ b[p] \in Int /\ c[p] \in Int /\ a[p] + b[p] + c[p] = v[p] - w[p]
    OBVIOUS
  <2>1. PICK t : t = h.live[p]
    OBVIOUS
  <2>2. Change(t, since, now) \in Int /\ Change(t, since, now) = v[p] - w[p]
    BY <1>3, <1>8, <2>1
  <2>3. /\ \A kind : Share(t, since, now, kind) \in Int
        /\ Share(t, since, now, "new") + Share(t, since, now, "existing") + Share(t, since, now, "lost")
             = Change(t, since, now)
    BY <2>2, SharesAre
  <2>4. a[p] = Share(t, since, now, "new") /\ b[p] = Share(t, since, now, "existing") /\ c[p] = Share(t, since, now, "lost")
    BY <1>8, <2>1
  <2> QED
    BY <2>2, <2>3, <2>4
<1>10. Summable(a) /\ Summable(b) /\ Summable(c)
  BY <1>2, <1>8, <1>9 DEF Summable
<1>11. /\ SumOver(a) + SumOver(b) + SumOver(c) = SumOver(v) - SumOver(w)
       /\ SumOver(a) \in Int /\ SumOver(b) \in Int /\ SumOver(c) \in Int /\ SumOver(v) \in Int /\ SumOver(w) \in Int
  BY <1>5, <1>6, <1>7, <1>8, <1>9, <1>10, PartsAdd
<1>12. PICK d, e, f, x, y : /\ d = DepartedShares(h, since, now, "new") /\ e = DepartedShares(h, since, now, "existing")
                            /\ f = DepartedShares(h, since, now, "lost")
                            /\ x = DepartedValues(h, now) /\ y = DepartedValues(h, since)
  OBVIOUS
<1>13. PICK D : D = DOMAIN h.departed
  OBVIOUS
<1>14. /\ DOMAIN d = D /\ DOMAIN e = D /\ DOMAIN f = D /\ DOMAIN x = D /\ DOMAIN y = D
       /\ \A k \in D : /\ d[k] = Share(h.departed[k], since, now, "new")
                       /\ e[k] = Share(h.departed[k], since, now, "existing")
                       /\ f[k] = Share(h.departed[k], since, now, "lost")
                       /\ x[k] = ValueAt(h.departed[k], now) /\ y[k] = ValueAt(h.departed[k], since)
  BY <1>12, <1>13 DEF DepartedShares, DepartedValues
<1>15. \A k \in D : d[k] \in Int /\ e[k] \in Int /\ f[k] \in Int /\ d[k] + e[k] + f[k] = x[k] - y[k]
  <2> SUFFICES ASSUME NEW k \in D
               PROVE  d[k] \in Int /\ e[k] \in Int /\ f[k] \in Int /\ d[k] + e[k] + f[k] = x[k] - y[k]
    OBVIOUS
  <2>1. PICK t : t = h.departed[k]
    OBVIOUS
  <2>2. Change(t, since, now) \in Int /\ Change(t, since, now) = x[k] - y[k]
    BY <1>4, <1>13, <1>14, <2>1
  <2>3. /\ \A kind : Share(t, since, now, kind) \in Int
        /\ Share(t, since, now, "new") + Share(t, since, now, "existing") + Share(t, since, now, "lost")
             = Change(t, since, now)
    BY <2>2, SharesAre
  <2>4. d[k] = Share(t, since, now, "new") /\ e[k] = Share(t, since, now, "existing") /\ f[k] = Share(t, since, now, "lost")
    BY <1>14, <2>1
  <2> QED
    BY <2>2, <2>3, <2>4
<1>16. Summable(d) /\ Summable(e) /\ Summable(f)
  BY <1>2, <1>13, <1>14, <1>15 DEF Summable
<1>17. /\ SumOver(d) + SumOver(e) + SumOver(f) = SumOver(x) - SumOver(y)
       /\ SumOver(d) \in Int /\ SumOver(e) \in Int /\ SumOver(f) \in Int /\ SumOver(x) \in Int /\ SumOver(y) \in Int
  BY <1>5, <1>6, <1>12, <1>14, <1>15, <1>16, PartsAdd
<1>18. /\ GrowthIn(h, since, now, "new") = SumOver(a) + SumOver(d)
       /\ GrowthIn(h, since, now, "existing") = SumOver(b) + SumOver(e)
       /\ GrowthIn(h, since, now, "lost") = SumOver(c) + SumOver(f)
  BY <1>7, <1>12 DEF GrowthIn, LiveShares, DepartedShares
<1>19. HeldAt(h, now) = SumOver(v) + SumOver(x) /\ HeldAt(h, since) = SumOver(w) + SumOver(y)
  BY <1>5, <1>6, <1>7, <1>12
<1>20. PICK s1, s2, s3, s4, s5 \in Int : /\ s1 = SumOver(a) /\ s2 = SumOver(b) /\ s3 = SumOver(c)
                                         /\ s4 = SumOver(v) /\ s5 = SumOver(w)
  BY <1>11
<1>21. PICK r1, r2, r3, r4, r5 \in Int : /\ r1 = SumOver(d) /\ r2 = SumOver(e) /\ r3 = SumOver(f)
                                         /\ r4 = SumOver(x) /\ r5 = SumOver(y)
  BY <1>17
<1>22. s1 + s2 + s3 = s4 - s5 /\ r1 + r2 + r3 = r4 - r5
  BY <1>11, <1>17, <1>20, <1>21
<1>23. (s1 + r1) + (s2 + r2) + (s3 + r3) = (s4 + r4) - (s5 + r5)
  BY <1>22
<1> QED
  BY <1>18, <1>19, <1>20, <1>21, <1>23

\* A complete history attributes all that the total changed by.
LEMMA AttributionIs ==
    ASSUME NEW h, HistoryType(h), NEW now \in Nat, LiveSound(h, now), DepartedSound(h, now),
           NEW since \in Nat, since <= now, NEW unread, Complete(h, since, unread), Complete(h, now, unread)
    PROVE  GrowthIn(h, since, now, "new") + GrowthIn(h, since, now, "existing") + GrowthIn(h, since, now, "lost")
             = HeldAt(h, now) - HeldAt(h, since)
<1>1. LiveType(h.live) /\ h.departed \in Seq(Track)
  BY DEF HistoryType
<1>2. ASSUME NEW p \in Live(h)
      PROVE  Change(h.live[p], since, now) = ValueAt(h.live[p], now) - ValueAt(h.live[p], since)
  <2>1. PICK t : t = h.live[p]
    OBVIOUS
  <2>2. t \in Track
    BY <1>1, <2>1 DEF LiveType, Live
  <2>3. Sound(t, now) /\ t.exited = None
    BY <2>1 DEF LiveSound
  <2>4. Tells(t, since, unread)
    BY <2>1 DEF Complete, Tells
  <2>5. Old(t, now)
    BY <2>3 DEF Sound, Old
  <2>6. \E m \in Marks(t) : m.at = now
    BY <2>1, <2>5 DEF Complete
  <2>7. EndsAt(t, now)
    BY <2>3, <2>6 DEF EndsAt
  <2>8. Change(t, since, now) = ValueAt(t, now) - ValueAt(t, since)
    BY <2>2, <2>3, <2>4, <2>7, ChangeIs
  <2> QED
    BY <2>1, <2>8
<1>3. ASSUME NEW k \in DOMAIN h.departed
      PROVE  Change(h.departed[k], since, now) = ValueAt(h.departed[k], now) - ValueAt(h.departed[k], since)
  <2>1. PICK t : t = h.departed[k]
    OBVIOUS
  <2>2. t \in Track
    BY <1>1, <2>1
  <2>3. Sound(t, now) /\ EndsAt(t, now)
    BY <2>1 DEF DepartedSound, EndsAt
  <2>4. Tells(t, since, unread)
    BY <2>1 DEF Complete, Tells
  <2>5. Change(t, since, now) = ValueAt(t, now) - ValueAt(t, since)
    BY <2>2, <2>3, <2>4, ChangeIs
  <2> QED
    BY <2>1, <2>5
<1> QED
  BY <1>2, <1>3, GrowthAdds

-----------------------------------------------------------------------------
(* The alert *)

\* There are few severities.
LEMMA SeverityType == \E most \in Nat : \A score : Severity(score) \in 0..most
<1>1. PICK T : T = {180, 250, 350, 450}
  OBVIOUS
<1>2. IsFiniteSet(T)
  <2>1. IsFiniteSet(0..450)
    <3>1. PICK lo, hi \in Int : lo = 0 /\ hi = 450
      OBVIOUS
    <3>2. IsFiniteSet(lo..hi)
      BY FS_Interval
    <3> QED
      BY <3>1, <3>2
  <2>2. T \in SUBSET (0..450)
    BY <1>1
  <2> QED
    BY <2>1, <2>2, FS_Subset
<1>3. Cardinality(T) \in Nat
  BY <1>2, FS_CardinalityType
<1>4. ASSUME NEW score PROVE Severity(score) \in 0..Cardinality(T)
  <2>1. PICK S : S = {least \in T : score >= least}
    OBVIOUS
  <2>2. Severity(score) = Cardinality(S)
    BY <1>1, <2>1 DEF Severity
  <2>3. IsFiniteSet(S) /\ Cardinality(S) <= Cardinality(T)
    BY <1>2, <2>1, FS_Subset
  <2>4. Cardinality(S) \in Nat
    BY <2>3, FS_CardinalityType
  <2> QED
    BY <1>3, <2>2, <2>3, <2>4
<1> QED
  BY <1>3, <1>4

\* Four points at least make a window that qualifies.
LEMMA QualifiedHas ==
    ASSUME NEW points, NEW now, NEW w, NEW p, p = InWindow(points, now, w), Len(p) \in Nat,
           Verdict(points, now, w) = "qualified"
    PROVE  Len(p) >= 4
<1> SUFFICES ASSUME Len(p) < 4 PROVE FALSE
  OBVIOUS
<1>1. Verdict(points, now, w) = "too_few_samples"
  BY DEF Verdict
<1> QED
  BY <1>1

\* The severity a window would have.
SeverityAt(points, now, w) == Severity(Score(InWindow(points, now, w), w))

\* The windows an alert may be of.
Qualified(points, now) == {w \in ToSet(Windows) : Verdict(points, now, w) = "qualified"}

\* An alert is that of a window that qualifies.
LEMMA AlertIs ==
    ASSUME NEW points, NEW now, NEW h, NEW a, a = Alert(points, now, h), a # NoAlert
    PROVE  \E w \in Qualified(points, now) : a = AlertOf(points, now, w, h)
<1>1. PICK Q : Q = Qualified(points, now)
  OBVIOUS
<1>2. Q \subseteq Nat
  <2>1. ToSet(Windows) \subseteq Nat
    <3>1. Windows \in Seq(Nat \ {0})
      BY DetectorAssumption
    <3>2. \A i \in DOMAIN Windows : Windows[i] \in Nat
      BY <3>1
    <3> QED
      BY <3>2 DEF ToSet
  <2> QED
    BY <1>1, <2>1 DEF Qualified
<1>3. PICK alerts : alerts = {AlertOf(points, now, w, h) : w \in Q}
  OBVIOUS
<1>4. a = IF alerts = {} THEN NoAlert
          ELSE CHOOSE best \in alerts :
                 \A b \in alerts : \/ best.severity > b.severity
                                   \/ best.severity = b.severity /\ best.window <= b.window
  BY <1>1, <1>3 DEF Alert, Qualified
<1>5. alerts # {}
  BY <1>4
<1>6. Q # {}
  BY <1>3, <1>5
<1>7. PICK most \in Nat : \A score : Severity(score) \in 0..most
  BY SeverityType
<1>8. \A w \in Q : SeverityAt(points, now, w) \in 0..most
  BY <1>7 DEF SeverityAt
<1>9. PICK S : S = {SeverityAt(points, now, w) : w \in Q}
  OBVIOUS
<1>10. S \subseteq 0..most /\ S # {}
  BY <1>6, <1>8, <1>9
<1>11. IsFiniteSet(S) /\ S \subseteq Nat
  <2>1. IsFiniteSet(0..most)
    BY FS_Interval
  <2>2. S \in SUBSET (0..most) /\ S \subseteq Nat
    BY <1>10
  <2>3. IsFiniteSet(S)
    BY <2>1, <2>2, FS_Subset
  <2> QED
    BY <2>2, <2>3
<1>12. PICK m \in S : \A n \in S : n <= m
  BY <1>10, <1>11, HasGreatest
<1>13. PICK U : U = {w \in Q : SeverityAt(points, now, w) = m}
  OBVIOUS
<1>14. U \subseteq Nat /\ U # {}
  BY <1>2, <1>9, <1>13
<1>15. PICK v \in U : \A w \in U : v <= w
  BY <1>14, HasLeast
<1>16. \A w : AlertOf(points, now, w, h).severity = SeverityAt(points, now, w) /\ AlertOf(points, now, w, h).window = w
  BY DEF AlertOf, SeverityAt
<1>17. PICK best : best = AlertOf(points, now, v, h)
  OBVIOUS
<1>18. best \in alerts /\ best.severity = m /\ best.window = v
  BY <1>3, <1>13, <1>16, <1>17
<1>19. ASSUME NEW b \in alerts
       PROVE  \/ best.severity > b.severity
              \/ best.severity = b.severity /\ best.window <= b.window
  <2>1. PICK w \in Q : b = AlertOf(points, now, w, h)
    BY <1>3
  <2>2. b.severity = SeverityAt(points, now, w) /\ b.window = w
    BY <1>16, <2>1
  <2>3. PICK n \in S : n = SeverityAt(points, now, w)
    BY <1>9
  <2>4. n <= m /\ n \in Nat /\ m \in Nat
    BY <1>11, <1>12
  <2>5. CASE n = m
    <3>1. v <= w
      BY <1>13, <1>15, <2>3, <2>5
    <3> QED
      BY <1>18, <2>2, <2>3, <2>5, <3>1
  <2>6. CASE n # m
    <3>1. m > n
      BY <2>4, <2>6
    <3>2. best.severity > b.severity
      BY <1>18, <2>2, <2>3, <3>1
    <3> QED
      BY <3>2
  <2> QED
    BY <2>5, <2>6
<1>20. \E x \in alerts : \A b \in alerts : \/ x.severity > b.severity
                                           \/ x.severity = b.severity /\ x.window <= b.window
  BY <1>18, <1>19
<1>21. a \in alerts
  <2>1. a = CHOOSE x \in alerts :
                 \A b \in alerts : \/ x.severity > b.severity
                                   \/ x.severity = b.severity /\ x.window <= b.window
    BY <1>4, <1>5
  <2> QED
    BY <1>20, <2>1
<1> QED
  BY <1>1, <1>3, <1>21

\* A selection has the points at its positions.
LEMMA SelectedHas ==
    ASSUME NEW points \in Seq(Point), NEW I, NEW l \in I \cap (1..Len(points)), NEW p, p = Selected(points, I)
    PROVE  \E k \in 1..Len(p) : p[k] = points[l]
<1>1. PICK h : Places(h, Selected(points, I), points, I, Len(points))
  BY SelectedPlaces
<1>2. Places(h, p, points, I, Len(points))
  BY <1>1
<1>3. PICK k \in 1..Len(p) : h[k] = l
  BY <1>2 DEF Places
<1>4. p[k] = points[h[k]]
  BY <1>2 DEF Places
<1> QED
  BY <1>3, <1>4

\* The window of an alert: its points are points of the series, the first is
\* not too old, and the last is of now.
LEMMA WindowEnds ==
    ASSUME MeasureInv', TreeType(tree'), MeasureInv, wall' \in Nat, mono' \in Nat, mono' > mono, CollectTick,
           NEW w \in Nat, NEW p, p = InWindow(series'.points, wall', w), Len(p) >= 4
    PROVE  /\ \E i \in 1..Len(series'.points) : p[1] = series'.points[i]
           /\ \E i \in 1..Len(series'.points) : Last(p) = series'.points[i]
           /\ p[1].at \in Nat /\ p[1].at <= wall' /\ p[1].at >= wall' - MaxAge /\ Last(p).at = wall'
<1>1. PICK points, now, since : points = series'.points /\ now = wall' /\ since = paused'
  OBVIOUS
<1>2. PICK I : I = {i \in DOMAIN points : points[i].at >= now - w}
  OBVIOUS
<1>3. p = Selected(points, I)
  BY <1>1, <1>2 DEF InWindow, Since
<1>4. Comparable(points, since) /\ \A i \in 1..Len(points) : points[i].at <= now
  BY <1>1 DEF MeasureInv, SeriesInv
<1>5. now \in Nat /\ points \in Seq(Point) /\ \A i \in 1..Len(points) : points[i].at \in Nat
  BY <1>1, <1>4, PointTypes DEF Comparable
<1>6. Comparable(p, since) /\ \A k \in 1..Len(p) : \E i \in I \cap (1..Len(points)) : p[k] = points[i]
  BY <1>3, <1>4, SelectedCompare
<1>7. p \in Seq(Point) /\ Len(p) \in Nat
  BY <1>6 DEF Comparable
<1>8. PICK n \in Nat : n = Len(p) /\ n >= 4
  BY <1>7
<1>9. 1 \in 1..n /\ n \in 1..n /\ Last(p) = p[n]
  BY <1>8 DEF Last
<1>10. /\ \A i \in 1..Len(points) :
             /\ points[i].at >= now - MaxAge
             /\ \/ points[i] = NewPoint
                \/ \E j \in 1..Len(series.points) : points[i] = series.points[j]
       /\ points # <<>> => \E i \in 1..Len(points) : points[i] = NewPoint
  BY <1>1, CollectedFrom
<1>11. \A k \in 1..n : \E i \in I \cap (1..Len(points)) : p[k] = points[i]
  BY <1>6, <1>8
<1>12. PICK i \in 1..Len(points) : p[1] = points[i]
  BY <1>9, <1>11
<1>13. PICK j \in 1..Len(points) : p[n] = points[j]
  BY <1>9, <1>11
<1>14. points # <<>>
  BY <1>5, <1>12
<1>15. PICK l \in 1..Len(points) : points[l] = NewPoint
  BY <1>10, <1>14
<1>16. points[l].at = now
  BY <1>1, <1>15 DEF NewPoint
<1>17. l \in I \cap (1..Len(points))
  BY <1>2, <1>5, <1>16
<1>18. \E k \in 1..n : p[k] = points[l]
  <2>1. points \in Seq(Point) /\ l \in I \cap (1..Len(points)) /\ p = Selected(points, I)
    BY <1>3, <1>5, <1>17
  <2>2. \E k \in 1..Len(p) : p[k] = points[l]
    BY ONLY <2>1, SelectedHas
  <2> QED
    BY <1>8, <2>2
<1>19. PICK k \in 1..n : p[k] = points[l]
  BY <1>18
<1>20. p[n].at = now
  <2>1. k < n => p[k].at < p[n].at
    BY <1>6, <1>8, <1>9 DEF Comparable
  <2>2. PICK a \in Nat : a = p[n].at /\ a <= now
    BY <1>4, <1>5, <1>13
  <2>3. p[k].at = now
    BY <1>16, <1>19
  <2>4. ~(k < n)
    BY <1>5, <2>1, <2>2, <2>3
  <2>5. k = n
    BY <2>4
  <2> QED
    BY <2>3, <2>5
<1>21. p[1].at \in Nat /\ p[1].at <= now /\ p[1].at >= now - MaxAge
  BY <1>4, <1>5, <1>10, <1>12
<1> QED
  BY <1>1, <1>9, <1>12, <1>13, <1>20, <1>21

\* An alert is attributed by what the total changed by.
LEMMA CollectAlert ==
    ASSUME MeasureInv, MeasureInv', HistoryInv', TreeType(tree'), wall' \in Nat, mono' \in Nat, mono' > mono, CollectTick
    PROVE  AlertInv'
<1> SUFFICES ASSUME alert'.severity > 0, ~overflow'
             PROVE  alert'.by.fromNew + alert'.by.fromExisting + alert'.by.lost = alert'.current - alert'.baseline
  BY DEF AlertInv
<1>1. PICK points, segment, now, o : points = series'.points /\ segment = series'.segment /\ now = wall' /\ o = history'
  OBVIOUS
<1>2. PICK a : a = alert'
  OBVIOUS
<1>3. a # NoAlert
  BY <1>2 DEF NoAlert
<1>4. a = Alert(points, now, o)
  BY <1>1, <1>2, <1>3 DEF CollectTick
<1>5. PICK w \in Qualified(points, now) : a = AlertOf(points, now, w, o)
  BY <1>3, <1>4, AlertIs
<1>6. w \in Nat /\ Verdict(points, now, w) = "qualified"
  <2>1. Windows \in Seq(Nat \ {0})
    BY DetectorAssumption
  <2>2. \A i \in DOMAIN Windows : Windows[i] \in Nat
    BY <2>1
  <2> QED
    BY <2>2 DEF Qualified, ToSet
<1>7. PICK p : p = InWindow(points, now, w)
  OBVIOUS
<1>8. Comparable(points, paused')
  BY <1>1 DEF MeasureInv, SeriesInv
<1>9. Len(p) \in Nat
  <2>1. PICK I : p = Selected(points, I)
    BY <1>7 DEF InWindow, Since
  <2>2. Comparable(p, paused')
    BY <1>8, <2>1, SelectedCompare
  <2> QED
    BY <2>2 DEF Comparable
<1>10. Len(p) >= 4
  BY <1>6, <1>7, <1>9, QualifiedHas
<1>11. /\ \E i \in 1..Len(points) : p[1] = points[i]
       /\ \E i \in 1..Len(points) : Last(p) = points[i]
       /\ p[1].at \in Nat /\ p[1].at <= now /\ p[1].at >= now - MaxAge /\ Last(p).at = now
  BY <1>1, <1>6, <1>7, <1>10, WindowEnds
<1>12. PICK when \in Nat : when = p[1].at /\ when <= now /\ when >= now - MaxAge
  BY <1>11
<1>13. HistoryType(o) /\ LiveSound(o, now) /\ DepartedSound(o, now) /\ Accounted(o, points, segment, now)
  BY <1>1 DEF HistoryInv
<1>14. now \in Nat /\ now >= now - MaxAge
  <2>1. PICK n, m \in Nat : n = now /\ m = MaxAge
    BY <1>1, MaxAgeType
  <2>2. n >= n - m
    OBVIOUS
  <2> QED
    BY <2>1, <2>2
<1>15. Complete(o, when, segment) /\ p[1].value = HeldAt(o, when)
  BY <1>11, <1>12, <1>13 DEF Accounted
<1>16. Complete(o, now, segment) /\ Last(p).value = HeldAt(o, now)
  BY <1>11, <1>13, <1>14 DEF Accounted
<1>17. GrowthIn(o, when, now, "new") + GrowthIn(o, when, now, "existing") + GrowthIn(o, when, now, "lost")
         = HeldAt(o, now) - HeldAt(o, when)
  BY <1>12, <1>13, <1>14, <1>15, <1>16, AttributionIs
<1>18. /\ a.by.fromNew = GrowthIn(o, when, now, "new") /\ a.by.fromExisting = GrowthIn(o, when, now, "existing")
       /\ a.by.lost = GrowthIn(o, when, now, "lost") /\ a.current = Last(p).value /\ a.baseline = p[1].value
  BY <1>5, <1>7, <1>12 DEF AlertOf, Attribute
<1> QED
  BY <1>2, <1>15, <1>16, <1>17, <1>18

-----------------------------------------------------------------------------

\* The inductive invariant of the detector.
DetectorInv == MeasureInv /\ HistoryInv /\ AlertInv

\* It holds at the start.
LEMMA DetectorStarts == ASSUME DetectorInit PROVE DetectorInv
<1>1. AlertInv
  BY DEF DetectorInit, NoAlert, AlertInv
<1> QED
  BY <1>1, MeasureStarts, HistoryStarts DEF DetectorInv

\* Every step keeps it.
LEMMA DetectorKeeps == ASSUME DetectorInv, [DetectorNext]_detectorVars PROVE DetectorInv'
<1>1. MeasureInv /\ HistoryInv /\ AlertInv
  BY DEF DetectorInv
<1>2. MeasureInv'
  BY <1>1, MeasureKeeps
<1>3. CASE DetectorNext
  <2>1. /\ TreeType(tree') /\ wall' \in Nat /\ mono' \in Nat /\ mono' > mono
        /\ \/ CollectTick
           \/ FailedTick /\ Unmeasured(tree') = Unmeasured(tree)
           \/ PausedTick
    BY <1>1, <1>3, TickIsOneOf
  <2>2. CASE CollectTick
    <3>1. HistoryInv'
      BY <1>1, <2>1, <2>2, CollectHistory
    <3>2. AlertInv'
      BY <1>1, <1>2, <2>1, <2>2, <3>1, CollectAlert
    <3> QED
      BY <1>2, <3>1, <3>2 DEF DetectorInv
  <2>3. CASE FailedTick /\ Unmeasured(tree') = Unmeasured(tree)
    <3>1. HistoryInv'
      BY <1>1, <2>1, <2>3, FailureHistory
    <3>2. AlertInv'
      BY <1>1, <2>3 DEF FailedTick, AlertInv
    <3> QED
      BY <1>2, <3>1, <3>2 DEF DetectorInv
  <2>4. CASE PausedTick
    <3>1. HistoryInv'
      BY <1>1, <2>1, <2>4, PauseHistory
    <3>2. AlertInv'
      BY <1>1, <2>4 DEF PausedTick, AlertInv
    <3> QED
      BY <1>2, <3>1, <3>2 DEF DetectorInv
  <2> QED
    BY <2>1, <2>2, <2>3, <2>4
<1>4. CASE UNCHANGED detectorVars
  <2>1. HistoryInv' /\ AlertInv'
    BY <1>1, <1>4 DEF detectorVars, clocks, HistoryInv, AlertInv
  <2> QED
    BY <1>2, <2>1 DEF DetectorInv
<1> QED
  BY <1>3, <1>4

\* And it says what is claimed.
LEMMA DetectorInvIsRight == ASSUME DetectorInv PROVE DetectorIsRight
<1>1. WindowsCompare
  BY WindowsDoCompare DEF DetectorInv
<1>2. history.restarted <= history.exited
  <2>1. HistoryType(history)
    BY DEF DetectorInv, HistoryInv
  <2>2. PICK r, e, l \in Nat : r = history.restarted /\ e = history.exited /\ l = Len(history.candidates)
    BY <2>1 DEF HistoryType
  <2>3. r + l <= e
    BY <2>1, <2>2 DEF HistoryType
  <2> QED
    BY <2>2, <2>3
<1>3. AttributionAddsUp
  BY <1>2 DEF AttributionAddsUp, DetectorInv, AlertInv
<1> QED
  BY <1>1, <1>3 DEF DetectorIsRight

\* The detector compares stretches of measurement of one length and one clock, and what
\* it attributes adds up: in every behaviour, for any windows, limits and PIDs.
\* (leak_detector.py 135-154, 331-351, 505-533, 629-653, 1176-1205;
\* process_history.py 178-285, 373-421)
THEOREM DetectorRight == DetectorSpec => []DetectorIsRight
<1>1. DetectorInit => DetectorInv
  BY DetectorStarts
<1>2. DetectorInv /\ [DetectorNext]_detectorVars => DetectorInv'
  BY DetectorKeeps
<1>3. DetectorInv => DetectorIsRight
  BY DetectorInvIsRight
<1> QED
  BY <1>1, <1>2, <1>3, PTL DEF DetectorSpec
=============================================================================
