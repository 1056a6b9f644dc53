----------------------------- MODULE Dashboard -----------------------------
(***************************************************************************)
(* The live dashboard (src/src/dashboard.py, src/src/view_comparison.py):  *)
(* one loop that takes samples, handles a key and draws, and one worker    *)
(* that compares the session with a saved report.                          *)
(*                                                                         *)
(* Keyboard models how keys are read, Inspector and Timeline what is on    *)
(* screen, ProcessControl and Session what a pause, a kill and the end of  *)
(* the session do to the target: here they succeed or fail.                *)
(***************************************************************************)
EXTENDS Naturals

CONSTANTS
    ConfirmTicks, \* KILL_CONFIRM_SECONDS, in turns of the loop
    MaxErrors     \* bound: steps of the loop that raise

ASSUME DashboardAssumption == ConfirmTicks \in Nat /\ MaxErrors \in Nat

VARIABLES
    loop,      \* what the loop does next: "poll", "key", "draw", "shut down", "over"
    attached,  \* the target was not launched
    hosts,     \* manager.contains_monitor
    view, help,
    baseline,  \* _baseline_draft: "none", "empty" or "text"
    marker,    \* _marker_draft, likewise
    filter,    \* _proc_searching
    frozen,    \* _timeline_frozen
    target,    \* "running", "stopped" or "gone"
    suspended, \* detector.is_paused
    armed,     \* turns left until _kill_armed_until passes
    warning,   \* turns left of a warning that no kill has used
    shown,     \* the session has a snapshot
    quit,      \* _quit_requested
    loading,   \* _comparison_loading
    worker,    \* _comparison_worker: "none", "running" or "done"
    results,   \* _comparison_results: "empty", "compared" or "failed"
    loaded,    \* _baseline_report is not None
    troubled   \* steps that raised

inputVars == <<view, help, baseline, marker, filter, frozen>>
targetVars == <<target, suspended, armed, warning>>
compareVars == <<loading, worker, results, loaded>>
dashboardVars == <<loop, attached, hosts, inputVars, targetVars, shown, quit, compareVars, troubled>>

Views == {"overview", "processes", "evidence", "timeline", "monitor", "comparison"}

DashboardInit ==
    /\ loop = "poll" /\ attached \in BOOLEAN /\ hosts \in BOOLEAN /\ (hosts => attached)
    /\ view = "overview" /\ help = FALSE /\ baseline = "none" /\ marker = "none" /\ filter = FALSE /\ frozen = FALSE
    /\ target = "running" /\ suspended = FALSE /\ armed = 0 /\ warning = 0
    /\ shown = FALSE /\ quit = FALSE
    /\ loading = FALSE /\ worker = "none" /\ results = "empty" /\ loaded = FALSE /\ troubled = 0

-----------------------------------------------------------------------------
(* _drain_comparison_result: nothing while the worker lives *)

Settled == worker # "running" /\ results # "empty"
Busy == loading /\ ~Settled
Kept == loaded \/ (Settled /\ results = "compared")

Taken == results' = (IF Settled THEN "empty" ELSE results) /\ loaded' = Kept

Drained == Taken /\ loading' = Busy /\ UNCHANGED worker

\* Mutation: a start that raised is always taken for one that failed.
NeverStarted_OnError(started) == TRUE
NeverStarted(started) == ~started

\* _request_comparison.  Thread.start may raise with or without a thread.
Request(allowed) ==
    IF Busy \/ ~shown \/ ~allowed THEN Drained
    ELSE /\ Taken
         /\ \/ loading' = TRUE /\ worker' = "running"
            \/ \E started \in BOOLEAN :
                 /\ worker' = IF started THEN "running" ELSE "none"
                 /\ loading' = ~NeverStarted(started)

Work ==
    /\ worker = "running" /\ worker' = "done"
    /\ results' \in {"compared", "failed"}
    /\ UNCHANGED <<loop, attached, hosts, inputVars, targetVars, shown, quit, loading, loaded, troubled>>

-----------------------------------------------------------------------------
(* Keys: who gets the next one *)

Owner ==
    CASE baseline # "none" -> "baseline"
      [] baseline = "none" /\ marker # "none" -> "marker"
      [] baseline = "none" /\ marker = "none" /\ help -> "help"
      [] OTHER -> IF view = "processes" /\ filter THEN "filter" ELSE "view"

BaselineKey ==
    /\ Owner = "baseline"
    /\ \/ baseline' = "none" /\ UNCHANGED compareVars              \* Esc
       \/ baseline' = "none" /\ Request(baseline = "text")         \* Enter
       \/ baseline' \in {"empty", "text"} /\ UNCHANGED compareVars \* a character, Backspace
    /\ UNCHANGED <<view, help, marker, filter, frozen, targetVars, quit>>

MarkerKey ==
    /\ Owner = "marker" /\ marker' \in {"none", "empty", "text"}
    /\ UNCHANGED <<view, help, baseline, filter, frozen, targetVars, quit, compareVars>>

\* Help owns the keys: it scrolls, closes, or gives way to a view.
HelpKey ==
    /\ Owner = "help"
    /\ \/ help' \in BOOLEAN /\ UNCHANGED view
       \/ help' = FALSE /\ view' \in Views
    /\ UNCHANGED <<baseline, marker, filter, frozen, targetVars, quit, compareVars>>

\* Letters edit the filter, Enter, Esc and the arrows end it.
FilterKey ==
    /\ Owner = "filter" /\ filter' \in BOOLEAN
    /\ UNCHANGED <<view, help, baseline, marker, frozen, targetVars, quit, compareVars>>

\* Keys of one view: /, F (which of the others change what is drawn only,
\* see Inspector and Timeline), B and R.
ViewKey ==
    /\ Owner = "view"
    /\ \/ view = "processes" /\ filter' = TRUE /\ UNCHANGED <<baseline, frozen, compareVars>>
       \/ view = "timeline" /\ frozen' = ~frozen /\ UNCHANGED <<baseline, filter, compareVars>>
       \/ view = "comparison" /\ Drained /\ baseline' = (IF Busy THEN baseline ELSE "empty") /\ UNCHANGED <<filter, frozen>>
       \/ view = "comparison" /\ Request(Kept) /\ UNCHANGED <<baseline, filter, frozen>>
    /\ UNCHANGED <<view, help, marker, targetVars, quit>>

\* The digits, Esc, ?, N, Q.  S, M, E and O change what is drawn or written.
GlobalKey ==
    /\ Owner = "view"
    /\ \/ view' \in Views /\ UNCHANGED <<help, marker, quit>>
       \/ help' = TRUE /\ UNCHANGED <<view, marker, quit>>
       \/ marker' = "empty" /\ UNCHANGED <<view, help, quit>>
       \/ quit' = TRUE /\ UNCHANGED <<view, help, marker>>
    /\ UNCHANGED <<baseline, filter, frozen, targetVars, compareVars>>

\* Space.  What a kill left paused is resumed with nothing to resume.
PauseKey ==
    /\ Owner = "view"
    /\ IF suspended
       THEN \/ suspended' = FALSE /\ target' = IF target = "stopped" THEN "running" ELSE target
            \/ target = "stopped" /\ UNCHANGED <<suspended, target>>
       ELSE \/ ~hosts /\ target = "running" /\ suspended' = TRUE /\ target' = "stopped"
            \/ UNCHANGED <<suspended, target>>
    /\ UNCHANGED <<inputVars, armed, warning, quit, compareVars>>

\* Mutation: a kill leaves the confirmation standing.
ArmedAfterKill_Standing == armed
ArmedAfterKill == 0

\* K.  A target that was attached needs a second press; a kill may leave
\* some of it.
KillKey ==
    /\ Owner = "view" /\ ~hosts /\ target # "gone"
    /\ IF attached /\ armed = 0
       THEN armed' = ConfirmTicks + 1 /\ warning' = ConfirmTicks + 1 /\ UNCHANGED target
       ELSE armed' = ArmedAfterKill /\ warning' = 0 /\ target' \in {target, "gone"}
    /\ UNCHANGED <<inputVars, suspended, quit, compareVars>>

NoKey == UNCHANGED <<inputVars, targetVars, quit, compareVars>>

HandleKey == BaselineKey \/ MarkerKey \/ HelpKey \/ FilterKey \/ ViewKey \/ GlobalKey \/ PauseKey \/ KillKey \/ NoKey

-----------------------------------------------------------------------------
(* The loop *)

\* A step that raises is logged, and the loop goes on.
Raises == troubled < MaxErrors /\ troubled' = troubled + 1

TakeSamples ==
    /\ loop = "poll" /\ ~quit /\ loop' = "key"
    /\ \/ shown' \in {shown, TRUE} /\ UNCHANGED troubled
       \/ Raises /\ UNCHANGED shown
    /\ UNCHANGED <<attached, hosts, inputVars, targetVars, quit, compareVars>>

TakeKey ==
    /\ loop = "key" /\ loop' = "draw"
    /\ \/ HandleKey /\ UNCHANGED troubled
       \/ Raises /\ NoKey
    /\ UNCHANGED <<attached, hosts, shown>>

\* Ctrl+D, Ctrl+Z, the end of the input, or the time limit.
InputEnds ==
    /\ loop = "key" /\ loop' = "draw" /\ quit' = TRUE
    /\ UNCHANGED <<attached, hosts, inputVars, targetVars, shown, compareVars, troubled>>

\* The comparison is taken in as it is drawn; a frame that cannot be drawn
\* is replaced by a notice.
DrawFrame ==
    /\ loop = "draw" /\ loop' = "poll"
    /\ \/ (IF view = "comparison" /\ ~help THEN Drained ELSE UNCHANGED compareVars) /\ UNCHANGED troubled
       \/ Raises /\ UNCHANGED compareVars
    /\ armed' = (IF armed > 0 THEN armed - 1 ELSE 0) /\ warning' = (IF warning > 0 THEN warning - 1 ELSE 0)
    /\ UNCHANGED <<attached, hosts, inputVars, target, suspended, shown, quit>>

Quit ==
    /\ loop = "poll" /\ quit /\ loop' = "shut down"
    /\ UNCHANGED <<attached, hosts, inputVars, targetVars, shown, quit, compareVars, troubled>>

CtrlC ==
    /\ loop \in {"poll", "key", "draw"} /\ loop' = "shut down"
    /\ UNCHANGED <<attached, hosts, inputVars, targetVars, shown, quit, compareVars, troubled>>

\* What was launched is stopped, what was attached is resumed and left.
ShutDown ==
    /\ loop = "shut down" /\ loop' = "over"
    /\ target' = IF ~attached THEN "gone" ELSE IF target = "stopped" THEN "running" ELSE target
    /\ UNCHANGED <<attached, hosts, inputVars, suspended, armed, warning, shown, quit, compareVars, troubled>>

TargetExits ==
    /\ loop # "over" /\ target = "running" /\ target' = "gone"
    /\ UNCHANGED <<loop, attached, hosts, inputVars, suspended, armed, warning, shown, quit, compareVars, troubled>>

DashboardLoop == TakeSamples \/ TakeKey \/ InputEnds \/ DrawFrame \/ Quit \/ ShutDown

DashboardNext == DashboardLoop \/ CtrlC \/ Work \/ TargetExits

DashboardSpec == DashboardInit /\ [][DashboardNext]_dashboardVars

-----------------------------------------------------------------------------
(* A target that was running before the dashboard is killed only after a   *)
(* warning of its own, at most three seconds ago: also when a first kill   *)
(* left some of it and K is pressed once more (_handle_key).               *)
KillIsConfirmed ==
    [][attached /\ loop = "key" /\ KillKey /\ armed' # ConfirmTicks + 1 => warning > 0]_dashboardVars

(* There is one comparison at a time and the view never waits for nothing: *)
(* it says it is loading exactly while a worker runs or its result was not *)
(* taken in, whatever became of the start of the thread; and a worker that *)
(* reports finds its place empty (_request_comparison).                    *)
OneComparison ==
    /\ loading <=> worker = "running" \/ results # "empty"
    /\ worker = "running" => results = "empty"
=============================================================================
