----------------------------- MODULE Inspector -----------------------------
(***************************************************************************)
(* The process inspector of the dashboard (src/src/view_processes.py) and  *)
(* the lists it shares with the other views (src/src/dashboard.py): live   *)
(* and exited processes in an order, filtered, scrolled, one selected.     *)
(*                                                                         *)
(* A process is [pid, born, parent, name, growth]; what is unknown is 0.   *)
(* Columns, widths and the detail of a process are left out.               *)
(***************************************************************************)
EXTENDS Integers, FiniteSets, SequencesExt

CONSTANTS
    Snapshots,  \* [live, exited]: sequences of processes, exited newest last
    RootPid,    \* of the monitored tree
    Names,      \* what may be searched for
    Heights,    \* rows a terminal may have for the list
    MaxDetail   \* bound: lines the detail of a process has below its panel

VARIABLES
    snapshot,   \* the one on screen
    selected,   \* _proc_selected: [pid, born]; pid 0 is None
    order,      \* _proc_order: "tree" or "growth"
    query,      \* _proc_query, a name or "" for none
    searching,  \* _proc_searching
    focus, expanded, detail, scroll,
    drawn       \* the last frame: its rows and those shown

inspectorVars == <<snapshot, selected, order, query, searching, focus, expanded, detail, scroll, drawn>>
searchVars == <<query, searching>>
paneVars == <<focus, expanded, detail>>

Far == 1000000
NobodySelected == [pid |-> 0, born |-> 0]
NotDrawn == [rows |-> <<>>, shown |-> <<>>]

InspectorInit ==
    /\ snapshot \in Snapshots
    /\ selected = NobodySelected /\ order = "tree" /\ query = "" /\ searching = FALSE
    /\ focus = "list" /\ expanded = FALSE /\ detail = 0 /\ scroll = 0 /\ drawn = NotDrawn

Identity(p) == [pid |-> p.pid, born |-> p.born]
Identities(rows) == {Identity(rows[i]) : i \in DOMAIN rows}

\* _same: one unknown creation time matches any.
Same(a, b) == a.pid = b.pid /\ (a.born = 0 \/ b.born = 0 \/ a.born = b.born)

-----------------------------------------------------------------------------
(* _tree_order: depth first from the root and from those with no parent in *)
(* the snapshot, by PID                                                    *)

ByPid(procs) == SetToSortSeq(procs, LAMBDA a, b : a.pid < b.pid)

RECURSIVE DepthFirst(_, _, _)
DepthFirst(stack, children, ordered) ==
    IF stack = <<>> THEN ordered
    ELSE LET top == Head(stack)
         IN IF top \in ToSet(ordered) THEN DepthFirst(Tail(stack), children, ordered)
            ELSE DepthFirst(ByPid(children[top.pid]) \o Tail(stack), children, Append(ordered, top))

Unreached(live, ordered) == SelectSeq(live, LAMBDA p : p \notin ToSet(ordered))

TreeOrder(live) ==
    LET all == ToSet(live)
        pids == {p.pid : p \in all}
        isChild(p) == p.pid # RootPid /\ p.parent # p.pid /\ p.parent \in pids
        roots == {p \in all : ~isChild(p)}
        children == [pid \in pids |-> {p \in all : isChild(p) /\ p.parent = pid}]
        first == {p \in roots : p.pid = RootPid}
        ordered == DepthFirst(ByPid(first) \o ByPid(roots \ first), children, <<>>)
    IN ordered \o Unreached(live, ordered)

\* Largest growth first, unknown growth last, then by PID.
ByGrowth(procs) ==
    SetToSortSeq(ToSet(procs),
                 LAMBDA a, b : (a.growth # 0 /\ (b.growth = 0 \/ a.growth > b.growth)) \/ (a.growth = b.growth /\ a.pid < b.pid))

InspectorRows ==
    LET live == IF order = "tree" THEN TreeOrder(snapshot.live) ELSE ByGrowth(snapshot.live)
        gone == SelectSeq(Reverse(snapshot.exited), LAMBDA p : Identity(p) \notin Identities(live))
        exited == IF order = "tree" THEN gone ELSE ByGrowth(gone)
    IN SelectSeq(live \o exited, LAMBDA p : query \in {"", p.name})

SelectedIndex(rows) == SelectInSeq(rows, LAMBDA p : Same(Identity(p), selected))

-----------------------------------------------------------------------------
(* Keys.  Each takes the frame off the screen until the next is drawn.     *)

Key == drawn' = NotDrawn /\ UNCHANGED snapshot

\* Without a selection the first row is the implicit one; one that left
\* every list starts again at the top.
MoveSelection(step) ==
    LET rows == InspectorRows
        at == SelectedIndex(rows)
        from == IF at = 0 THEN 1 ELSE at
        to == IF at = 0 /\ selected # NobodySelected THEN 1 ELSE Min({Max({1, from + step}), Len(rows)})
    IN IF rows = <<>> THEN UNCHANGED <<selected, detail>>
       ELSE selected' = Identity(rows[to]) /\ detail' = 0

Steps == {-1, 1, -Far, Far}

\* While the filter is typed only these end it.  The next frame keeps the
\* detail's offset within its lines (_scrolled).
Step(step) ==
    /\ Key /\ searching' = FALSE
    /\ IF focus = "detail" THEN detail' = Max({0, Min({detail + step, MaxDetail})}) /\ UNCHANGED selected ELSE MoveSelection(step)
    /\ UNCHANGED <<order, query, focus, expanded, scroll>>

Slash ==
    /\ Key /\ ~searching /\ searching' = TRUE /\ UNCHANGED <<selected, order, query, paneVars, scroll>>

TypeFilter ==
    /\ Key /\ searching /\ query' \in Names \cup {""} /\ UNCHANGED <<selected, order, searching, paneVars, scroll>>

EndFilter ==
    /\ Key /\ searching' = FALSE
    /\ \/ (searching \/ query # "") /\ query' = ""
       \/ searching /\ UNCHANGED query
    /\ UNCHANGED <<selected, order, paneVars, scroll>>

NextOrder ==
    /\ Key /\ ~searching /\ order' = IF order = "tree" THEN "growth" ELSE "tree"
    /\ UNCHANGED <<selected, searchVars, paneVars, scroll>>

Tab ==
    /\ Key /\ ~searching /\ focus' = IF focus = "list" THEN "detail" ELSE "list"
    /\ UNCHANGED <<selected, order, searchVars, expanded, detail, scroll>>

Expand ==
    /\ Key /\ ~searching /\ expanded' = ~expanded /\ focus' = IF expanded THEN "list" ELSE "detail"
    /\ UNCHANGED <<selected, order, searchVars, detail, scroll>>

NextSnapshot ==
    /\ snapshot' \in Snapshots /\ drawn' = NotDrawn
    /\ UNCHANGED <<selected, order, searchVars, paneVars, scroll>>

-----------------------------------------------------------------------------
(* Drawing *)

\* One row goes to the caption when not all fit.
Capacity(rows, height) ==
    LET room == Max({1, height - 2}) IN IF Len(rows) > room THEN Max({1, room - 1}) ELSE room

\* Mutation: the window follows one row late.
Scrolled_Late(index, n, capacity) ==
    Min({IF index < scroll THEN index ELSE IF index > scroll + capacity THEN index - capacity ELSE scroll, Max({0, n - capacity})})
\* It moves only when the selection leaves it.
Scrolled(index, n, capacity) ==
    Min({IF index < scroll THEN index ELSE IF index >= scroll + capacity THEN index - capacity + 1 ELSE scroll,
         Max({0, n - capacity})})

Draw(height) ==
    LET rows == InspectorRows
        at == SelectedIndex(rows)
        implicit == selected = NobodySelected /\ rows # <<>>
        index == IF at > 0 THEN at - 1 ELSE 0
        capacity == Capacity(rows, height)
        top == Scrolled(index, Len(rows), capacity)
    IN /\ drawn = NotDrawn /\ rows # <<>>
       /\ selected' = IF implicit THEN Identity(rows[1]) ELSE selected
       /\ IF expanded THEN drawn' = [rows |-> rows, shown |-> <<>>] /\ UNCHANGED scroll
          ELSE /\ scroll' = top
               /\ drawn' = [rows |-> rows, shown |-> SubSeq(rows, top + 1, Min({top + capacity, Len(rows)}))]
       /\ UNCHANGED <<snapshot, order, searchVars, paneVars>>

InspectorNext ==
    \/ \E step \in Steps : Step(step)
    \/ Slash \/ TypeFilter \/ EndFilter \/ NextOrder \/ Tab \/ Expand
    \/ NextSnapshot \/ \E height \in Heights : Draw(height)

InspectorSpec == InspectorInit /\ [][InspectorNext]_inspectorVars

-----------------------------------------------------------------------------
(* Lists with no selection: lines from an offset that is kept within them, *)
(* the last line of the panel telling what follows (_scrolled); and the    *)
(* newest events that fit, of one or two lines each (_event_table).        *)

Window(lines, offset, height) ==
    IF lines <= height THEN [offset |-> 0, shown |-> 0..lines - 1, below |-> 0]
    ELSE LET o == Min({offset, lines - height + 1})
         IN [offset |-> o, shown |-> o..o + height - 2, below |-> lines - o - (height - 1)]

EventRows(lengths, budget) ==
    LET Used(rows) == FoldSeq(+, 0, rows)
    IN FoldLeft(LAMBDA rows, n : IF Used(rows) >= budget THEN rows
                                 ELSE <<Min({n, 2, budget - Used(rows)})>> \o rows,
                <<>>, Reverse(lengths))

-----------------------------------------------------------------------------
(* The list shows what it is about: every live process and every one that  *)
(* exited has exactly one row, whatever its parent links are; the process  *)
(* that was selected is among the rows on screen when it is in the list at *)
(* all, after every filter, order, sample and size.  The exception is one  *)
(* whose PID is also that of a row with an unknown creation time: then one *)
(* of those it may be is on screen (_inspector_rows, _process_list_table,  *)
(* _tree_order, _same; see SelectionNotConfused).                          *)
SelectionInView ==
    /\ query = "" =>
         /\ Identities(InspectorRows) = Identities(snapshot.live) \cup Identities(snapshot.exited)
         /\ Len(InspectorRows) = Cardinality(Identities(InspectorRows))
    /\ drawn.shown # <<>> =>
         /\ selected \in Identities(drawn.rows) /\ [selected EXCEPT !.born = 0] \notin Identities(drawn.rows)
            => selected \in Identities(drawn.shown)
         /\ (\E one \in Identities(drawn.rows) : Same(one, selected))
            => \E one \in Identities(drawn.shown) : Same(one, selected)

(* "Selection follows a process identity (PID plus creation time) across   *)
(* refreshes, so a reused PID is never confused with the process that was  *)
(* selected" (view_processes.py:7-9): while the selected process is listed,*)
(* its row is the one that is taken as selected.                           *)
SelectionNotConfused ==
    LET rows == InspectorRows
    IN selected \in Identities(rows) => Identity(rows[SelectedIndex(rows)]) = selected

(* Every line of a long text can be reached and none is skipped between    *)
(* two pages, and the newest events are the ones on screen.                *)
TextReachable(lines, offset, height, lengths) ==
    LET w == Window(lines, offset, height)
        rows == EventRows(lengths, height)
    IN height > 1 =>
       /\ Cardinality(w.shown) = Min({lines, IF lines <= height THEN lines ELSE height - 1})
       /\ \A i \in w.shown : i \in 0..lines - 1
       /\ w.below = Cardinality({i \in 0..lines - 1 : \A j \in w.shown : i > j})
       /\ offset = Far /\ lines > 0 => lines - 1 \in w.shown
       /\ FoldSeq(+, 0, rows) <= height /\ (lengths # <<>> => rows # <<>>)
=============================================================================
