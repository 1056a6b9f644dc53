----------------------------- MODULE MCSession -----------------------------
(***************************************************************************)
(* A monitoring session and what comes of it: its timeline and the chart   *)
(* of it, the list of its processes, the report that is shared, and the    *)
(* queue in which reports wait for the team server.  They share no state:  *)
(* `part` says which of them a behaviour is of.                            *)
(***************************************************************************)
EXTENDS Session, UploadQueue, Timeline, Privacy

CONSTANTS i1, i2

VARIABLES
    part, points,
    snapshot, selected, order, query, searching, focus, expanded, detail, scroll, drawn

MCItems == {i1, i2}

Process(pid, born, parent, name, growth) ==
    [pid |-> pid, born |-> born, parent |-> parent, name |-> name, growth |-> growth]

\* A tree, one with another child, one with a reused PID, an unknown time
\* of creation and a ring of parents, and one that has ended.
MCSnapshots ==
    {[live |-> <<Process(1, 1, 0, "a", 3), Process(2, 2, 1, "b", 5), Process(3, 3, 2, "b", 0)>>, exited |-> <<>>],
     [live |-> <<Process(1, 1, 0, "a", 4), Process(4, 4, 1, "a", 1)>>,
      exited |-> <<Process(3, 3, 2, "b", 2), Process(2, 2, 1, "b", 5)>>],
     [live |-> <<Process(1, 1, 0, "a", 0), Process(2, 0, 3, "a", 9), Process(3, 6, 2, "b", 8)>>,
      exited |-> <<Process(2, 2, 1, "b", 5)>>],
     [live |-> <<>>, exited |-> <<Process(1, 1, 0, "a", 0)>>]}

Inspecting == INSTANCE Inspector
                WITH Snapshots <- MCSnapshots, RootPid <- 1, Names <- {"a", "b"}, Heights <- {3, 5}, MaxDetail <- 1

\* A PID used twice, two processes that started together, a parent that is
\* not among them, a status no host has, and times out of order.
Watched(pid, parent, time, status, bytes) ==
    [pid |-> pid, ppid |-> parent, create_time |-> time, name |-> "x", unlisted |-> "x", status |-> status,
     private_bytes |-> bytes]
Unmeasured == [snapshots |-> <<>>, exited |-> <<>>, event_log |-> <<>>, markers |-> <<>>]
MCPrivate ==
    {Unmeasured} \cup
    {[snapshots |-> <<[timestamp |-> 3, totals |-> 5, processes |-> <<Watched(2, 1, 1, "running", 3),
                                                                      Watched(1, 3, 1, "x", 2)>>],
                      [timestamp |-> 1, totals |-> 5, processes |-> <<Watched(3, 2, time, "running", 3),
                                                                      Watched(2, 3, 2, "sleeping", 4)>>]>>,
      exited |-> exited, event_log |-> <<[timestamp |-> at, message |-> "x"]>>,
      markers |-> <<[timestamp |-> 2, label |-> "x"], [timestamp |-> 1, label |-> "y"]>>] :
         time \in {1, 2}, at \in {0, 4},
         exited \in {<<>>, <<Watched(2, 1, 1, "x", 3), Watched(3, 1, 2, "running", 1)>>}}

inspectorVars == <<snapshot, selected, order, query, searching, focus, expanded, detail, scroll, drawn>>
shownVars == <<part, points, vars, uploadVars, timelineVars, inspectorVars, privacyVars>>

Charts == UNION {[1..n -> [time : 0..4, value : 0..2]] : n \in 1..3}

ShownInit ==
    /\ \/ part \in {"session", "uploads", "timeline", "list", "shared"} /\ points = <<>>
       \/ part = "chart" /\ points \in Charts
    /\ part # "list" => snapshot = CHOOSE s \in MCSnapshots : s.live = <<>>
    /\ part # "shared" => profile = "share" /\ original = Unmeasured
    /\ Init /\ UploadInit /\ TimelineInit /\ Inspecting!InspectorInit /\ PrivacyInit
    /\ part # "session" => attached

Only(p) ==
    /\ part = p /\ UNCHANGED <<part, points>>
    /\ p # "session" => UNCHANGED vars
    /\ p # "uploads" => UNCHANGED uploadVars
    /\ p # "timeline" => UNCHANGED timelineVars
    /\ p # "list" => UNCHANGED inspectorVars
    /\ p # "shared" => UNCHANGED privacyVars

ShownNext ==
    \/ Only("session") /\ Next
    \/ Only("uploads") /\ UploadNext
    \/ Only("timeline") /\ TimelineNext
    \/ Only("list") /\ Inspecting!InspectorNext
    \/ Only("shared") /\ PrivacyNext

\* The main thread of the session runs, while it is the one that is there.
ShownSpec ==
    ShownInit /\ [][ShownNext]_shownVars /\ WF_vars(part = "session" /\ Main)

-----------------------------------------------------------------------------
(* Nothing a view is about is left off the screen: the selected process,   *)
(* the peaks of a chart, the lines of a text (see Inspector.SelectionInView*)
(* and TextReachable, Timeline.ChartKeepsPeaks).                           *)
ScreenTellsAll ==
    /\ part = "list" => Inspecting!SelectionInView
    /\ part = "chart" => \A columns \in 1..4, gap \in 1..2 : ChartKeepsPeaks(points, columns, gap)
    /\ part = "chart" /\ Len(points) = 3 =>
           LET lengths == [i \in DOMAIN points |-> points[i].value + 1]
           IN \A lines \in 0..5, offset \in {0, 1, 2, 3, Inspecting!Far} :
                  Inspecting!TextReachable(lines, offset, points[1].time, lengths)

(* A reused PID is never confused with the process that was selected (see  *)
(* Inspector.SelectionNotConfused; view_processes.py:8).                   *)
SelectionFollows == part = "list" => Inspecting!SelectionNotConfused
=============================================================================
