--------------------------- MODULE ProcessControl ---------------------------
(***************************************************************************)
(* ProcessManager (src/src/process_runner.py): launching or attaching to a *)
(* program, discovering its process tree by PID, and pausing, resuming,    *)
(* detaching, terminating and killing that tree.                           *)
(*                                                                         *)
(* A PID names whichever process holds it now.  Every process has a birth  *)
(* number, its creation time; the manager remembers the birth number it    *)
(* saw and must never take a later holder of the PID for the process it    *)
(* tracked.  The operating system runs between any two steps of an         *)
(* operation: processes fork, exit, are stopped by their user, lose and    *)
(* regain readability, and their PIDs are reused.                          *)
(*                                                                         *)
(* The RLock of the manager is "op": while an operation is under way, no   *)
(* other operation and no refresh of the poll thread runs.  Opening a PID, *)
(* comparing its creation time and signalling it is one step (psutil's     *)
(* Process object repeats the comparison right before the system call),    *)
(* and so is one refresh of the tree.  Depths only order the signals       *)
(* ("parents first" and "children first" are heuristics): every order is   *)
(* allowed here.                                                           *)
(***************************************************************************)
EXTENDS Naturals

CONSTANTS
    Pids,            \* process IDs
    NoPid,           \* Python's None as a PID; also "init" as a parent
    Monitor,         \* PIDs of DrainTracer and the processes it runs inside
    Born0,           \* birth numbers of the processes present at the start
    Parent0,         \* their parents
    Kin0,            \* the births each of them descends from, itself included
    Clock0,          \* the last birth number given out
    MaxBirths,       \* bound: no process is born after this birth
    Deniable,        \* bound: the PIDs whose holder may be unreadable
    Linux,           \* TRUE: Linux, FALSE: Windows
    RebindLive,      \* may start()/attach() run while members are tracked?
    FleetingHolders  \* may a process that took over a member's PID exit
                     \* while the manager still remembers that member?

ASSUME PidsAssumption ==
    /\ NoPid \notin Pids
    /\ Monitor \subseteq Pids /\ Deniable \subseteq Pids
ASSUME BirthAssumption ==
    /\ MaxBirths \in Nat /\ Clock0 \in 0..MaxBirths
    /\ Born0 \in [Pids -> 0..Clock0]
    /\ \A p, q \in Pids : Born0[p] # 0 /\ Born0[p] = Born0[q] => p = q
    /\ Parent0 \in [Pids -> Pids \cup {NoPid}]
    /\ Kin0 \in [Pids -> SUBSET (1..Clock0)]
\* Who is alive descends from itself and from its parent, unless the parent's
\* PID was taken over later; DrainTracer is there from the start.
ASSUME FamilyAssumption ==
    /\ \A p \in Pids : Born0[p] # 0 => Born0[p] \in Kin0[p]
    /\ \A p, c \in Pids :
         Parent0[c] = p /\ Born0[p] # 0 /\ Born0[c] >= Born0[p] => Kin0[p] \subseteq Kin0[c]
    /\ \A p \in Monitor : Born0[p] # 0
ASSUME SwitchAssumption ==
    /\ Linux \in BOOLEAN /\ RebindLive \in BOOLEAN
    /\ FleetingHolders \in BOOLEAN

VARIABLES
    \* the operating system
    clock,       \* number of processes born so far
    born,        \* birth number of the holder of each PID, 0 for a free PID
    parent,      \* PID of its parent, as the system reports it
    stop,        \* who keeps it stopped: "ours", "user"
    inSession,   \* PIDs in the session of the launched root (Linux)
    denied,      \* PIDs whose creation time cannot be read now
    \* ProcessManager
    root,        \* _root_pid
    rootCreated, \* _root_created, 0 for None
    attached,    \* _attached
    popen,       \* _process: "none", "live" or "reaped"
    sessionKnown,\* _linux_session_id is not None
    tracked,     \* _tracked_pids
    ident,       \* _identities, 0 for an absent entry
    suspended,   \* _suspended_pids
    paused,      \* _paused
    departed,    \* _departed
    poll,        \* the poll thread: "none", "sleep", "want" the lock, or
                 \* "ending": it wants the lock with _poll_stop already set
    \* the operation that holds the lock
    op, phase, todo, remaining, signaled,
    \* history
    rootBirth,   \* the process the user chose
    kin,         \* the births each live process descends from
    halted,      \* births DrainTracer suspended and has not resumed since
    known,       \* births tracked under their own identity so far
    strayed      \* has a control reached a process outside the tree?

tableVars == <<clock, born, parent, inSession, kin>>
osVars == <<tableVars, stop, halted, denied>>
bindVars == <<root, rootCreated, attached, popen, rootBirth>>
treeVars == <<sessionKnown, tracked, ident, departed, known>>
debtVars == <<suspended, paused>>
opVars == <<op, phase, todo, remaining, signaled>>
managerVars == <<bindVars, treeVars, debtVars, poll, opVars, strayed>>
vars == <<osVars, managerVars>>

Births == 0..MaxBirths
Ops == {"none", "attach", "pause", "resume", "detach", "terminate", "kill"}
Phases == {"idle", "bound", "suspend", "resume", "signal", "look", "decide"}
Gone == [created : Births, goneAt : Births]
NoneDeparted == [p \in {} |-> 0]

TypeOK ==
    /\ clock \in Births
    /\ born \in [Pids -> Births]
    /\ parent \in [Pids -> Pids \cup {NoPid}]
    /\ stop \in [Pids -> SUBSET {"ours", "user"}]
    /\ inSession \subseteq Pids
    /\ denied \subseteq Pids
    /\ root \in Pids \cup {NoPid}
    /\ rootCreated \in Births
    /\ attached \in BOOLEAN
    /\ popen \in {"none", "live", "reaped"}
    /\ sessionKnown \in BOOLEAN
    /\ tracked \subseteq Pids
    /\ ident \in [Pids -> Births]
    /\ suspended \subseteq Pids
    /\ paused \in BOOLEAN
    /\ DOMAIN departed \subseteq Pids
    /\ departed \in [DOMAIN departed -> Gone]
    /\ poll \in {"none", "sleep", "want", "ending"}
    /\ op \in Ops /\ phase \in Phases
    /\ todo \subseteq Pids /\ remaining \subseteq Pids /\ signaled \subseteq Pids
    /\ rootBirth \in Births
    /\ kin \in [Pids -> SUBSET (1..MaxBirths)]
    /\ halted \subseteq Births
    /\ known \subseteq Births
    /\ strayed \in BOOLEAN

Init ==
    /\ clock = Clock0 /\ born = Born0 /\ parent = Parent0 /\ kin = Kin0
    /\ stop = [p \in Pids |-> {}]
    /\ inSession = {} /\ denied = {}
    /\ root = NoPid /\ rootCreated = 0 /\ attached = FALSE /\ popen = "none"
    /\ sessionKnown = FALSE
    /\ tracked = {} /\ ident = [p \in Pids |-> 0] /\ departed = NoneDeparted
    /\ suspended = {} /\ paused = FALSE
    /\ poll = "none"
    /\ op = "none" /\ phase = "idle"
    /\ todo = {} /\ remaining = {} /\ signaled = {}
    /\ rootBirth = 0 /\ halted = {} /\ known = {} /\ strayed = FALSE

-----------------------------------------------------------------------------
(* Opening a PID: _open_tracked_unlocked *)

\* The creation time a tracked PID is compared with; the root's outlives
\* its entry in _identities.
Expected(p) == IF ident[p] = 0 /\ p = root THEN rootCreated ELSE ident[p]

\* A creation time as psutil reads it, 0 when the read is denied.
Seen(p) == IF p \in denied THEN 0 ELSE born[p]

\* Mutation: an unreadable creation time is taken for another process.
ProvenGone_UnreadableIsGone(p) ==
    born[p] = 0 \/ (Expected(p) # 0 /\ Seen(p) # Expected(p))

\* Mutation: a reused PID is not noticed.
ProvenGone_ReuseIgnored(p) == born[p] = 0

\* The open proved that the tracked process is gone: no holder, or another
\* one.  An unreadable holder proves nothing.
ProvenGone(p) ==
    \/ born[p] = 0
    \/ p \notin denied /\ Expected(p) # 0 /\ born[p] # Expected(p)

\* _pid_is_alive: only tracked PIDs and the root are ever opened.
PidIsAlive(p) == p \in tracked \cup {root} /\ ~ProvenGone(p)

\* open for_control: the identity is known, readable and the same, and so
\* is the root's.
MayControl(p) ==
    /\ PidIsAlive(p)
    /\ p \notin denied
    /\ Expected(p) # 0
    /\ rootCreated # 0

IsRunning ==
    IF attached
    THEN root # NoPid /\ PidIsAlive(root)
    ELSE popen = "live" /\ root # NoPid /\ born[root] = rootBirth

\* Mutation: the tree is never recognised as DrainTracer's own.
ContainsMonitor_Never == FALSE

ContainsMonitor == attached /\ root \in Monitor

IsMonitor(p) == attached /\ p \in Monitor

-----------------------------------------------------------------------------
(* One refresh of the tree: _refresh_tracked_pids, _walk_tree and           *)
(* _linux_session_members                                                   *)

\* Another process holds the PID: its creation time, or 0.
ReusedSince(p, original) ==
    IF Seen(p) = 0 \/ (original # 0 /\ Seen(p) = original) THEN 0 ELSE Seen(p)

\* Mutation: the process that took the PID over is not consulted.
OrphanOf_HolderIgnored(gone, holder, created) == created # 0 /\ created <= gone.goneAt

OrphanOf(gone, holder, created) ==
    /\ created # 0
    /\ created <= gone.goneAt
    /\ holder = 0 \/ created < holder

\* The session is searched unless its leader's PID has a new holder.
SessionUsable == sessionKnown /\ ReusedSince(root, rootCreated) = 0

SessionMembers ==
    IF SessionUsable THEN {p \in inSession : ~ProvenGone(p)} ELSE {}

\* Members whose parent has left the session; the walk finds the others.
SessionRoots == {p \in SessionMembers : parent[p] \notin SessionMembers}

\* Identities after the session was searched (open with discovering=True).
IdentAfterSession ==
    [p \in Pids |-> IF p \in SessionMembers /\ Expected(p) = 0
                    THEN Seen(p) ELSE ident[p]]

\* _departed once the newly dead are entered and the ones older than
\* DEPARTED_SECONDS (gone before "cut") are dropped.
DepartedAfter(alive, cut) ==
    LET fresh == (tracked \ alive) \ DOMAIN departed
        kept == {p \in DOMAIN departed : departed[p].goneAt >= cut}
    IN [p \in fresh \cup kept |->
          IF p \in fresh THEN [created |-> Expected(p), goneAt |-> clock]
                         ELSE departed[p]]

\* The tests a child listed under "p" passes on its way into the tree.
Joins(c, members, created, gone) ==
    /\ c \notin members
    /\ born[c] # 0
    /\ ~IsMonitor(c)
    /\ created = 0 \/ Seen(c) = 0 \/ Seen(c) >= created
    /\ c \in DOMAIN gone =>
         Seen(c) # 0 /\ gone[c].created # 0 /\ Seen(c) # gone[c].created

ChildOfDeparted(p, c, members, gone) ==
    /\ parent[c] = p /\ c # p
    /\ Joins(c, members, gone[p].created, gone)
    /\ OrphanOf(gone[p], ReusedSince(p, gone[p].created), Seen(c))

ChildOfLive(p, c, members, created, gone) ==
    /\ parent[c] = p /\ c # p
    /\ Joins(c, members, created, gone)

\* What the walk adds to "members": the smallest set closed under adoption.
Adopted(members, gone) ==
    LET Closed(S) ==
          \A c \in Pids :
            \/ \E p \in DOMAIN gone : ChildOfDeparted(p, c, members, gone)
            \/ \E p \in members \ DOMAIN gone :
                 ChildOfLive(p, c, members, IdentAfterSession[p], gone)
            \/ \E p \in S : ChildOfLive(p, c, members, Seen(p), gone)
            => c \in S
    IN {c \in Pids : \A S \in SUBSET Pids : Closed(S) => c \in S}

\* The manager's view of the tree after one refresh.
Refreshed(cut) ==
    LET alive == {p \in tracked : PidIsAlive(p)}
        gone == DepartedAfter(alive, cut)
        found == alive \cup SessionRoots
        new == Adopted(found, gone)
        members == found \cup new
        keep == DOMAIN gone \ new
    IN IF root = NoPid
       THEN [tracked |-> tracked, suspended |-> suspended, ident |-> ident,
             departed |-> departed, sessionKnown |-> sessionKnown,
             known |-> known]
       ELSE [tracked |-> members,
             suspended |-> {p \in suspended : ~ProvenGone(p)} \cap members,
             ident |-> [p \in Pids |->
                          IF p \notin members THEN 0
                          ELSE IF p \in new /\ Seen(p) # 0 THEN Seen(p)
                          ELSE IdentAfterSession[p]],
             departed |-> [p \in keep |-> gone[p]],
             sessionKnown |-> SessionUsable,
             known |-> known \cup {IdentAfterSession[p] : p \in found}
                             \cup {Seen(p) : p \in new}]

\* A cut of 0 keeps every departed entry; clock + 1 drops all old ones.
Cuts == {0} \cup {departed[p].goneAt + 1 : p \in DOMAIN departed}

Install(view) ==
    /\ tracked' = view.tracked
    /\ suspended' = view.suspended
    /\ ident' = view.ident
    /\ departed' = view.departed
    /\ sessionKnown' = view.sessionKnown
    /\ known' = view.known

-----------------------------------------------------------------------------
(* The poll thread *)

\* _stop_poll_thread: a sleeping thread ends at once; one that already waits
\* for the lock outlives the join, whose caller holds that lock.
StopPollThread == poll' = IF poll \in {"want", "ending"} THEN "ending" ELSE "none"

\* _start_poll_thread: nothing to do for a thread that is still alive.
StartPollThread == poll' = IF poll = "none" THEN "sleep" ELSE poll

\* The wait of _poll_loop times out; the thread asks for the lock.
PollWake ==
    /\ poll = "sleep"
    /\ poll' = "want"
    /\ UNCHANGED <<osVars, bindVars, treeVars, debtVars, opVars, strayed>>

\* One pass of _poll_loop under the lock; it ends with the tree or when the
\* stop event was set meanwhile.
PollRefresh ==
    /\ op = "none" /\ poll \in {"want", "ending"}
    /\ \E cut \in Cuts :
         LET view == Refreshed(cut)
             over == view.tracked = {} /\ (attached \/ (popen # "none" /\ ~IsRunning))
         IN /\ Install(view)
            /\ poll' = IF over \/ poll = "ending" THEN "none" ELSE "sleep"
    /\ popen' = IF popen = "live" /\ ~IsRunning THEN "reaped" ELSE popen
    /\ UNCHANGED <<osVars, root, rootCreated, attached, rootBirth, paused, opVars, strayed>>

\* refresh_process_tree: the sampling thread refreshes before each sample.
RefreshProcessTree ==
    /\ op = "none" /\ root # NoPid
    /\ \E cut \in Cuts : Install(Refreshed(cut))
    /\ UNCHANGED <<osVars, bindVars, paused, poll, opVars, strayed>>

-----------------------------------------------------------------------------
(* The operation under way *)

Enter(newOp, newPhase, pids) ==
    /\ op' = newOp /\ phase' = newPhase /\ todo' = pids

Idle == Enter("none", "idle", {}) /\ remaining' = {} /\ signaled' = {}

-----------------------------------------------------------------------------
(* Binding the manager to a program *)

\* Callers bind one manager to one program at a time; the code itself only
\* refuses while the root runs.
MayRebind == ~IsRunning /\ (tracked = {} \/ RebindLive)

\* PIDs the kernel keeps back: a launched root's while it is not reaped
\* (Linux) or its handle is open (Windows), and a session's while it lasts.
Reserved(p) ==
    /\ p = root
    /\ IF Linux THEN popen = "live" \/ inSession # {} ELSE popen # "none"

Bind(p, created, launched) ==
    /\ root' = p
    /\ rootCreated' = created
    /\ tracked' = {p}
    /\ ident' = [q \in Pids |-> IF q = p THEN created ELSE 0]
    /\ departed' = NoneDeparted
    /\ suspended' = {} /\ paused' = FALSE
    /\ attached' = ~launched
    /\ popen' = IF launched THEN "live" ELSE "none"
    /\ sessionKnown' = (launched /\ Linux)
    /\ known' = {created}

\* start(): a new process on a free PID.
Start(p) ==
    /\ op = "none" /\ MayRebind
    /\ born[p] = 0 /\ ~Reserved(p) /\ clock < MaxBirths
    /\ clock' = clock + 1
    /\ born' = [born EXCEPT ![p] = clock + 1]
    /\ parent' = [parent EXCEPT ![p] = NoPid]
    /\ stop' = [stop EXCEPT ![p] = {}]
    /\ inSession' = IF Linux THEN {p} ELSE {}
    /\ kin' = [kin EXCEPT ![p] = {clock + 1}]
    /\ rootBirth' = clock + 1
    /\ Bind(p, IF p \in denied THEN 0 ELSE clock + 1, TRUE)
    /\ StartPollThread
    /\ UNCHANGED <<halted, denied, opVars, strayed>>

\* attach(pid, expected_create_time): "picked" is the creation time the
\* picker saw, 0 when the user typed a PID.  DrainTracer refuses itself, not
\* the processes it runs inside.
Attach(p, picked) ==
    /\ op = "none" /\ MayRebind
    /\ born[p] # 0
    /\ p \notin Monitor \/ \E q \in Monitor : parent[q] = p
    /\ picked # 0 => Seen(p) # 0 /\ Seen(p) = picked
    /\ rootBirth' = born[p]
    /\ Bind(p, Seen(p), FALSE)
    /\ Enter("attach", "bound", {})
    /\ UNCHANGED <<osVars, poll, remaining, signaled, strayed>>

\* The refresh attach() ends with, still under the lock.
AttachDone ==
    /\ op = "attach"
    /\ Install(Refreshed(0))
    /\ StartPollThread
    /\ Idle
    /\ UNCHANGED <<osVars, bindVars, paused, strayed>>

Release ==
    /\ root' = NoPid /\ popen' = "none" /\ sessionKnown' = FALSE
    /\ tracked' = {} /\ ident' = [p \in Pids |-> 0]
    /\ departed' = NoneDeparted
    /\ known' = {} /\ rootBirth' = 0
    /\ UNCHANGED <<rootCreated, attached>>

-----------------------------------------------------------------------------
(* pause, resume and detach *)

\* The head of pause().  Its early returns change at most what a refresh
\* changes: nothing runs any more, everything is paused already, or the
\* tree contains DrainTracer.
PauseBegin ==
    /\ op = "none" /\ root # NoPid /\ ~ContainsMonitor
    /\ \E cut \in Cuts :
         LET view == Refreshed(cut)
             all == IF IsRunning THEN tracked ELSE view.tracked
             owed == IF IsRunning THEN suspended ELSE view.suspended
         IN /\ IsRunning \/ view.tracked # {}
            /\ ~(paused /\ all \subseteq owed)
            /\ Install(view)
            /\ Enter("pause", "suspend", view.tracked)
    /\ UNCHANGED <<osVars, bindVars, paused, poll, remaining, signaled, strayed>>

\* A control is delivered to the process that holds "p".
Stray(p) == rootBirth \notin kin[p] \/ p \in Monitor
Reaches(p) == strayed' = (strayed \/ Stray(p))

\* Mutation: a process its user stopped is suspended all the same.
AlreadyStopped_Unchecked(p) == FALSE

\* SIGSTOP has no count: on Linux a stop of the user's is left alone.
AlreadyStopped(p) == Linux /\ stop[p] # {}

\* What is DrainTracer's doing: on Linux it stops only what runs.
Halts(p) == halted' = IF Linux /\ stop[p] # {} THEN halted ELSE halted \cup {born[p]}

\* _suspend_pid succeeds.  On Linux a process that is stopped already is
\* left out of the later resume.
SuspendNext(p) ==
    /\ op = "pause" /\ phase = "suspend" /\ p \in todo
    /\ p \notin suspended => MayControl(p)
    /\ todo' = todo \ {p}
    /\ IF p \in suspended \/ AlreadyStopped(p)
       THEN UNCHANGED <<suspended, stop, halted, strayed>>
       ELSE /\ suspended' = suspended \cup {p}
            /\ stop' = [stop EXCEPT ![p] = @ \cup {"ours"}]
            /\ Halts(p)
            /\ Reaches(p)
    /\ UNCHANGED <<tableVars, denied, bindVars, treeVars, paused, poll, op, phase, remaining, signaled>>

\* _suspend_pid fails, at the open or because the system denies the call:
\* everything suspended so far is resumed again.
SuspendFails(p) ==
    /\ op = "pause" /\ phase = "suspend" /\ p \in todo
    /\ p \notin suspended /\ (~MayControl(p) \/ p \in Deniable)
    /\ Enter("pause", "resume", suspended)
    /\ UNCHANGED <<osVars, bindVars, treeVars, debtVars, poll, remaining, signaled, strayed>>

SuspendDone ==
    /\ op = "pause" /\ phase = "suspend" /\ todo = {}
    /\ paused' = TRUE
    /\ Idle
    /\ UNCHANGED <<osVars, bindVars, treeVars, suspended, poll, strayed>>

ResumeBegin ==
    /\ op = "none"
    /\ IF suspended = {}
       THEN paused' = FALSE /\ UNCHANGED opVars
       ELSE Enter("resume", "resume", suspended) /\ UNCHANGED <<paused, remaining, signaled>>
    /\ UNCHANGED <<osVars, bindVars, treeVars, suspended, poll, strayed>>

\* SIGCONT continues whatever stopped the process; on Windows one resume
\* undoes one suspension.
Continued(p) ==
    IF Linux THEN {} ELSE IF "ours" \in stop[p] THEN stop[p] \ {"ours"} ELSE {}

\* _resume_pid: delivered; or the debt is void; or it is kept for a retry,
\* the process being unreadable or the call denied.
ResumeNext(p) ==
    /\ phase = "resume" /\ p \in todo
    /\ todo' = todo \ {p}
    /\ \/ /\ MayControl(p)
          /\ stop' = [stop EXCEPT ![p] = Continued(p)]
          /\ halted' = halted \ {born[p]}
          /\ suspended' = suspended \ {p}
          /\ Reaches(p)
       \/ /\ ~MayControl(p) \/ p \in Deniable
          /\ suspended' = IF ProvenGone(p) THEN suspended \ {p} ELSE suspended
          /\ UNCHANGED <<stop, halted, strayed>>
    /\ UNCHANGED <<tableVars, denied, bindVars, treeVars, paused, poll, op, phase, remaining, signaled>>

\* The end of resume(), and what its caller does with the outcome.
ResumeDone ==
    /\ phase = "resume" /\ todo = {}
    /\ paused' = (suspended # {})
    /\ \/ /\ op \in {"pause", "resume"}
          /\ Idle
          /\ UNCHANGED <<bindVars, treeVars, poll>>
       \/ /\ op = "detach"
          /\ IF suspended = {}
             THEN Release /\ UNCHANGED poll
             ELSE StartPollThread /\ UNCHANGED <<bindVars, treeVars>>
          /\ Idle
       \/ /\ op = "terminate"
          /\ Enter("terminate", "signal", tracked)
          /\ remaining' = tracked
          /\ UNCHANGED <<bindVars, treeVars, poll, signaled>>
    /\ UNCHANGED <<osVars, suspended, strayed>>

DetachBegin ==
    /\ op = "none" /\ root # NoPid
    /\ StopPollThread
    /\ IF suspended = {}
       THEN Release /\ paused' = FALSE /\ UNCHANGED opVars
       ELSE /\ Enter("detach", "resume", suspended)
            /\ UNCHANGED <<bindVars, treeVars, paused, remaining, signaled>>
    /\ UNCHANGED <<osVars, suspended, strayed>>

-----------------------------------------------------------------------------
(* terminate and kill *)

\* terminate() lets a paused tree run again before it signals it; kill()
\* does not.
EndBegin(how) ==
    /\ op = "none" /\ ~ContainsMonitor
    /\ StopPollThread
    /\ IF popen = "none" /\ tracked = {}
       THEN UNCHANGED <<treeVars, suspended, opVars>>
       ELSE \E cut \in Cuts :
              LET view == Refreshed(cut)
              IN /\ Install(view)
                 /\ IF how = "terminate" /\ view.suspended # {}
                    THEN Enter(how, "resume", view.suspended) /\ UNCHANGED remaining
                    ELSE Enter(how, "signal", view.tracked) /\ remaining' = view.tracked
                 /\ signaled' = IF how = "kill" THEN view.tracked ELSE {}
    /\ UNCHANGED <<osVars, bindVars, paused, strayed>>

\* _terminate_pid.  Whether and when the process ends is up to the system.
SignalNext(p) ==
    /\ phase = "signal" /\ p \in todo
    /\ todo' = todo \ {p}
    /\ IF MayControl(p) THEN Reaches(p) ELSE UNCHANGED strayed
    /\ suspended' = IF ProvenGone(p) THEN suspended \ {p} ELSE suspended
    /\ UNCHANGED <<osVars, bindVars, treeVars, paused, poll, op, phase, remaining, signaled>>

\* The refresh at the head of each turn of _wait_for_pids.
WaitLook ==
    /\ \/ phase = "signal" /\ todo = {}
       \/ phase = "look"
    /\ \E cut \in Cuts : Install(Refreshed(cut))
    /\ Enter(op, "decide", {})
    /\ UNCHANGED <<osVars, bindVars, paused, poll, remaining, signaled, strayed>>

\* What is left of the targets, with every tracked process.
LeftOver == {p \in remaining : PidIsAlive(p)} \cup tracked

\* A turn that waits on; kill() and the second half of terminate() also
\* signal the processes found since.
WaitOn ==
    /\ phase = "decide" /\ LeftOver # {}
    /\ remaining' = LeftOver
    /\ suspended' = {p \in suspended : ~ProvenGone(p)}
    /\ IF op = "kill"
       THEN /\ signaled' = signaled \cup LeftOver
            /\ strayed' = (strayed \/ \E p \in LeftOver \ signaled :
                             MayControl(p) /\ Stray(p))
       ELSE UNCHANGED <<signaled, strayed>>
    /\ Enter(op, "look", {})
    /\ UNCHANGED <<osVars, bindVars, treeVars, paused, poll>>

\* The tree is gone, or the deadline has passed.  terminate() goes on to
\* kill what is left; after that the manager lets go of a dead tree and
\* keeps tracking what would not die.
WaitOver ==
    /\ phase = "decide"
    /\ LET left == {p \in LeftOver : PidIsAlive(p)}
       IN \/ /\ op = "terminate" /\ left # {}
             /\ Enter("kill", "signal", left)
             /\ remaining' = left /\ signaled' = left
             /\ suspended' = {p \in suspended : ~ProvenGone(p)}
             /\ UNCHANGED <<bindVars, treeVars, paused>>
          \/ /\ op = "kill" \/ left = {}
             /\ suspended' = suspended \cap left
             /\ paused' = (suspended' # {})
             /\ IF left = {}
                THEN Release
                ELSE /\ tracked' = left
                     /\ popen' = "none"
                     /\ UNCHANGED <<root, rootCreated, attached, rootBirth, sessionKnown, ident, departed, known>>
             /\ Idle
    /\ UNCHANGED <<osVars, poll, strayed>>

-----------------------------------------------------------------------------
(* The operating system and the user *)

\* A process forks.  On Linux the child may leave its parent's session.
Fork(p, c, leaves) ==
    /\ born[p] # 0 /\ stop[p] = {} /\ born[c] = 0 /\ ~Reserved(c)
    /\ clock < MaxBirths
    /\ clock' = clock + 1
    /\ born' = [born EXCEPT ![c] = clock + 1]
    /\ parent' = [parent EXCEPT ![c] = p]
    /\ stop' = [stop EXCEPT ![c] = {}]
    /\ inSession' = IF p \in inSession /\ ~leaves THEN inSession \cup {c} ELSE inSession
    /\ kin' = [kin EXCEPT ![c] = kin[p] \cup {clock + 1}]
    /\ UNCHANGED <<halted, denied, managerVars>>

\* A program that has nothing to do with the tree is started.
Stranger(c) ==
    /\ born[c] = 0 /\ ~Reserved(c) /\ clock < MaxBirths
    /\ clock' = clock + 1
    /\ born' = [born EXCEPT ![c] = clock + 1]
    /\ parent' = [parent EXCEPT ![c] = NoPid]
    /\ stop' = [stop EXCEPT ![c] = {}]
    /\ kin' = [kin EXCEPT ![c] = {clock + 1}]
    /\ UNCHANGED <<inSession, halted, denied, managerVars>>

\* A process that took over the PID of a member the manager remembers.
HoldsMembersPid(p) == rootBirth \notin kin[p] /\ p \in tracked \cup DOMAIN departed

\* A process ends, on its own or killed.  Linux gives its children to init;
\* Windows leaves them the old parent PID.
Exit(p) ==
    /\ born[p] # 0 /\ p \notin Monitor
    /\ HoldsMembersPid(p) => FleetingHolders
    /\ born' = [born EXCEPT ![p] = 0]
    /\ parent' = [q \in Pids |-> IF q = p \/ (Linux /\ parent[q] = p)
                                 THEN NoPid ELSE parent[q]]
    /\ stop' = [stop EXCEPT ![p] = {}]
    /\ inSession' = inSession \ {p}
    /\ kin' = [kin EXCEPT ![p] = {}]
    /\ halted' = halted \ {born[p]}
    /\ UNCHANGED <<clock, denied, managerVars>>

\* is_running and exit_code poll the launched root and reap it.
Reap ==
    /\ op = "none" /\ popen = "live" /\ ~IsRunning
    /\ popen' = "reaped"
    /\ UNCHANGED <<osVars, root, rootCreated, attached, rootBirth, treeVars, debtVars, poll, opVars, strayed>>

\* The user or a debugger stops a process, one that DrainTracer suspended
\* included, and continues it.  On Linux one SIGCONT is enough for whatever
\* stopped it.
UserStop(p) ==
    /\ born[p] # 0 /\ "user" \notin stop[p] /\ p \notin Monitor
    /\ stop' = [stop EXCEPT ![p] = @ \cup {"user"}]
    /\ UNCHANGED <<tableVars, halted, denied, managerVars>>

UserContinue(p) ==
    /\ IF Linux THEN stop[p] # {} ELSE "user" \in stop[p]
    /\ stop' = [stop EXCEPT ![p] = IF Linux THEN {} ELSE @ \ {"user"}]
    /\ UNCHANGED <<tableVars, halted, denied, managerVars>>

\* Access to a process is lost or regained.
AccessChanges ==
    /\ denied' \in (SUBSET Deniable) \ {denied}
    /\ UNCHANGED <<tableVars, stop, halted, managerVars>>

-----------------------------------------------------------------------------
ManagerStep ==
    \/ PollWake \/ PollRefresh \/ RefreshProcessTree
    \/ \E p \in Pids : Start(p)
    \/ \E p \in Pids, picked \in Births : Attach(p, picked)
    \/ AttachDone
    \/ PauseBegin \/ SuspendDone
    \/ \E p \in Pids : SuspendNext(p) \/ SuspendFails(p)
    \/ ResumeBegin \/ ResumeDone
    \/ \E p \in Pids : ResumeNext(p)
    \/ DetachBegin
    \/ \E how \in {"terminate", "kill"} : EndBegin(how)
    \/ \E p \in Pids : SignalNext(p)
    \/ WaitLook \/ WaitOn \/ WaitOver
    \/ Reap

SystemStep ==
    \/ \E p, c \in Pids, leaves \in BOOLEAN : Fork(p, c, leaves)
    \/ \E c \in Pids : Stranger(c)
    \/ \E p \in Pids : Exit(p) \/ UserStop(p) \/ UserContinue(p)
    \/ AccessChanges

Next == ManagerStep \/ SystemStep

Spec == Init /\ [][Next]_vars

-----------------------------------------------------------------------------
(* Safety *)

\* A process DrainTracer suspended stays on the list of resumes it owes,
\* tracked, under the identity a resume will be checked against, through
\* refreshes, PID reuse, failed rollbacks, failed detaches and cleanup: no
\* process is left frozen with nobody to continue it.
\* (pause 520-530, resume 540-547, detach 480-496, terminate 572-590,
\* _refresh_tracked_pids 726-727)
EverySuspendedIsOwed ==
    \A p \in Pids : "ours" \in stop[p] =>
        /\ p \in suspended \cap tracked
        /\ Expected(p) = born[p]
        /\ rootCreated # 0

\* A resume is owed only to a process DrainTracer itself stopped, never to
\* one its user had stopped or to a new holder of the PID that it could reach.
\* (_suspend_pid 996-1002, _open_tracked_unlocked 937-942)
OnlyOursIsOwed ==
    \A p \in suspended : ~ProvenGone(p) /\ p \notin denied => born[p] \in halted

\* A process that was tracked under its own identity stays tracked until it
\* exits, whatever is reused, unreadable or half cleaned up meanwhile.
\* (_refresh_tracked_pids 711-726, terminate 566-589, kill 611-627)
MembersStayTracked ==
    \A p \in Pids : born[p] # 0 /\ born[p] \in known => p \in tracked

\* No suspend, resume or end signal reaches a process that does not descend
\* from the program the user chose, nor DrainTracer and what it runs inside.
\* (_walk_tree 786-803, _orphan_of 122-133, _open_tracked_unlocked 937-956)
NoForeignControl == ~strayed

\* Both: no process that is not of the tree is suspended, owed or controlled.
NothingForeign == OnlyOursIsOwed /\ NoForeignControl

\* Only its user continues a process that its user stopped.  On Windows, where
\* suspensions are counted, without exception.  On Linux it is promised to a
\* user who was first ("SIGSTOP has no suspension count", 999): whoever is
\* stopped by its user while DrainTracer owes it a resume is continued by it.
\* (_suspend_pid 996-1002, resume 540-542, _resume_pid 1016-1017)
UserStopRespected ==
    [][\A p \in Pids :
         "user" \in stop[p] /\ born'[p] = born[p] /\ "user" \notin stop'[p]
         => UserContinue(p) \/ (Linux /\ born[p] \in halted)]_vars

\* What the comment in _poll_loop says: discovery goes on while a tree is
\* tracked; here, after an operation that neither ended nor released it.
DiscoveryContinues ==
    [][op = "detach" /\ op' = "none" /\ tracked' # {} => poll' \in {"sleep", "want"}]_vars
=============================================================================
