------------------------ MODULE ProcessControlProofs ------------------------
(***************************************************************************)
(* Proofs about ProcessControl, for any set of PIDs, any initial process   *)
(* table and any number of births.                                         *)
(***************************************************************************)
EXTENDS ProcessControl, TLAPS

USE PidsAssumption, BirthAssumption, SwitchAssumption

(***************************************************************************)
(* What one refresh returns                                                *)
(***************************************************************************)

\* The walk adds PIDs only, and none that was a member already
\* (_walk_tree 773-774).
LEMMA AdoptedPids ==
    ASSUME NEW members, NEW gone
    PROVE  /\ Adopted(members, gone) \subseteq Pids
           /\ Adopted(members, gone) \cap members = {}
<1>1. Adopted(members, gone) \subseteq Pids
  BY DEF Adopted
<1>2. ASSUME NEW c \in Adopted(members, gone), c \in members
      PROVE  FALSE
  <2>1. \A d \in Pids \cap members :
          /\ \A p : ~ChildOfDeparted(p, d, members, gone)
          /\ \A p, created : ~ChildOfLive(p, d, members, created, gone)
    BY DEF ChildOfDeparted, ChildOfLive, Joins
  <2>2. Pids \ members \in SUBSET Pids
    OBVIOUS
  <2>3. c \in Pids \ members
    BY <1>2, <2>1, <2>2 DEF Adopted
  <2> QED
    BY <1>2, <2>3
<1> QED
  BY <1>1, <1>2

\* A refresh keeps the shape of everything it replaces.
LEMMA RefreshedType ==
    ASSUME TypeOK, NEW cut
    PROVE  LET view == Refreshed(cut)
           IN /\ view.tracked \subseteq Pids
              /\ view.suspended \subseteq Pids
              /\ view.ident \in [Pids -> Births]
              /\ DOMAIN view.departed \subseteq Pids
              /\ view.departed \in [DOMAIN view.departed -> Gone]
              /\ view.sessionKnown \in BOOLEAN
              /\ view.known \subseteq Births
<1> DEFINE alive == {p \in tracked : PidIsAlive(p)}
           gone == DepartedAfter(alive, cut)
           found == alive \cup SessionRoots
           new == Adopted(found, gone)
<1>1. 0 \in Births
  BY DEF Births
<1>2. \A p \in Pids : Seen(p) \in Births /\ Expected(p) \in Births
  BY <1>1 DEF TypeOK, Seen, Expected
<1>3. found \subseteq Pids /\ SessionMembers \subseteq Pids
  BY DEF TypeOK, SessionRoots, SessionMembers
<1>4. new \subseteq Pids
  BY AdoptedPids
<1>5. IdentAfterSession \in [Pids -> Births]
  BY <1>2 DEF TypeOK, IdentAfterSession
<1>6. /\ DOMAIN gone \subseteq Pids
      /\ \A p \in DOMAIN gone : gone[p] \in Gone
  BY <1>2 DEF TypeOK, DepartedAfter, Gone
<1>7. SessionUsable \in BOOLEAN
  BY DEF SessionUsable, TypeOK
<1>8. CASE root = NoPid
  BY <1>8 DEF Refreshed, TypeOK
<1>9. CASE root # NoPid
  <2> DEFINE view == Refreshed(cut)
             keep == DOMAIN gone \ new
  <2>1. /\ view.tracked = found \cup new
        /\ view.suspended = {p \in suspended : ~ProvenGone(p)} \cap (found \cup new)
        /\ view.ident = [p \in Pids |->
                          IF p \notin found \cup new THEN 0
                          ELSE IF p \in new /\ Seen(p) # 0 THEN Seen(p)
                          ELSE IdentAfterSession[p]]
        /\ view.departed = [p \in keep |-> gone[p]]
        /\ view.sessionKnown = SessionUsable
        /\ view.known = known \cup {IdentAfterSession[p] : p \in found}
                              \cup {Seen(p) : p \in new}
    BY <1>9 DEF Refreshed
  <2> HIDE DEF alive, gone, found, new, view
  <2>2. view.ident \in [Pids -> Births]
    BY <2>1, <1>1, <1>2, <1>5
  <2>3. view.known \subseteq Births
    BY <2>1, <1>2, <1>3, <1>4, <1>5 DEF TypeOK
  <2>4. view.departed \in [keep -> Gone] /\ DOMAIN view.departed = keep
    BY <2>1, <1>6
  <2>5. keep \subseteq Pids
    BY <1>6
  <2> QED
    BY <2>1, <2>2, <2>3, <2>4, <2>5, <1>3, <1>4, <1>7 DEF TypeOK, view
<1> QED
  BY <1>8, <1>9

LEMMA InstallType ==
    ASSUME TypeOK, NEW cut, Install(Refreshed(cut))
    PROVE  /\ tracked' \subseteq Pids
           /\ suspended' \subseteq Pids
           /\ ident' \in [Pids -> Births]
           /\ DOMAIN departed' \subseteq Pids
           /\ departed' \in [DOMAIN departed' -> Gone]
           /\ sessionKnown' \in BOOLEAN
           /\ known' \subseteq Births
BY RefreshedType DEF Install

(***************************************************************************)
(* Type correctness                                                        *)
(***************************************************************************)

LEMMA TypeInit == Init => TypeOK
<1> SUFFICES ASSUME Init
             PROVE  TypeOK
  OBVIOUS
<1>1. Clock0 \in Births /\ 0 \in Births /\ \A n \in 0..Clock0 : n \in Births
  BY DEF Births
<1>2. born \in [Pids -> Births] /\ kin \in [Pids -> SUBSET (1..MaxBirths)]
  BY <1>1 DEF Init
<1>3. DOMAIN departed = {} /\ departed \in [DOMAIN departed -> Gone]
  BY DEF Init, NoneDeparted
<1>4. /\ attached \in BOOLEAN /\ sessionKnown \in BOOLEAN
      /\ paused \in BOOLEAN /\ strayed \in BOOLEAN
  BY DEF Init
<1> QED
  BY <1>1, <1>2, <1>3, <1>4 DEF Init, TypeOK, Ops, Phases

LEMMA TypeTree ==
    ASSUME TypeOK,
           PollWake \/ PollRefresh \/ RefreshProcessTree \/ AttachDone \/ Reap
    PROVE  TypeOK'
<1> USE DEF osVars, tableVars, bindVars, treeVars, debtVars, opVars, managerVars
<1>1. CASE PollWake
  BY <1>1 DEF PollWake, TypeOK
<1>2. CASE PollRefresh
  <2>1. PICK cut \in Cuts : Install(Refreshed(cut))
    BY <1>2 DEF PollRefresh
  <2>2. poll' \in {"none", "sleep"} /\ popen' \in {"reaped", popen}
    BY <1>2 DEF PollRefresh
  <2> QED
    BY <1>2, <2>1, <2>2, InstallType DEF PollRefresh, TypeOK
<1>3. CASE RefreshProcessTree
  BY <1>3, InstallType DEF RefreshProcessTree, TypeOK
<1>4. CASE AttachDone
  BY <1>4, InstallType DEF AttachDone, TypeOK, Idle, Enter, StartPollThread, Ops, Phases
<1>5. CASE Reap
  BY <1>5 DEF Reap, TypeOK
<1> QED
  BY <1>1, <1>2, <1>3, <1>4, <1>5

LEMMA TypeBind ==
    ASSUME TypeOK, NEW p \in Pids, NEW picked \in Births, Start(p) \/ Attach(p, picked)
    PROVE  TypeOK'
<1> USE DEF osVars, tableVars, bindVars, treeVars, debtVars, opVars, managerVars
<1>1. CASE Start(p)
  <2>1. clock + 1 \in Births /\ clock + 1 \in 1..MaxBirths /\ 0 \in Births
    BY <1>1 DEF Start, TypeOK, Births
  <2>2. /\ clock' \in Births /\ born' \in [Pids -> Births]
        /\ parent' \in [Pids -> Pids \cup {NoPid}]
        /\ stop' \in [Pids -> SUBSET {"ours", "user"}]
        /\ kin' \in [Pids -> SUBSET (1..MaxBirths)]
        /\ inSession' \subseteq Pids /\ rootBirth' \in Births
        /\ poll' \in {"none", "sleep", "want", "ending"}
    BY <1>1, <2>1 DEF Start, TypeOK, StartPollThread
  <2>3. /\ root' \in Pids /\ rootCreated' \in Births /\ tracked' \subseteq Pids
        /\ ident' \in [Pids -> Births] /\ known' \subseteq Births
        /\ departed' = NoneDeparted /\ suspended' = {} /\ paused' = FALSE
        /\ attached' = FALSE /\ popen' = "live" /\ sessionKnown' \in BOOLEAN
    BY <1>1, <2>1 DEF Start, Bind
  <2> QED
    BY <1>1, <2>2, <2>3 DEF Start, TypeOK, NoneDeparted
<1>2. CASE Attach(p, picked)
  <2>1. Seen(p) \in Births /\ 0 \in Births
    BY DEF Seen, TypeOK, Births
  <2>2. /\ root' \in Pids /\ rootCreated' \in Births /\ tracked' \subseteq Pids
        /\ ident' \in [Pids -> Births] /\ known' \subseteq Births
        /\ departed' = NoneDeparted /\ suspended' = {} /\ paused' = FALSE
        /\ attached' = TRUE /\ popen' = "none" /\ sessionKnown' \in BOOLEAN
        /\ rootBirth' \in Births
    BY <1>2, <2>1 DEF Attach, Bind, TypeOK
  <2> QED
    BY <1>2, <2>2 DEF Attach, TypeOK, NoneDeparted, Enter, Ops, Phases
<1> QED
  BY <1>1, <1>2

LEMMA TypePause ==
    ASSUME TypeOK,
           \/ PauseBegin \/ SuspendDone \/ ResumeBegin \/ ResumeDone \/ DetachBegin
           \/ \E p \in Pids : SuspendNext(p) \/ SuspendFails(p) \/ ResumeNext(p)
    PROVE  TypeOK'
<1> USE DEF osVars, tableVars, bindVars, treeVars, debtVars, opVars, managerVars,
            Ops, Phases, Enter
<1>0. 0 \in Births /\ NoneDeparted \in [DOMAIN NoneDeparted -> Gone]
      /\ DOMAIN NoneDeparted = {}
  BY DEF Births, NoneDeparted
<1>r. ASSUME Release
      PROVE  /\ root' = NoPid /\ popen' = "none" /\ sessionKnown' \in BOOLEAN
             /\ tracked' = {} /\ ident' \in [Pids -> Births]
             /\ DOMAIN departed' = {} /\ departed' \in [DOMAIN departed' -> Gone]
             /\ known' = {} /\ rootBirth' \in Births
             /\ rootCreated' = rootCreated /\ attached' = attached
  BY <1>0, <1>r DEF Release
<1>1. CASE PauseBegin
  <2>1. PICK cut \in Cuts : /\ Install(Refreshed(cut))
                            /\ Enter("pause", "suspend", Refreshed(cut).tracked)
    BY <1>1 DEF PauseBegin
  <2>2. todo' \subseteq Pids
    BY <2>1, RefreshedType
  <2> QED
    BY <1>1, <2>1, <2>2, InstallType DEF PauseBegin, TypeOK
<1>2. CASE SuspendDone
  BY <1>2 DEF SuspendDone, TypeOK, Idle
<1>3. CASE ResumeBegin
  <2>1. paused' \in BOOLEAN
    BY <1>3 DEF ResumeBegin, TypeOK
  <2>2. /\ op' \in Ops /\ phase' \in Phases /\ todo' \subseteq Pids
        /\ remaining' = remaining /\ signaled' = signaled
    BY <1>3 DEF ResumeBegin, TypeOK
  <2> QED
    BY <1>3, <2>1, <2>2 DEF ResumeBegin, TypeOK
<1>4. CASE ResumeDone
  <2>1. paused' \in BOOLEAN
    BY <1>4 DEF ResumeDone
  <2>2. CASE op \in {"pause", "resume"}
    BY <1>4, <2>1, <2>2 DEF ResumeDone, TypeOK, Idle
  <2>3. CASE op = "detach"
    <3>1. CASE suspended = {}
      <4>1. Release /\ Idle /\ poll' = poll
        BY <1>4, <2>3, <3>1 DEF ResumeDone
      <4> HIDE DEF Enter
      <4>2. op' \in Ops /\ phase' \in Phases /\ todo' = {} /\ remaining' = {} /\ signaled' = {}
        BY <4>1 DEF Idle, Enter
      <4> QED
        BY <1>4, <1>r, <2>1, <4>1, <4>2 DEF ResumeDone, TypeOK
    <3>2. CASE suspended # {}
      BY <1>4, <2>1, <2>3, <3>2 DEF ResumeDone, TypeOK, Idle, StartPollThread
    <3> QED
      BY <3>1, <3>2
  <2>4. CASE op = "terminate"
    BY <1>4, <2>1, <2>4 DEF ResumeDone, TypeOK
  <2> QED
    BY <1>4, <2>2, <2>3, <2>4 DEF ResumeDone
<1>5. CASE DetachBegin
  <2>1. poll' \in {"none", "ending"}
    BY <1>5 DEF DetachBegin, StopPollThread
  <2>2. CASE suspended = {}
    <3>1. Release /\ paused' \in BOOLEAN /\ opVars' = opVars
      BY <1>5, <2>2 DEF DetachBegin
    <3> QED
      BY <1>5, <1>r, <2>1, <3>1 DEF DetachBegin, TypeOK
  <2>3. CASE suspended # {}
    BY <1>5, <2>1, <2>3 DEF DetachBegin, TypeOK
  <2> QED
    BY <2>2, <2>3
<1>6. ASSUME NEW p \in Pids, SuspendNext(p)
      PROVE  TypeOK'
  <2>1. strayed' \in BOOLEAN
    BY <1>6 DEF SuspendNext, TypeOK, Reaches
  <2>2. suspended' \subseteq Pids /\ stop' \in [Pids -> SUBSET {"ours", "user"}]
    BY <1>6 DEF SuspendNext, TypeOK
  <2>3. halted' \subseteq Births
    BY <1>6 DEF SuspendNext, TypeOK, Halts
  <2> QED
    BY <1>6, <2>1, <2>2, <2>3 DEF SuspendNext, TypeOK
<1>7. ASSUME NEW p \in Pids, SuspendFails(p)
      PROVE  TypeOK'
  BY <1>7 DEF SuspendFails, TypeOK
<1>8. ASSUME NEW p \in Pids, ResumeNext(p)
      PROVE  TypeOK'
  <2>1. Continued(p) \in SUBSET {"ours", "user"}
    BY DEF Continued, TypeOK
  <2>2. strayed' \in BOOLEAN
    BY <1>8 DEF ResumeNext, TypeOK, Reaches
  <2>3. suspended' \subseteq Pids /\ stop' \in [Pids -> SUBSET {"ours", "user"}]
    BY <1>8, <2>1 DEF ResumeNext, TypeOK
  <2> QED
    BY <1>8, <2>2, <2>3 DEF ResumeNext, TypeOK
<1> QED
  BY <1>1, <1>2, <1>3, <1>4, <1>5, <1>6, <1>7, <1>8

LEMMA TypeEnd ==
    ASSUME TypeOK,
           \/ \E how \in {"terminate", "kill"} : EndBegin(how)
           \/ \E p \in Pids : SignalNext(p)
           \/ WaitLook \/ WaitOn \/ WaitOver
    PROVE  TypeOK'
<1> USE DEF osVars, tableVars, bindVars, treeVars, debtVars, opVars, managerVars,
            Ops, Phases, Enter
<1>0. 0 \in Births /\ NoneDeparted \in [DOMAIN NoneDeparted -> Gone]
      /\ DOMAIN NoneDeparted = {}
  BY DEF Births, NoneDeparted
<1>1. ASSUME NEW how \in {"terminate", "kill"}, EndBegin(how)
      PROVE  TypeOK'
  <2>1. CASE popen = "none" /\ tracked = {}
    BY <1>1, <2>1 DEF EndBegin, StopPollThread, TypeOK
  <2>2. CASE ~(popen = "none" /\ tracked = {})
    <3>1. PICK cut \in Cuts :
            LET view == Refreshed(cut)
            IN /\ Install(view)
               /\ IF how = "terminate" /\ view.suspended # {}
                  THEN Enter(how, "resume", view.suspended) /\ UNCHANGED remaining
                  ELSE Enter(how, "signal", view.tracked) /\ remaining' = view.tracked
               /\ signaled' = IF how = "kill" THEN view.tracked ELSE {}
      BY <1>1, <2>2 DEF EndBegin
    <3>2. /\ todo' \subseteq Pids /\ remaining' \subseteq Pids
          /\ signaled' \subseteq Pids
          /\ op' = how /\ phase' \in {"resume", "signal"}
      BY <3>1, RefreshedType DEF TypeOK
    <3>3. poll' \in {"none", "ending"}
      BY <1>1 DEF EndBegin, StopPollThread
    <3> HIDE DEF Enter
    <3> QED
      BY <1>1, <3>1, <3>2, <3>3, InstallType DEF EndBegin, TypeOK
  <2> QED
    BY <2>1, <2>2
<1>2. ASSUME NEW p \in Pids, SignalNext(p)
      PROVE  TypeOK'
  <2>1. strayed' \in BOOLEAN
    BY <1>2 DEF SignalNext, TypeOK, Reaches
  <2>2. suspended' \subseteq Pids
    BY <1>2 DEF SignalNext, TypeOK
  <2> QED
    BY <1>2, <2>1, <2>2 DEF SignalNext, TypeOK
<1>3. CASE WaitLook
  BY <1>3, InstallType DEF WaitLook, TypeOK
<1>4. LeftOver \subseteq Pids
  BY DEF LeftOver, TypeOK
<1>5. CASE WaitOn
  <2>1. signaled' \subseteq Pids /\ strayed' \in BOOLEAN
    BY <1>4, <1>5 DEF WaitOn, TypeOK
  <2> QED
    BY <1>4, <1>5, <2>1 DEF WaitOn, TypeOK
<1>6. CASE WaitOver
  <2> DEFINE left == {p \in LeftOver : PidIsAlive(p)}
  <2>0. left \subseteq Pids
    BY <1>4
  <2> HIDE DEF left
  <2>1. CASE op = "terminate" /\ left # {} /\ op' = "kill"
    <3>1. /\ Enter("kill", "signal", left) /\ remaining' = left /\ signaled' = left
          /\ suspended' \subseteq suspended
          /\ UNCHANGED <<bindVars, treeVars, paused>>
      BY <1>6, <2>1 DEF WaitOver, left, Idle
    <3> QED
      BY <1>6, <2>0, <3>1 DEF WaitOver, TypeOK
  <2>2. CASE ~(op = "terminate" /\ left # {} /\ op' = "kill")
    <3>1. /\ suspended' = suspended \cap left /\ paused' = (suspended' # {}) /\ Idle
          /\ IF left = {}
             THEN Release
             ELSE /\ tracked' = left
                  /\ popen' = "none"
                  /\ UNCHANGED <<root, rootCreated, attached, rootBirth,
                                 sessionKnown, ident, departed, known>>
      BY <1>6, <2>2 DEF WaitOver, left
    <3>2. paused' \in BOOLEAN
      BY <3>1
    <3>3. op' \in Ops /\ phase' \in Phases /\ todo' = {} /\ remaining' = {} /\ signaled' = {}
      BY <3>1 DEF Idle
    <3>4. /\ root' \in Pids \cup {NoPid} /\ popen' \in {"none", "live", "reaped"}
          /\ sessionKnown' \in BOOLEAN
          /\ tracked' \subseteq Pids /\ ident' \in [Pids -> Births]
          /\ DOMAIN departed' \subseteq Pids /\ departed' \in [DOMAIN departed' -> Gone]
          /\ known' \subseteq Births /\ rootBirth' \in Births
          /\ rootCreated' = rootCreated /\ attached' = attached
      <4>1. CASE left = {}
        BY <1>0, <3>1, <4>1 DEF Release
      <4>2. CASE left # {}
        BY <2>0, <3>1, <4>2 DEF TypeOK
      <4> QED
        BY <4>1, <4>2
    <3> QED
      BY <1>6, <3>1, <3>2, <3>3, <3>4 DEF WaitOver, TypeOK
  <2> QED
    BY <2>1, <2>2
<1> QED
  BY <1>1, <1>2, <1>3, <1>5, <1>6

LEMMA TypeSystem ==
    ASSUME TypeOK, SystemStep
    PROVE  TypeOK'
<1> USE DEF osVars, tableVars
<1>1. ASSUME NEW p \in Pids, NEW c \in Pids, NEW leaves \in BOOLEAN, Fork(p, c, leaves)
      PROVE  TypeOK'
  <2>1. clock + 1 \in Births /\ clock + 1 \in 1..MaxBirths
    BY <1>1 DEF Fork, TypeOK, Births
  <2>2. inSession' \subseteq Pids /\ kin[p] \cup {clock + 1} \in SUBSET (1..MaxBirths)
    BY <1>1, <2>1 DEF Fork, TypeOK
  <2> QED
    BY <1>1, <2>1, <2>2 DEF Fork, TypeOK, managerVars, bindVars, treeVars, debtVars, opVars
<1>2. ASSUME NEW c \in Pids, Stranger(c)
      PROVE  TypeOK'
  <2>1. clock + 1 \in Births /\ clock + 1 \in 1..MaxBirths
    BY <1>2 DEF Stranger, TypeOK, Births
  <2> QED
    BY <1>2, <2>1 DEF Stranger, TypeOK, managerVars, bindVars, treeVars, debtVars, opVars
<1>3. ASSUME NEW p \in Pids, Exit(p)
      PROVE  TypeOK'
  <2>1. 0 \in Births
    BY DEF Births
  <2> QED
    BY <1>3, <2>1 DEF Exit, TypeOK, managerVars, bindVars, treeVars, debtVars, opVars
<1>4. ASSUME NEW p \in Pids, UserStop(p) \/ UserContinue(p)
      PROVE  TypeOK'
  BY <1>4 DEF UserStop, UserContinue, TypeOK, managerVars, bindVars, treeVars, debtVars, opVars
<1>5. CASE AccessChanges
  BY <1>5 DEF AccessChanges, TypeOK, managerVars, bindVars, treeVars, debtVars, opVars
<1> QED
  BY <1>1, <1>2, <1>3, <1>4, <1>5 DEF SystemStep

\* Every variable keeps its type, whatever the system does between the steps
\* of an operation (ProcessManager.__init__ 178-216).
THEOREM TypeCorrect == Spec => []TypeOK
<1>1. TypeOK /\ [Next]_vars => TypeOK'
  <2> SUFFICES ASSUME TypeOK, [Next]_vars
               PROVE  TypeOK'
    OBVIOUS
  <2>1. CASE ManagerStep
    <3>1. ASSUME NEW p \in Pids, Start(p)
          PROVE  TypeOK'
      <4>1. 0 \in Births
        BY DEF Births
      <4> QED
        BY <3>1, <4>1, TypeBind
    <3>2. ASSUME NEW p \in Pids, NEW picked \in Births, Attach(p, picked)
          PROVE  TypeOK'
      BY <3>2, TypeBind
    <3> QED
      BY <2>1, <3>1, <3>2, TypeTree, TypePause, TypeEnd DEF ManagerStep
  <2>2. CASE SystemStep
    BY <2>2, TypeSystem
  <2>3. CASE UNCHANGED vars
    BY <2>3 DEF TypeOK, vars, osVars, tableVars, managerVars, bindVars, treeVars,
                debtVars, opVars
  <2> QED
    BY <2>1, <2>2, <2>3 DEF Next
<1> QED
  BY TypeInit, <1>1, PTL DEF Spec

(***************************************************************************)
(* A member is tracked until it exits                                      *)
(***************************************************************************)

\* A birth happens on one PID, and the identities recorded for a PID are
\* births that happened there; so whatever holds a PID under a birth that was
\* ever tracked is tracked under that birth.
IdentityInv ==
    /\ \A p \in Pids : born[p] <= clock /\ ident[p] <= clock
    /\ \A b \in known : b <= clock
    /\ \A p, q \in Pids : born[p] # 0 /\ born[p] = born[q] => p = q
    /\ \A p, q \in Pids : ident[q] # 0 /\ ident[q] = born[p] => p = q
    /\ \A p \in Pids : born[p] # 0 /\ born[p] \in known
                       => p \in tracked /\ ident[p] = born[p]

\* A refresh keeps every tracked process it cannot prove gone, under the
\* identity it had, and the resume owed to it (_refresh_tracked_pids 711-730).
LEMMA RefreshKeeps ==
    ASSUME TypeOK, NEW cut, NEW p \in tracked, ~ProvenGone(p)
    PROVE  LET view == Refreshed(cut)
           IN /\ p \in view.tracked
              /\ Expected(p) # 0 => view.ident[p] = ident[p]
              /\ p \in suspended => p \in view.suspended
<1> DEFINE alive == {q \in tracked : PidIsAlive(q)}
           gone == DepartedAfter(alive, cut)
           found == alive \cup SessionRoots
           new == Adopted(found, gone)
<1>1. CASE root = NoPid
  BY <1>1 DEF Refreshed
<1>2. CASE root # NoPid
  <2>1. p \in found /\ p \in Pids
    BY DEF PidIsAlive, TypeOK
  <2>2. p \notin new
    BY <2>1, AdoptedPids
  <2>3. Expected(p) # 0 => IdentAfterSession[p] = ident[p]
    BY <2>1 DEF IdentAfterSession
  <2>4. LET view == Refreshed(cut)
        IN /\ view.tracked = found \cup new
           /\ view.suspended = {q \in suspended : ~ProvenGone(q)} \cap (found \cup new)
           /\ view.ident = [q \in Pids |->
                             IF q \notin found \cup new THEN 0
                             ELSE IF q \in new /\ Seen(q) # 0 THEN Seen(q)
                             ELSE IdentAfterSession[q]]
    BY <1>2 DEF Refreshed
  <2> HIDE DEF found, new
  <2> QED
    BY <2>1, <2>2, <2>3, <2>4
<1> QED
  BY <1>1, <1>2

\* An identity a refresh records is the one it had or the birth of the
\* present holder, and what it adds to "known" it records.
LEMMA RefreshRecords ==
    ASSUME TypeOK, NEW cut
    PROVE  LET view == Refreshed(cut)
           IN /\ \A p \in Pids : view.ident[p] \in {0, ident[p], born[p]}
              /\ \A b \in view.known \ known :
                   b # 0 => \E p \in view.tracked : p \in Pids /\ view.ident[p] = b
<1> DEFINE alive == {q \in tracked : PidIsAlive(q)}
           gone == DepartedAfter(alive, cut)
           found == alive \cup SessionRoots
           new == Adopted(found, gone)
           view == Refreshed(cut)
<1>1. CASE root = NoPid
  BY <1>1 DEF Refreshed
<1>2. CASE root # NoPid
  <2>1. /\ view.tracked = found \cup new
        /\ view.ident = [q \in Pids |->
                          IF q \notin found \cup new THEN 0
                          ELSE IF q \in new /\ Seen(q) # 0 THEN Seen(q)
                          ELSE IdentAfterSession[q]]
        /\ view.known = known \cup {IdentAfterSession[q] : q \in found}
                              \cup {Seen(q) : q \in new}
    BY <1>2 DEF Refreshed
  <2>2. \A p \in Pids : Seen(p) \in {0, born[p]}
                      /\ IdentAfterSession[p] \in {0, ident[p], born[p]}
    BY DEF Seen, IdentAfterSession
  <2>a. new \cap found = {} /\ new \subseteq Pids
    BY AdoptedPids
  <2>b. found \subseteq Pids
    BY DEF TypeOK, SessionRoots, SessionMembers
  <2>3. new \cap found = {} /\ new \subseteq Pids /\ found \subseteq Pids
    BY <2>a, <2>b
  <2> HIDE DEF found, new, view
  <2>4. \A p \in Pids : view.ident[p] \in {0, ident[p], born[p]}
    BY <2>1, <2>2
  <2>5. ASSUME NEW b \in view.known \ known, b # 0
        PROVE  \E p \in view.tracked : p \in Pids /\ view.ident[p] = b
    <3>1. CASE \E q \in found : b = IdentAfterSession[q]
      BY <2>1, <2>3, <3>1
    <3>2. CASE \E q \in new : b = Seen(q)
      <4>1. PICK q \in new : b = Seen(q)
        BY <3>2
      <4>2. q \in Pids /\ q \in view.tracked /\ q \in found \cup new /\ Seen(q) # 0
        BY <2>1, <2>3, <2>5, <4>1
      <4>3. view.ident[q] = b
        BY <2>1, <4>1, <4>2
      <4> QED
        BY <4>2, <4>3
    <3> QED
      BY <2>1, <2>5, <3>1, <3>2
  <2> QED
    BY <2>4, <2>5 DEF view
<1> QED
  BY <1>1, <1>2

LEMMA IdentityInstall ==
    ASSUME TypeOK, IdentityInv, NEW cut, Install(Refreshed(cut)),
           born' = born, clock' = clock
    PROVE  IdentityInv'
<1>1. /\ tracked' \subseteq Pids /\ known' \subseteq Births
      /\ ident' \in [Pids -> Births]
  BY InstallType
<1>2. \A p \in Pids : ident'[p] \in {0, ident[p], born[p]}
  BY RefreshRecords DEF Install
<1>3. \A b \in known' : b # 0 /\ b \notin known => \E p \in tracked' : ident'[p] = b
  BY RefreshRecords DEF Install
<1>4. \A p \in Pids : born[p] # 0 /\ born[p] \in known
                      => p \in tracked' /\ ident'[p] = born[p]
  <2> SUFFICES ASSUME NEW p \in Pids, born[p] # 0, born[p] \in known
               PROVE  p \in tracked' /\ ident'[p] = born[p]
    OBVIOUS
  <2>1. p \in tracked /\ ident[p] = born[p]
    BY DEF IdentityInv
  <2>2. Expected(p) # 0 /\ ~ProvenGone(p)
    BY <2>1 DEF Expected, ProvenGone
  <2> QED
    BY <2>1, <2>2, RefreshKeeps DEF Install
<1>5. \A p, q \in Pids : ident'[q] # 0 /\ ident'[q] = born[p] => p = q
  BY <1>2 DEF IdentityInv
<1>6. \A p \in Pids : born[p] # 0 /\ born[p] \in known'
                      => p \in tracked' /\ ident'[p] = born[p]
  BY <1>1, <1>3, <1>4, <1>5
<1>7. \A p \in Pids : ident'[p] <= clock
  BY <1>2 DEF IdentityInv, TypeOK, Births
<1>8. \A b \in known' : b <= clock
  <2> SUFFICES ASSUME NEW b \in known', b # 0, b \notin known
               PROVE  b <= clock
    BY DEF IdentityInv, TypeOK, Births
  <2> QED
    BY <1>1, <1>3, <1>7
<1> QED
  BY <1>5, <1>6, <1>7, <1>8 DEF IdentityInv

LEMMA IdentityRelease ==
    ASSUME TypeOK, IdentityInv, Release, born' = born, clock' = clock
    PROVE  IdentityInv'
<1>1. /\ \A p \in Pids : ident'[p] = 0
      /\ known' = {}
  BY DEF Release
<1> QED
  BY <1>1 DEF IdentityInv, TypeOK, Births

\* A process appears on the free PID "c", or the one on "c" exits.
LEMMA IdentitySystem ==
    ASSUME TypeOK, IdentityInv, NEW c \in Pids, NEW b \in {0, clock + 1},
           born' = [born EXCEPT ![c] = b],
           clock' \in {clock, clock + 1}, b # 0 => clock' = clock + 1,
           ident' = ident, known' = known, tracked' = tracked
    PROVE  IdentityInv'
BY DEF IdentityInv, TypeOK, Births

LEMMA IdentityInit == Init => IdentityInv
<1> SUFFICES ASSUME Init
             PROVE  IdentityInv
  OBVIOUS
<1>1. \A p \in Pids : born[p] \in 0..Clock0 /\ ident[p] = 0
  BY DEF Init
<1> QED
  BY <1>1 DEF Init, IdentityInv

LEMMA IdentityStep ==
    ASSUME TypeOK, IdentityInv, ManagerStep
    PROVE  IdentityInv'
<1> USE DEF osVars, tableVars, bindVars, treeVars, debtVars, opVars, managerVars
<1>1. ASSUME \/ PollRefresh \/ RefreshProcessTree \/ AttachDone \/ PauseBegin \/ WaitLook
      PROVE  IdentityInv'
  <2>1. \E cut : Install(Refreshed(cut))
    BY <1>1 DEF PollRefresh, RefreshProcessTree, AttachDone, PauseBegin, WaitLook
  <2>2. born' = born /\ clock' = clock
    BY <1>1 DEF PollRefresh, RefreshProcessTree, AttachDone, PauseBegin, WaitLook
  <2> QED
    BY <2>1, <2>2, IdentityInstall
<1>2. ASSUME NEW how \in {"terminate", "kill"}, EndBegin(how)
      PROVE  IdentityInv'
  <2>1. born' = born /\ clock' = clock
    BY <1>2 DEF EndBegin
  <2>2. CASE popen = "none" /\ tracked = {}
    <3>1. UNCHANGED <<ident, known, tracked>>
      BY <1>2, <2>2 DEF EndBegin
    <3> QED
      BY <2>1, <3>1 DEF IdentityInv
  <2>3. CASE ~(popen = "none" /\ tracked = {})
    <3>1. \E cut : Install(Refreshed(cut))
      BY <1>2, <2>3 DEF EndBegin
    <3> QED
      BY <2>1, <3>1, IdentityInstall
  <2> QED
    BY <2>2, <2>3
<1>3. ASSUME NEW p \in Pids, Start(p)
      PROVE  IdentityInv'
  <2>1. /\ born' = [born EXCEPT ![p] = clock + 1] /\ clock' = clock + 1
        /\ tracked' = {p}
    BY <1>3 DEF Start, Bind
  <2>2. PICK created \in {0, clock + 1} :
          /\ ident' = [q \in Pids |-> IF q = p THEN created ELSE 0]
          /\ known' = {created}
    BY <1>3 DEF Start, Bind
  <2> QED
    BY <2>1, <2>2 DEF IdentityInv, TypeOK, Births
<1>4. ASSUME NEW p \in Pids, NEW picked \in Births, Attach(p, picked)
      PROVE  IdentityInv'
  <2>1. born' = born /\ clock' = clock /\ tracked' = {p}
    BY <1>4 DEF Attach, Bind
  <2>2. PICK created \in {0, born[p]} :
          /\ ident' = [q \in Pids |-> IF q = p THEN created ELSE 0]
          /\ known' = {created}
    BY <1>4 DEF Attach, Bind, Seen
  <2> QED
    BY <2>1, <2>2 DEF IdentityInv, TypeOK, Births
<1>5. CASE ResumeDone
  <2>1. born' = born /\ clock' = clock
    BY <1>5 DEF ResumeDone
  <2>2. Release \/ UNCHANGED <<ident, known, tracked>>
    BY <1>5 DEF ResumeDone
  <2> QED
    BY <2>1, <2>2, IdentityRelease DEF IdentityInv
<1>6. CASE DetachBegin
  <2>1. born' = born /\ clock' = clock
    BY <1>6 DEF DetachBegin
  <2>2. Release \/ UNCHANGED <<ident, known, tracked>>
    BY <1>6 DEF DetachBegin
  <2> QED
    BY <2>1, <2>2, IdentityRelease DEF IdentityInv
<1>7. CASE WaitOver
  <2> DEFINE left == {p \in LeftOver : PidIsAlive(p)}
  <2>1. born' = born /\ clock' = clock
    BY <1>7 DEF WaitOver
  <2>2. \/ UNCHANGED <<ident, known, tracked>>
        \/ Release
        \/ tracked' = left /\ UNCHANGED <<ident, known>>
    BY <1>7 DEF WaitOver
  <2>3. ASSUME tracked' = left, UNCHANGED <<ident, known>>
        PROVE  IdentityInv'
    <3>1. ASSUME NEW p \in Pids, born[p] # 0, born[p] \in known
          PROVE  p \in left
      <4>1. p \in tracked /\ ident[p] = born[p]
        BY <3>1 DEF IdentityInv
      <4>2. ~ProvenGone(p)
        BY <3>1, <4>1 DEF ProvenGone, Expected
      <4> QED
        BY <4>1, <4>2 DEF PidIsAlive, LeftOver
    <3> QED
      BY <2>1, <2>3, <3>1 DEF IdentityInv
  <2> QED
    BY <2>1, <2>2, <2>3, IdentityRelease DEF IdentityInv
<1>8. ASSUME \/ PollWake \/ Reap \/ SuspendDone \/ ResumeBegin \/ WaitOn
             \/ \E p \in Pids : \/ SuspendNext(p) \/ SuspendFails(p)
                              \/ ResumeNext(p) \/ SignalNext(p)
      PROVE  IdentityInv'
  <2>1. UNCHANGED <<clock, born, ident, known, tracked>>
    BY <1>8 DEF PollWake, Reap, SuspendDone, ResumeBegin, WaitOn, SuspendNext,
                SuspendFails, ResumeNext, SignalNext
  <2> QED
    BY <2>1 DEF IdentityInv
<1> QED
  BY <1>1, <1>2, <1>3, <1>4, <1>5, <1>6, <1>7, <1>8 DEF ManagerStep

LEMMA IdentityAlways == Spec => []IdentityInv
<1>1. TypeOK /\ IdentityInv /\ [Next]_vars => IdentityInv'
  <2> SUFFICES ASSUME TypeOK, IdentityInv, [Next]_vars
               PROVE  IdentityInv'
    OBVIOUS
  <2> USE DEF managerVars, treeVars, tableVars
  <2>1. CASE ManagerStep
    BY <2>1, IdentityStep
  <2>2. ASSUME NEW p \in Pids, NEW c \in Pids, NEW leaves \in BOOLEAN, Fork(p, c, leaves)
        PROVE  IdentityInv'
    BY <2>2, IdentitySystem DEF Fork
  <2>3. ASSUME NEW c \in Pids, Stranger(c)
        PROVE  IdentityInv'
    BY <2>3, IdentitySystem DEF Stranger
  <2>4. ASSUME NEW p \in Pids, Exit(p)
        PROVE  IdentityInv'
    BY <2>4, IdentitySystem DEF Exit
  <2>5. ASSUME \/ \E p \in Pids : UserStop(p) \/ UserContinue(p)
               \/ AccessChanges \/ UNCHANGED vars
        PROVE  IdentityInv'
    <3>1. UNCHANGED <<clock, born, ident, known, tracked>>
      BY <2>5 DEF UserStop, UserContinue, AccessChanges, vars, osVars
    <3> QED
      BY <3>1 DEF IdentityInv
  <2> QED
    BY <2>1, <2>2, <2>3, <2>4, <2>5 DEF Next, SystemStep
<1> QED
  BY TypeCorrect, IdentityInit, <1>1, PTL DEF Spec

\* A process that was tracked under its own identity stays tracked until it
\* exits (_refresh_tracked_pids 711-726, terminate 566-589).
THEOREM MembersTracked == Spec => []MembersStayTracked
<1>1. IdentityInv => MembersStayTracked
  BY DEF IdentityInv, MembersStayTracked
<1> QED
  BY IdentityAlways, <1>1, PTL

(***************************************************************************)
(* What DrainTracer suspended, it still owes a resume                      *)
(***************************************************************************)

\* A suspended process is alive under the identity its resume is checked
\* against, so no open, refresh or cleanup can prove it gone; and pause()
\* only suspends tracked processes.
OwedInv ==
    /\ EverySuspendedIsOwed
    /\ \A p \in Pids : born[p] = 0 => stop[p] = {}
    /\ op = "pause" /\ phase = "suspend" => todo \subseteq tracked

LEMMA OwedIsAlive ==
    ASSUME TypeOK, OwedInv, NEW p \in Pids, "ours" \in stop[p]
    PROVE  /\ ~ProvenGone(p) /\ p \in tracked /\ p \in suspended
           /\ Expected(p) # 0 /\ Expected(p) = born[p]
BY DEF OwedInv, EverySuspendedIsOwed, ProvenGone, TypeOK

LEMMA OwedInit == Init => OwedInv
BY DEF Init, OwedInv, EverySuspendedIsOwed

LEMMA OwedInstall ==
    ASSUME TypeOK, OwedInv, NEW cut, Install(Refreshed(cut)),
           UNCHANGED <<born, stop, root, rootCreated>>,
           op' = "pause" /\ phase' = "suspend" => todo' \subseteq tracked'
    PROVE  OwedInv'
<1>1. ASSUME NEW p \in Pids, "ours" \in stop[p]
      PROVE  /\ p \in suspended' /\ p \in tracked'
             /\ Expected(p)' = born[p] /\ rootCreated # 0
  <2>1. /\ ~ProvenGone(p) /\ p \in tracked /\ p \in suspended
        /\ Expected(p) # 0 /\ Expected(p) = born[p]
    BY <1>1, OwedIsAlive
  <2>2. p \in tracked' /\ ident'[p] = ident[p] /\ p \in suspended'
    BY <2>1, RefreshKeeps DEF Install
  <2>3. Expected(p)' = Expected(p)
    BY <2>2 DEF Expected
  <2> QED
    BY <1>1, <2>1, <2>2, <2>3 DEF OwedInv, EverySuspendedIsOwed
<1> QED
  BY <1>1 DEF OwedInv, EverySuspendedIsOwed

\* Steps that change neither what is stopped nor what is tracked, and drop
\* from the debts only processes proven gone.
LEMMA OwedKept ==
    ASSUME TypeOK, OwedInv,
           UNCHANGED <<born, stop, root, rootCreated, ident, tracked>>,
           \A p \in suspended \ suspended' : ProvenGone(p),
           op' = "pause" /\ phase' = "suspend" =>
             op = "pause" /\ phase = "suspend" /\ todo' \subseteq todo
    PROVE  OwedInv'
<1>1. ASSUME NEW p \in Pids, "ours" \in stop[p]
      PROVE  p \in suspended'
  BY <1>1, OwedIsAlive
<1>2. \A p \in Pids : Expected(p)' = Expected(p)
  BY DEF Expected
<1> QED
  BY <1>1, <1>2 DEF OwedInv, EverySuspendedIsOwed

\* Nothing is forgotten when nothing was suspended.
LEMMA OwedNothing ==
    ASSUME OwedInv,
           \A p \in Pids : "ours" \notin stop'[p],
           \A p \in Pids : born'[p] = 0 => stop'[p] = {},
           op' # "pause"
    PROVE  OwedInv'
BY DEF OwedInv, EverySuspendedIsOwed

LEMMA OwedPause ==
    ASSUME TypeOK, OwedInv,
           \/ PauseBegin \/ SuspendDone
           \/ \E p \in Pids : SuspendNext(p) \/ SuspendFails(p)
    PROVE  OwedInv'
<1> USE DEF osVars, tableVars, bindVars, treeVars, debtVars, opVars, managerVars
<1>1. CASE PauseBegin
  <2>1. PICK cut \in Cuts : /\ Install(Refreshed(cut))
                            /\ Enter("pause", "suspend", Refreshed(cut).tracked)
    BY <1>1 DEF PauseBegin
  <2>2. todo' = tracked'
    BY <2>1 DEF Install, Enter
  <2>3. UNCHANGED <<born, stop, root, rootCreated>>
    BY <1>1 DEF PauseBegin
  <2> QED
    BY <2>1, <2>2, <2>3, OwedInstall
<1>2. CASE SuspendDone
  BY <1>2, OwedKept DEF SuspendDone, Idle, Enter
<1>3. ASSUME NEW p \in Pids, SuspendFails(p)
      PROVE  OwedInv'
  BY <1>3, OwedKept DEF SuspendFails, Enter
<1>4. ASSUME NEW p \in Pids, SuspendNext(p)
      PROVE  OwedInv'
  <2>1. CASE p \in suspended \/ AlreadyStopped(p)
    BY <1>4, <2>1, OwedKept DEF SuspendNext
  <2>2. CASE ~(p \in suspended \/ AlreadyStopped(p))
    <3>1. /\ p \in tracked /\ MayControl(p)
          /\ suspended' = suspended \cup {p}
          /\ stop' = [stop EXCEPT ![p] = @ \cup {"ours"}]
          /\ UNCHANGED <<born, root, rootCreated, ident, tracked, op, phase>>
          /\ todo' = todo \ {p} /\ op = "pause" /\ phase = "suspend"
      BY <1>4, <2>2 DEF SuspendNext, OwedInv
    <3>2. Expected(p) = born[p] /\ born[p] # 0 /\ rootCreated # 0
      BY <3>1 DEF MayControl, PidIsAlive, ProvenGone
    <3>3. \A q \in Pids : Expected(q)' = Expected(q)
      BY <3>1 DEF Expected
    <3>4. \A q \in Pids : q # p => stop'[q] = stop[q]
      BY <3>1 DEF TypeOK
    <3> QED
      BY <3>1, <3>2, <3>3, <3>4 DEF OwedInv, EverySuspendedIsOwed
  <2> QED
    BY <2>1, <2>2
<1> QED
  BY <1>1, <1>2, <1>3, <1>4

LEMMA OwedResume ==
    ASSUME TypeOK, OwedInv,
           \/ ResumeBegin \/ ResumeDone \/ DetachBegin
           \/ \E p \in Pids : ResumeNext(p)
    PROVE  OwedInv'
<1> USE DEF osVars, tableVars, bindVars, treeVars, debtVars, opVars, managerVars
<1>1. CASE ResumeBegin
  BY <1>1, OwedKept DEF ResumeBegin, Enter
<1>2. ASSUME suspended = {}, UNCHANGED <<born, stop>>, op' # "pause"
      PROVE  OwedInv'
  <2>1. \A p \in Pids : "ours" \notin stop[p]
    BY <1>2 DEF OwedInv, EverySuspendedIsOwed
  <2> QED
    BY <1>2, <2>1, OwedNothing DEF OwedInv
<1>3. CASE ResumeDone
  <2>1. UNCHANGED <<born, stop, suspended>> /\ ~(op' = "pause" /\ phase' = "suspend")
    BY <1>3 DEF ResumeDone, Idle, Enter
  <2>2. CASE op = "detach" /\ suspended = {}
    BY <1>2, <1>3, <2>1, <2>2 DEF ResumeDone, Idle, Enter
  <2>3. CASE ~(op = "detach" /\ suspended = {})
    <3>1. UNCHANGED <<root, rootCreated, ident, tracked>>
      BY <1>3, <2>3 DEF ResumeDone
    <3> QED
      BY <2>1, <3>1, OwedKept
  <2> QED
    BY <2>2, <2>3
<1>4. CASE DetachBegin
  <2>1. CASE suspended = {}
    BY <1>2, <1>4, <2>1 DEF DetachBegin
  <2>2. CASE suspended # {}
    BY <1>4, <2>2, OwedKept DEF DetachBegin, Enter
  <2> QED
    BY <2>1, <2>2
<1>5. ASSUME NEW p \in Pids, ResumeNext(p)
      PROVE  OwedInv'
  <2>1. CASE suspended' = suspended \ {p} /\ stop' = [stop EXCEPT ![p] = Continued(p)]
    <3>1. /\ stop' = [stop EXCEPT ![p] = Continued(p)]
          /\ suspended' = suspended \ {p}
          /\ UNCHANGED <<born, root, rootCreated, ident, tracked, op, phase>>
          /\ phase = "resume"
      BY <1>5, <2>1 DEF ResumeNext
    <3>2. "ours" \notin Continued(p) /\ (stop[p] = {} => Continued(p) = {})
      BY DEF Continued
    <3>3. /\ \A q \in Pids : q # p => stop'[q] = stop[q]
          /\ stop'[p] = Continued(p)
      BY <3>1 DEF TypeOK
    <3>4. \A q \in Pids : Expected(q)' = Expected(q)
      BY <3>1 DEF Expected
    <3> QED
      BY <3>1, <3>2, <3>3, <3>4 DEF OwedInv, EverySuspendedIsOwed
  <2>2. CASE /\ suspended' = IF ProvenGone(p) THEN suspended \ {p} ELSE suspended
             /\ stop' = stop
    BY <1>5, <2>2, OwedKept DEF ResumeNext
  <2> QED
    BY <1>5, <2>1, <2>2 DEF ResumeNext
<1> QED
  BY <1>1, <1>3, <1>4, <1>5

LEMMA OwedEnd ==
    ASSUME TypeOK, OwedInv,
           \/ \E how \in {"terminate", "kill"} : EndBegin(how)
           \/ \E p \in Pids : SignalNext(p)
           \/ WaitLook \/ WaitOn \/ WaitOver
    PROVE  OwedInv'
<1> USE DEF osVars, tableVars, bindVars, treeVars, debtVars, opVars, managerVars
<1>1. ASSUME NEW how \in {"terminate", "kill"}, EndBegin(how)
      PROVE  OwedInv'
  <2>1. UNCHANGED <<born, stop, root, rootCreated>>
    BY <1>1 DEF EndBegin
  <2>2. CASE popen = "none" /\ tracked = {}
    <3>1. UNCHANGED <<ident, tracked, suspended, op, phase, todo>>
      BY <1>1, <2>2 DEF EndBegin
    <3> QED
      BY <2>1, <3>1, OwedKept
  <2>3. CASE ~(popen = "none" /\ tracked = {})
    <3>1. PICK cut : /\ Install(Refreshed(cut))
                    /\ op' = how
      BY <1>1, <2>3 DEF EndBegin, Enter
    <3> QED
      BY <2>1, <3>1, OwedInstall
  <2> QED
    BY <2>2, <2>3
<1>2. ASSUME NEW p \in Pids, SignalNext(p)
      PROVE  OwedInv'
  BY <1>2, OwedKept DEF SignalNext
<1>3. CASE WaitLook
  <2>1. PICK cut : Install(Refreshed(cut))
    BY <1>3 DEF WaitLook
  <2>2. UNCHANGED <<born, stop, root, rootCreated>> /\ phase' = "decide"
    BY <1>3 DEF WaitLook, Enter
  <2> QED
    BY <2>1, <2>2, OwedInstall
<1>4. CASE WaitOn
  BY <1>4, OwedKept DEF WaitOn, Enter
<1>5. CASE WaitOver
  <2> DEFINE left == {p \in LeftOver : PidIsAlive(p)}
  <2>1. UNCHANGED <<born, stop>> /\ phase = "decide"
    BY <1>5 DEF WaitOver
  <2>2. \A p \in Pids : "ours" \in stop[p] => p \in left /\ p \in suspended
    BY OwedIsAlive DEF PidIsAlive, LeftOver
  <2>3. CASE op' = "kill"
    <3>1. /\ UNCHANGED <<root, rootCreated, ident, tracked>>
          /\ suspended' = {p \in suspended : ~ProvenGone(p)}
      BY <1>5, <2>3 DEF WaitOver, Idle, Enter
    <3> QED
      BY <2>1, <2>3, <3>1, OwedKept
  <2>4. CASE op' # "kill"
    <3>1. /\ suspended' = suspended \cap left /\ op' = "none"
          /\ IF left = {} THEN Release
             ELSE tracked' = left /\ UNCHANGED <<root, rootCreated, ident>>
      BY <1>5, <2>4 DEF WaitOver, Idle, Enter
    <3>2. CASE left = {}
      BY <2>1, <2>2, <3>1, <3>2, OwedNothing DEF OwedInv
    <3>3. CASE left # {}
      <4> HIDE DEF left
      <4>1. \A p \in Pids : Expected(p)' = Expected(p)
        BY <3>1, <3>3 DEF Expected
      <4> QED
        BY <2>1, <2>2, <3>1, <3>3, <4>1 DEF OwedInv, EverySuspendedIsOwed
    <3> QED
      BY <3>2, <3>3
  <2> QED
    BY <2>3, <2>4
<1> QED
  BY <1>1, <1>2, <1>3, <1>4, <1>5

LEMMA OwedTree ==
    ASSUME TypeOK, OwedInv,
           \/ PollWake \/ PollRefresh \/ RefreshProcessTree \/ AttachDone \/ Reap
    PROVE  OwedInv'
<1> USE DEF osVars, tableVars, bindVars, treeVars, debtVars, opVars, managerVars
<1>1. CASE PollWake \/ Reap
  BY <1>1, OwedKept DEF PollWake, Reap
<1>2. CASE PollRefresh \/ RefreshProcessTree \/ AttachDone
  <2>1. \E cut : Install(Refreshed(cut))
    BY <1>2 DEF PollRefresh, RefreshProcessTree, AttachDone
  <2>2. UNCHANGED <<born, stop, root, rootCreated>> /\ op' # "pause"
    BY <1>2 DEF PollRefresh, RefreshProcessTree, AttachDone, Idle, Enter
  <2> QED
    BY <2>1, <2>2, OwedInstall
<1> QED
  BY <1>1, <1>2

\* A manager that is bound while it tracks nothing forgets no debt.
LEMMA OwedBind ==
    ASSUME TypeOK, OwedInv, ~RebindLive,
           NEW p \in Pids, NEW picked \in Births, Start(p) \/ Attach(p, picked)
    PROVE  OwedInv'
<1>1. tracked = {} /\ op' # "pause"
  BY DEF Start, Attach, MayRebind, Enter, opVars
<1>2. \A q \in Pids : "ours" \notin stop[q]
  BY <1>1 DEF OwedInv, EverySuspendedIsOwed
<1>3. /\ \A q \in Pids : stop'[q] \in {{}, stop[q]}
      /\ \A q \in Pids : born'[q] = 0 => born[q] = 0
  <2>1. CASE Attach(p, picked)
    BY <2>1 DEF Attach, osVars, tableVars
  <2>2. CASE Start(p)
    <3>1. \A q \in Pids : stop'[q] \in {{}, stop[q]}
      BY <2>2 DEF Start, TypeOK
    <3>2. clock \in Nat /\ \A q \in Pids : q # p => born'[q] = born[q]
      BY <2>2 DEF Start, TypeOK, Births
    <3>3. born'[p] # 0
      BY <2>2, <3>2 DEF Start, TypeOK
    <3> QED
      BY <3>1, <3>2, <3>3
  <2> QED
    BY <2>1, <2>2
<1> QED
  BY <1>1, <1>2, <1>3, OwedNothing DEF OwedInv

\* What a step of the system may do to the holders of the PIDs: a PID gets a
\* new holder or none, which nobody has stopped, or nobody of the manager
\* stops its holder.
LEMMA OwedHolders ==
    ASSUME OwedInv, UNCHANGED managerVars,
           \A p \in Pids : \/ stop'[p] = {}
                           \/ born'[p] = born[p] /\ stop'[p] = stop[p]
                           \/ born[p] # 0 /\ born'[p] = born[p]
                              /\ ("ours" \in stop'[p] => "ours" \in stop[p])
    PROVE  OwedInv'
<1> USE DEF managerVars, bindVars, treeVars, debtVars, opVars
<1>1. \A p \in Pids : Expected(p)' = Expected(p)
  BY DEF Expected
<1> QED
  BY <1>1 DEF OwedInv, EverySuspendedIsOwed

LEMMA OwedSystem ==
    ASSUME TypeOK, OwedInv, SystemStep
    PROVE  OwedInv'
<1> USE DEF tableVars
<1>1. ASSUME NEW p \in Pids, NEW c \in Pids, NEW leaves \in BOOLEAN, Fork(p, c, leaves)
      PROVE  OwedInv'
  <2>1. /\ stop'[c] = {}
        /\ \A q \in Pids : q = c \/ (born'[q] = born[q] /\ stop'[q] = stop[q])
    BY <1>1 DEF Fork, TypeOK
  <2>2. UNCHANGED managerVars
    BY <1>1 DEF Fork
  <2>3. \A q \in Pids : \/ stop'[q] = {}
                        \/ born'[q] = born[q] /\ stop'[q] = stop[q]
                        \/ born[q] # 0 /\ born'[q] = born[q]
                           /\ ("ours" \in stop'[q] => "ours" \in stop[q])
    BY <2>1
  <2> QED
    BY <2>2, <2>3, OwedHolders
<1>2. ASSUME NEW c \in Pids, Stranger(c)
      PROVE  OwedInv'
  <2>1. /\ stop'[c] = {}
        /\ \A q \in Pids : q = c \/ (born'[q] = born[q] /\ stop'[q] = stop[q])
    BY <1>2 DEF Stranger, TypeOK
  <2>2. UNCHANGED managerVars
    BY <1>2 DEF Stranger
  <2>3. \A q \in Pids : \/ stop'[q] = {}
                        \/ born'[q] = born[q] /\ stop'[q] = stop[q]
                        \/ born[q] # 0 /\ born'[q] = born[q]
                           /\ ("ours" \in stop'[q] => "ours" \in stop[q])
    BY <2>1
  <2> QED
    BY <2>2, <2>3, OwedHolders
<1>3. ASSUME NEW p \in Pids, Exit(p)
      PROVE  OwedInv'
  <2>1. /\ stop'[p] = {}
        /\ \A q \in Pids : q = p \/ (born'[q] = born[q] /\ stop'[q] = stop[q])
    BY <1>3 DEF Exit, TypeOK
  <2>2. UNCHANGED managerVars
    BY <1>3 DEF Exit
  <2>3. \A q \in Pids : \/ stop'[q] = {}
                        \/ born'[q] = born[q] /\ stop'[q] = stop[q]
                        \/ born[q] # 0 /\ born'[q] = born[q]
                           /\ ("ours" \in stop'[q] => "ours" \in stop[q])
    BY <2>1
  <2> QED
    BY <2>2, <2>3, OwedHolders
<1>4. ASSUME NEW p \in Pids, UserStop(p)
      PROVE  OwedInv'
  BY <1>4, OwedHolders DEF UserStop, TypeOK
<1>5. ASSUME NEW p \in Pids, UserContinue(p)
      PROVE  OwedInv'
  <2>1. born[p] # 0
    BY <1>5 DEF UserContinue, OwedInv
  <2> QED
    BY <1>5, <2>1, OwedHolders DEF UserContinue, TypeOK
<1>6. CASE AccessChanges
  BY <1>6, OwedHolders DEF AccessChanges
<1> QED
  BY <1>1, <1>2, <1>3, <1>4, <1>5, <1>6 DEF SystemStep

\* As long as a manager is bound to a new program only when it tracks none,
\* every process DrainTracer suspended stays on the list of resumes it owes,
\* tracked, under the identity a resume is checked against.
THEOREM ResumeOwed ==
    ASSUME ~RebindLive
    PROVE  Spec => []EverySuspendedIsOwed
<1>1. TypeOK /\ OwedInv /\ [Next]_vars => OwedInv'
  <2> SUFFICES ASSUME TypeOK, OwedInv, [Next]_vars
               PROVE  OwedInv'
    OBVIOUS
  <2>1. CASE ManagerStep
    <3>1. ASSUME NEW p \in Pids, Start(p)
          PROVE  OwedInv'
      <4>1. 0 \in Births
        BY DEF Births
      <4> QED
        BY <3>1, <4>1, OwedBind
    <3>2. ASSUME NEW p \in Pids, NEW picked \in Births, Attach(p, picked)
          PROVE  OwedInv'
      BY <3>2, OwedBind
    <3> QED
      BY <2>1, <3>1, <3>2, OwedTree, OwedPause, OwedResume, OwedEnd DEF ManagerStep
  <2>2. CASE SystemStep
    BY <2>2, OwedSystem
  <2>3. CASE UNCHANGED vars
    BY <2>3, OwedKept DEF vars, osVars, tableVars, managerVars, bindVars, treeVars,
                debtVars, opVars
  <2> QED
    BY <2>1, <2>2, <2>3 DEF Next
<1>2. OwedInv => EverySuspendedIsOwed
  BY DEF OwedInv
<1> QED
  BY TypeCorrect, OwedInit, <1>1, <1>2, PTL DEF Spec

(***************************************************************************)
(* No control reaches a foreign process                                    *)
(***************************************************************************)

\* What a member is: it descends from the program the user chose, and is not
\* DrainTracer's own, unless that is what was attached to.
Ours(p) == rootBirth \in kin[p] /\ (attached /\ p \in Monitor => p = root)

\* Who names "p" as its parent, and was born in the given time and before
\* any other process took the PID over, descends from the program.
Line(p, from, to) ==
    \A c \in Pids :
        /\ parent[c] = p /\ c # p /\ born[c] # 0
        /\ from <= born[c] /\ born[c] <= to
        /\ born[p] \in {0, from} \/ born[c] < born[p]
        => rootBirth \in kin[c]

\* The process table: see FamilyAssumption.  Every creation time is readable.
FamilyInv ==
    /\ clock >= Clock0 /\ denied = {}
    /\ \A p \in Pids : born[p] # 0 => born[p] \in kin[p]
    /\ \A p, c \in Pids :
         parent[c] = p /\ born[p] # 0 /\ born[c] >= born[p] => kin[p] \subseteq kin[c]
    /\ \A p \in Monitor : born[p] # 0 /\ kin[p] = Kin0[p]

\* What the manager is bound to, and that nothing is done to a tree which
\* contains DrainTracer.
BoundInv ==
    /\ root # NoPid => rootCreated = rootBirth /\ rootBirth \in known /\ rootBirth # 0
    /\ root = NoPid => tracked = {} /\ DOMAIN departed = {}
    /\ root # NoPid /\ ~attached => rootBirth > Clock0
    /\ sessionKnown = TRUE =>
         /\ root # NoPid /\ ~attached
         /\ \A p \in inSession : born[p] # 0 /\ rootBirth \in kin[p]
    /\ ContainsMonitor => suspended = {} /\ phase \in {"idle", "bound"}
    /\ \A p \in Pids : ident[p] # 0 => ident[p] \in known

\* Members are ours while they live, and so is whom they leave behind.
LineInv ==
    /\ \A p \in tracked : /\ ident[p] # 0 /\ Line(p, ident[p], clock)
                          /\ born[p] = ident[p] => Ours(p)
    /\ \A p \in DOMAIN departed :
         /\ departed[p].created # 0 /\ departed[p].goneAt <= clock
         /\ Line(p, departed[p].created, departed[p].goneAt)

\* A debt is to a member that DrainTracer stopped, or is void.
OwnInv ==
    \A p \in suspended : p \in tracked /\ (born[p] = ident[p] => born[p] \in halted)

ForeignInv == FamilyInv /\ BoundInv /\ LineInv /\ OwnInv /\ strayed = FALSE

-----------------------------------------------------------------------------
\* What no open can prove gone is a member (_open_tracked_unlocked).
LEMMA AliveIsTracked ==
    ASSUME TypeOK, IdentityInv, ForeignInv, NEW p \in Pids, ~ProvenGone(p), Expected(p) # 0
    PROVE  p \in tracked /\ ident[p] = born[p] /\ born[p] # 0 /\ Ours(p)
<1>1. born[p] # 0 /\ born[p] = Expected(p)
  BY DEF ForeignInv, FamilyInv, ProvenGone
<1>2. Expected(p) \in known
  BY DEF Expected, ForeignInv, BoundInv
<1>3. p \in tracked /\ ident[p] = born[p]
  BY <1>1, <1>2 DEF IdentityInv
<1> QED
  BY <1>1, <1>3 DEF ForeignInv, LineInv

LEMMA SeenIsBirth ==
    ASSUME TypeOK, ForeignInv
    PROVE  \A p \in Pids : Seen(p) = born[p] /\ born[p] \in Nat
<1>1. denied = {} /\ born \in [Pids -> 0..MaxBirths]
  BY DEF ForeignInv, FamilyInv, TypeOK, Births
<1>2. ASSUME NEW p \in Pids
      PROVE  Seen(p) = born[p] /\ born[p] \in Nat
  <2>1. born[p] \in 0..MaxBirths
    BY <1>1
  <2>2. Seen(p) = born[p]
    BY <1>1 DEF Seen
  <2> QED
    BY <2>1, <2>2
<1> QED
  BY <1>2

\* Whatever an operation may control is of the tree.
LEMMA ControlStays ==
    ASSUME TypeOK, IdentityInv, ForeignInv, NEW p \in Pids, MayControl(p),
           phase \notin {"idle", "bound"}
    PROVE  p \in tracked /\ ident[p] = born[p] /\ ~Stray(p)
<1>1. p \in tracked /\ ident[p] = born[p] /\ Ours(p)
  BY AliveIsTracked DEF MayControl, PidIsAlive
<1>2. root # NoPid /\ ~ContainsMonitor
  BY <1>1 DEF ForeignInv, BoundInv
<1>3. CASE attached
  BY <1>1, <1>2, <1>3 DEF Ours, Stray, ContainsMonitor
<1>4. CASE ~attached
  <2>1. rootBirth > Clock0
    BY <1>2, <1>4 DEF ForeignInv, BoundInv
  <2>2. p \in Monitor => rootBirth \in 1..Clock0
    BY <1>1 DEF Ours, ForeignInv, FamilyInv
  <2> QED
    BY <1>1, <2>1, <2>2 DEF Ours, Stray
<1> QED
  BY <1>1, <1>3, <1>4

\* Who has a living process of the tree for its parent is of the tree.
LEMMA KinOfOurs ==
    ASSUME TypeOK, ForeignInv, NEW p \in Pids, born[p] # 0, rootBirth \in kin[p]
    PROVE  Line(p, born[p], clock)
BY DEF Line, ForeignInv, FamilyInv, TypeOK, Births

\* What a search of the session and of the members finds (_walk_tree,
\* _linux_session_members).
LEMMA FoundAreOurs ==
    ASSUME TypeOK, IdentityInv, ForeignInv,
           NEW p \in {q \in tracked : PidIsAlive(q)} \cup SessionRoots
    PROVE  p \in Pids /\ born[p] # 0 /\ IdentAfterSession[p] = born[p] /\ Ours(p)
<1>1. CASE p \in tracked /\ PidIsAlive(p)
  <2>1. p \in Pids /\ ident[p] # 0 /\ ~ProvenGone(p)
    BY <1>1 DEF TypeOK, ForeignInv, LineInv, PidIsAlive
  <2>2. Expected(p) # 0
    BY <2>1 DEF Expected
  <2> QED
    BY <2>1, <2>2, AliveIsTracked DEF IdentAfterSession
<1>2. CASE p \in SessionRoots
  <2>1. p \in Pids /\ p \in SessionMembers /\ p \in inSession /\ ~ProvenGone(p) /\ sessionKnown = TRUE
    BY <1>2 DEF SessionRoots, SessionMembers, SessionUsable, TypeOK
  <2>2. born[p] # 0 /\ Ours(p) /\ Seen(p) = born[p]
    BY <2>1 DEF ForeignInv, BoundInv, FamilyInv, Ours, Seen
  <2>3. Expected(p) # 0 => ident[p] = born[p]
    BY <2>1, AliveIsTracked
  <2> QED
    BY <2>1, <2>2, <2>3 DEF IdentAfterSession
<1> QED
  BY <1>1, <1>2

\* What is remembered of members that are gone (_departed).
LEMMA GoneLines ==
    ASSUME TypeOK, ForeignInv, NEW alive, NEW cut
    PROVE  LET gone == DepartedAfter(alive, cut)
           IN \A p \in DOMAIN gone :
                /\ p \in Pids /\ gone[p].created # 0 /\ gone[p].goneAt <= clock
                /\ Line(p, gone[p].created, gone[p].goneAt)
<1> DEFINE fresh == (tracked \ alive) \ DOMAIN departed
           kept == {p \in DOMAIN departed : departed[p].goneAt >= cut}
           gone == DepartedAfter(alive, cut)
<1>1. gone = [p \in fresh \cup kept |->
                IF p \in fresh THEN [created |-> Expected(p), goneAt |-> clock] ELSE departed[p]]
  BY DEF DepartedAfter
<1>2. ASSUME NEW p \in fresh
      PROVE  /\ p \in Pids /\ gone[p].created # 0 /\ gone[p].goneAt <= clock
             /\ Line(p, gone[p].created, gone[p].goneAt)
  <2>1. gone[p].created = ident[p] /\ gone[p].goneAt = clock
    BY <1>1, <1>2 DEF Expected, ForeignInv, LineInv
  <2> QED
    BY <1>2, <2>1 DEF ForeignInv, LineInv, TypeOK, Births
<1>3. ASSUME NEW p \in kept, p \notin fresh
      PROVE  /\ p \in Pids /\ gone[p].created # 0 /\ gone[p].goneAt <= clock
             /\ Line(p, gone[p].created, gone[p].goneAt)
  <2>1. gone[p] = departed[p] /\ p \in DOMAIN departed
    BY <1>1, <1>3
  <2> QED
    BY <2>1 DEF ForeignInv, LineInv, TypeOK
<1> QED
  BY <1>1, <1>2, <1>3

\* The walk adopts descendants of the program only: they are closed under
\* its rules (_walk_tree, _orphan_of).
LEMMA AdoptedAreOurs ==
    ASSUME TypeOK, ForeignInv, NEW members, NEW gone,
           \A p \in members : /\ p \in Pids /\ born[p] # 0 /\ IdentAfterSession[p] = born[p]
                              /\ rootBirth \in kin[p],
           \A p \in DOMAIN gone : /\ p \in Pids /\ gone[p].created # 0
                                  /\ Line(p, gone[p].created, gone[p].goneAt)
    PROVE  \A c \in Adopted(members, gone) : c \in Pids /\ born[c] # 0 /\ Ours(c)
<1> DEFINE G == {c \in Pids : born[c] # 0 /\ rootBirth \in kin[c] /\ ~IsMonitor(c)}
<1>1. \A p \in Pids : Seen(p) = born[p] /\ born[p] \in Nat
  BY SeenIsBirth
<1>2. ASSUME NEW c \in Pids, NEW p \in DOMAIN gone, ChildOfDeparted(p, c, members, gone)
      PROVE  c \in G
  <2>1. /\ parent[c] = p /\ c # p /\ born[c] # 0 /\ ~IsMonitor(c) /\ p \in Pids
        /\ born[c] >= gone[p].created
    BY <1>1, <1>2 DEF ChildOfDeparted, Joins
  <2>2. /\ born[c] <= gone[p].goneAt
        /\ \/ ReusedSince(p, gone[p].created) = 0
           \/ born[c] < ReusedSince(p, gone[p].created)
    BY <1>1, <1>2 DEF ChildOfDeparted, OrphanOf
  <2>3. born[p] \in {0, gone[p].created} \/ born[c] < born[p]
    BY <1>1, <2>1, <2>2 DEF ReusedSince
  <2> QED
    BY <2>1, <2>2, <2>3 DEF Line
<1>3. ASSUME NEW c \in Pids, NEW p \in Pids, NEW created, created = born[p],
             born[p] # 0, rootBirth \in kin[p], ChildOfLive(p, c, members, created, gone)
      PROVE  c \in G
  <2>1. parent[c] = p /\ born[c] # 0 /\ ~IsMonitor(c) /\ born[c] >= born[p]
    BY <1>1, <1>3 DEF ChildOfLive, Joins
  <2> QED
    BY <1>3, <2>1 DEF ForeignInv, FamilyInv
<1>4. \A c \in Pids :
        \/ \E p \in DOMAIN gone : ChildOfDeparted(p, c, members, gone)
        \/ \E p \in members \ DOMAIN gone :
             ChildOfLive(p, c, members, IdentAfterSession[p], gone)
        \/ \E p \in G : ChildOfLive(p, c, members, Seen(p), gone)
        => c \in G
  BY <1>1, <1>2, <1>3
<1>5. Adopted(members, gone) \subseteq G
  <2>1. G \in SUBSET Pids
    OBVIOUS
  <2> HIDE DEF G
  <2> QED
    BY <1>4, <2>1 DEF Adopted
<1> QED
  BY <1>5 DEF Ours, IsMonitor

\* What a refresh makes of the tree.
LEMMA RefreshIsOurs ==
    ASSUME TypeOK, IdentityInv, ForeignInv, NEW cut, root # NoPid
    PROVE  LET view == Refreshed(cut)
           IN /\ \A p \in view.tracked : /\ p \in Pids /\ born[p] # 0 /\ Ours(p)
                                         /\ view.ident[p] = born[p]
              /\ \A p \in Pids : view.ident[p] # 0 => view.ident[p] \in view.known
              /\ \A p \in DOMAIN view.departed :
                   /\ p \in Pids /\ view.departed[p].created # 0 /\ view.departed[p].goneAt <= clock
                   /\ Line(p, view.departed[p].created, view.departed[p].goneAt)
              /\ known \subseteq view.known
              /\ \A p \in view.suspended : p \in suspended /\ p \in view.tracked /\ ~ProvenGone(p)
              /\ view.sessionKnown = TRUE => sessionKnown = TRUE
<1> DEFINE alive == {p \in tracked : PidIsAlive(p)}
           gone == DepartedAfter(alive, cut)
           found == alive \cup SessionRoots
           new == Adopted(found, gone)
           view == Refreshed(cut)
<1>1. /\ view.tracked = found \cup new
      /\ view.suspended = {p \in suspended : ~ProvenGone(p)} \cap (found \cup new)
      /\ view.ident = [p \in Pids |-> IF p \notin found \cup new THEN 0
                                      ELSE IF p \in new /\ Seen(p) # 0 THEN Seen(p)
                                      ELSE IdentAfterSession[p]]
      /\ view.departed = [p \in DOMAIN gone \ new |-> gone[p]]
      /\ view.sessionKnown = SessionUsable
      /\ view.known = known \cup {IdentAfterSession[p] : p \in found} \cup {Seen(p) : p \in new}
  BY DEF Refreshed
<1>2. \A p \in found : p \in Pids /\ born[p] # 0 /\ IdentAfterSession[p] = born[p] /\ Ours(p)
  BY FoundAreOurs
<1>3. \A p \in DOMAIN gone : /\ p \in Pids /\ gone[p].created # 0 /\ gone[p].goneAt <= clock
                             /\ Line(p, gone[p].created, gone[p].goneAt)
  BY GoneLines
<1>4. \A p \in new : p \in Pids /\ born[p] # 0 /\ Ours(p) /\ Seen(p) = born[p]
  <2> HIDE DEF found, gone
  <2>1. \A p \in found : /\ p \in Pids /\ born[p] # 0 /\ IdentAfterSession[p] = born[p]
                         /\ rootBirth \in kin[p]
    BY <1>2 DEF Ours
  <2>2. \A p \in DOMAIN gone : /\ p \in Pids /\ gone[p].created # 0
                               /\ Line(p, gone[p].created, gone[p].goneAt)
    BY <1>3
  <2>3. \A p \in new : p \in Pids /\ born[p] # 0 /\ Ours(p)
    BY <2>1, <2>2, AdoptedAreOurs
  <2> QED
    BY <2>3, SeenIsBirth
<1> HIDE DEF found, gone, new, view
<1>5. \A p \in view.tracked : p \in Pids /\ born[p] # 0 /\ Ours(p) /\ view.ident[p] = born[p]
  BY <1>1, <1>2, <1>4
<1>6. \A p \in Pids : view.ident[p] # 0 => view.ident[p] \in view.known
  <2> SUFFICES ASSUME NEW p \in Pids, view.ident[p] # 0 PROVE view.ident[p] \in view.known
    OBVIOUS
  <2>1. p \in found \cup new
    BY <1>1
  <2>2. CASE p \in new
    BY <1>1, <1>4, <2>2
  <2>3. CASE p \in found /\ p \notin new
    BY <1>1, <2>3
  <2> QED
    BY <2>1, <2>2, <2>3
<1>7. \A p \in DOMAIN view.departed :
        /\ p \in Pids /\ view.departed[p].created # 0 /\ view.departed[p].goneAt <= clock
        /\ Line(p, view.departed[p].created, view.departed[p].goneAt)
  <2>1. DOMAIN view.departed \subseteq DOMAIN gone /\ \A p \in DOMAIN view.departed : view.departed[p] = gone[p]
    BY <1>1
  <2> QED
    BY <1>3, <2>1
<1>8. /\ known \subseteq view.known
      /\ \A p \in view.suspended : p \in suspended /\ p \in view.tracked /\ ~ProvenGone(p)
  BY <1>1
<1>9. view.sessionKnown = TRUE => sessionKnown = TRUE
  BY <1>1 DEF SessionUsable, TypeOK
<1> QED
  BY <1>5, <1>6, <1>7, <1>8, <1>9 DEF view

LEMMA ForeignInstall ==
    ASSUME TypeOK, IdentityInv, ForeignInv, NEW cut, Install(Refreshed(cut)),
           UNCHANGED <<clock, born, parent, kin, inSession, denied, halted>>,
           UNCHANGED <<root, rootCreated, attached, rootBirth, strayed>>,
           ContainsMonitor => phase' \in {"idle", "bound"}
    PROVE  ForeignInv'
<1>1. FamilyInv' /\ strayed' = FALSE
  BY DEF ForeignInv, FamilyInv
<1>2. ContainsMonitor' = ContainsMonitor
  BY DEF ContainsMonitor
<1>3. CASE root = NoPid
  <2>1. UNCHANGED <<tracked, suspended, ident, departed, sessionKnown, known>>
    BY <1>3 DEF Install, Refreshed
  <2>2. BoundInv'
    BY <1>2, <2>1 DEF ForeignInv, BoundInv
  <2>3. LineInv' /\ OwnInv'
    BY <2>1 DEF ForeignInv, LineInv, OwnInv, Line, Ours
  <2> QED
    BY <1>1, <2>2, <2>3 DEF ForeignInv
<1>4. CASE root # NoPid
  <2>1. /\ \A p \in tracked' : p \in Pids /\ born[p] # 0 /\ Ours(p) /\ ident'[p] = born[p]
        /\ \A p \in Pids : ident'[p] # 0 => ident'[p] \in known'
        /\ \A p \in DOMAIN departed' :
             /\ p \in Pids /\ departed'[p].created # 0 /\ departed'[p].goneAt <= clock
             /\ Line(p, departed'[p].created, departed'[p].goneAt)
        /\ known \subseteq known'
        /\ \A p \in suspended' : p \in suspended /\ p \in tracked' /\ ~ProvenGone(p)
        /\ sessionKnown' = TRUE => sessionKnown = TRUE
    BY <1>4, RefreshIsOurs DEF Install
  <2>2. BoundInv'
    BY <1>2, <1>4, <2>1 DEF ForeignInv, BoundInv
  <2>3. \A p \in tracked' : ident'[p] # 0 /\ Line(p, ident'[p], clock) /\ Ours(p)
    BY <2>1, KinOfOurs DEF Ours
  <2>4. LineInv'
    BY <2>1, <2>3 DEF LineInv, Line, Ours
  <2>5. \A p \in suspended : ~ProvenGone(p) => born[p] \in halted
    BY AliveIsTracked DEF Expected, ForeignInv, LineInv, OwnInv, TypeOK
  <2>6. OwnInv'
    BY <2>1, <2>5 DEF OwnInv
  <2> QED
    BY <1>1, <2>2, <2>4, <2>6 DEF ForeignInv
<1> QED
  BY <1>3, <1>4

\* Steps that leave the tree alone, and pay debts or leave them.
LEMMA ForeignKept ==
    ASSUME ForeignInv, UNCHANGED <<clock, born, parent, kin, inSession, denied>>,
           UNCHANGED <<root, rootCreated, attached, rootBirth>>, UNCHANGED treeVars,
           suspended' \subseteq suspended, strayed' = FALSE,
           \A p \in suspended' : born[p] \in halted => born[p] \in halted',
           ContainsMonitor => phase' \in {"idle", "bound"}
    PROVE  ForeignInv'
<1> USE DEF treeVars
<1>1. FamilyInv' /\ LineInv'
  BY DEF ForeignInv, FamilyInv, LineInv, Line, Ours
<1>2. BoundInv'
  BY DEF ForeignInv, BoundInv, ContainsMonitor
<1>3. OwnInv'
  BY DEF ForeignInv, OwnInv
<1> QED
  BY <1>1, <1>2, <1>3 DEF ForeignInv

\* A manager that lets go owes nothing.
LEMMA ForeignRelease ==
    ASSUME ForeignInv, Release, UNCHANGED <<clock, born, parent, kin, inSession, denied, halted, strayed>>,
           suspended' = {}
    PROVE  ForeignInv'
<1>1. FamilyInv' /\ strayed' = FALSE
  BY DEF ForeignInv, FamilyInv
<1>2. /\ root' = NoPid /\ sessionKnown' = FALSE /\ tracked' = {} /\ DOMAIN departed' = {}
      /\ \A p \in Pids : ident'[p] = 0
  BY DEF Release, NoneDeparted
<1>3. BoundInv'
  BY <1>2 DEF BoundInv, ContainsMonitor
<1>4. LineInv' /\ OwnInv'
  BY <1>2 DEF LineInv, OwnInv
<1> QED
  BY <1>1, <1>3, <1>4 DEF ForeignInv

-----------------------------------------------------------------------------
\* pause, resume and detach.
LEMMA ForeignPause ==
    ASSUME TypeOK, IdentityInv, ForeignInv,
           \/ PauseBegin \/ SuspendDone \/ ResumeBegin \/ ResumeDone \/ DetachBegin
           \/ \E p \in Pids : SuspendNext(p) \/ SuspendFails(p) \/ ResumeNext(p)
    PROVE  ForeignInv'
<1> USE DEF osVars, tableVars, bindVars, debtVars, opVars, managerVars
<1>1. ContainsMonitor => suspended = {} /\ phase \in {"idle", "bound"}
  BY DEF ForeignInv, BoundInv
<1>2. CASE PauseBegin
  <2>1. PICK cut : Install(Refreshed(cut))
    BY <1>2 DEF PauseBegin
  <2> QED
    BY <1>2, <2>1, ForeignInstall DEF PauseBegin
<1>3. CASE SuspendDone
  BY <1>3, <1>1, ForeignKept DEF SuspendDone, Idle, Enter, ForeignInv
<1>4. CASE ResumeBegin
  BY <1>4, <1>1, ForeignKept DEF ResumeBegin, Enter, ForeignInv
<1>5. CASE ResumeDone
  <2>1. CASE op = "detach" /\ suspended = {}
    <3>1. Release /\ suspended' = {}
      BY <1>5, <2>1 DEF ResumeDone
    <3> QED
      BY <1>5, <3>1, ForeignRelease DEF ResumeDone
  <2>2. CASE ~(op = "detach" /\ suspended = {})
    <3>1. UNCHANGED treeVars /\ UNCHANGED <<root, rootCreated, attached, rootBirth, suspended, strayed>>
      BY <1>5, <2>2 DEF ResumeDone
    <3>2. ~ContainsMonitor
      BY <1>1, <1>5 DEF ResumeDone
    <3> QED
      BY <1>5, <3>1, <3>2, ForeignKept DEF ResumeDone, ForeignInv
  <2> QED
    BY <2>1, <2>2
<1>6. CASE DetachBegin
  <2>1. CASE suspended = {}
    BY <1>6, <2>1, ForeignRelease DEF DetachBegin
  <2>2. CASE suspended # {}
    BY <1>6, <1>1, <2>2, ForeignKept DEF DetachBegin, ForeignInv
  <2> QED
    BY <2>1, <2>2
<1>7. ASSUME NEW p \in Pids, SuspendFails(p)
      PROVE  ForeignInv'
  BY <1>7, <1>1, ForeignKept DEF SuspendFails, ForeignInv
<1>8. ASSUME NEW p \in Pids, ResumeNext(p)
      PROVE  ForeignInv'
  <2>1. ~ContainsMonitor
    BY <1>1, <1>8 DEF ResumeNext
  <2>2. CASE MayControl(p) /\ suspended' = suspended \ {p} /\ halted' = halted \ {born[p]} /\ Reaches(p)
    <3>1. ~Stray(p)
      BY <1>8, <2>2, ControlStays DEF ResumeNext
    <3>2. strayed' = FALSE
      BY <2>2, <3>1 DEF Reaches, ForeignInv
    <3>3. ASSUME NEW q \in suspended', born[q] \in halted
          PROVE  born[q] \in halted'
      <4>1. q \in Pids /\ q # p /\ born[p] # 0
        BY <2>2, <3>3 DEF TypeOK, MayControl, PidIsAlive, ProvenGone
      <4>2. born[q] # born[p]
        BY <4>1 DEF IdentityInv
      <4> QED
        BY <2>2, <3>3, <4>2
    <3> QED
      BY <1>8, <2>1, <2>2, <3>2, <3>3, ForeignKept DEF ResumeNext
  <2>3. CASE /\ suspended' = IF ProvenGone(p) THEN suspended \ {p} ELSE suspended
             /\ UNCHANGED <<stop, halted, strayed>>
    BY <1>8, <2>1, <2>3, ForeignKept DEF ResumeNext, ForeignInv
  <2> QED
    BY <1>8, <2>2, <2>3 DEF ResumeNext
<1>9. ASSUME NEW p \in Pids, SuspendNext(p)
      PROVE  ForeignInv'
  <2>1. ~ContainsMonitor /\ phase = "suspend"
    BY <1>1, <1>9 DEF SuspendNext
  <2>2. CASE p \in suspended \/ AlreadyStopped(p)
    BY <1>9, <2>1, <2>2, ForeignKept DEF SuspendNext, ForeignInv
  <2>3. CASE ~(p \in suspended \/ AlreadyStopped(p))
    <3>1. p \in tracked /\ ~Stray(p)
      BY <1>9, <2>1, <2>3, ControlStays DEF SuspendNext
    <3>2. strayed' = FALSE
      BY <1>9, <2>3, <3>1 DEF SuspendNext, Reaches, ForeignInv
    <3>3. /\ suspended' = suspended \cup {p}
          /\ UNCHANGED <<clock, born, parent, kin, inSession, denied>>
          /\ UNCHANGED <<root, rootCreated, attached, rootBirth>> /\ UNCHANGED treeVars
      BY <1>9, <2>3 DEF SuspendNext
    <3>4. halted' = halted \cup {born[p]}
      BY <1>9, <2>3 DEF SuspendNext, Halts, AlreadyStopped
    <3>5. FamilyInv' /\ LineInv'
      BY <3>3 DEF ForeignInv, FamilyInv, LineInv, Line, Ours, treeVars
    <3>6. BoundInv'
      BY <2>1, <3>3 DEF ForeignInv, BoundInv, ContainsMonitor, treeVars
    <3>7. OwnInv'
      BY <3>1, <3>3, <3>4 DEF ForeignInv, OwnInv, treeVars, TypeOK
    <3> QED
      BY <3>2, <3>5, <3>6, <3>7 DEF ForeignInv
  <2> QED
    BY <2>2, <2>3
<1> QED
  BY <1>2, <1>3, <1>4, <1>5, <1>6, <1>7, <1>8, <1>9

\* terminate and kill.
LEMMA ForeignEnd ==
    ASSUME TypeOK, IdentityInv, ForeignInv,
           \/ \E how \in {"terminate", "kill"} : EndBegin(how)
           \/ \E p \in Pids : SignalNext(p)
           \/ WaitLook \/ WaitOn \/ WaitOver
    PROVE  ForeignInv'
<1> USE DEF osVars, tableVars, bindVars, debtVars, opVars, managerVars
<1>1. phase \in {"signal", "look", "decide"} => ~ContainsMonitor
  BY DEF ForeignInv, BoundInv
<1>2. ASSUME NEW how \in {"terminate", "kill"}, EndBegin(how)
      PROVE  ForeignInv'
  <2>1. CASE popen = "none" /\ tracked = {}
    BY <1>2, <2>1, ForeignKept DEF EndBegin, ForeignInv
  <2>2. CASE ~(popen = "none" /\ tracked = {})
    <3>1. PICK cut : Install(Refreshed(cut))
      BY <1>2, <2>2 DEF EndBegin
    <3> QED
      BY <1>2, <3>1, ForeignInstall DEF EndBegin
  <2> QED
    BY <2>1, <2>2
<1>3. ASSUME NEW p \in Pids, SignalNext(p)
      PROVE  ForeignInv'
  <2>1. ~ContainsMonitor /\ phase = "signal"
    BY <1>1, <1>3 DEF SignalNext
  <2>2. strayed' = FALSE
    <3>1. CASE MayControl(p)
      BY <1>3, <2>1, <3>1, ControlStays DEF SignalNext, Reaches, ForeignInv
    <3>2. CASE ~MayControl(p)
      BY <1>3, <3>2 DEF SignalNext, ForeignInv
    <3> QED
      BY <3>1, <3>2
  <2>3. suspended' \subseteq suspended
    BY <1>3 DEF SignalNext
  <2> QED
    BY <1>3, <2>1, <2>2, <2>3, ForeignKept DEF SignalNext
<1>4. CASE WaitLook
  <2>1. PICK cut : Install(Refreshed(cut))
    BY <1>4 DEF WaitLook
  <2> QED
    BY <1>4, <1>1, <2>1, ForeignInstall DEF WaitLook
<1>5. CASE WaitOn
  <2>1. ~ContainsMonitor /\ phase = "decide"
    BY <1>1, <1>5 DEF WaitOn
  <2>2. \A p \in LeftOver : MayControl(p) => ~Stray(p)
    BY <2>1, ControlStays DEF LeftOver, TypeOK
  <2>3. strayed' = FALSE
    <3>1. ~ \E p \in LeftOver \ signaled : MayControl(p) /\ Stray(p)
      BY <2>2
    <3> QED
      BY <1>5, <3>1 DEF WaitOn, ForeignInv
  <2>4. suspended' \subseteq suspended
    BY <1>5 DEF WaitOn
  <2> QED
    BY <1>5, <2>1, <2>3, <2>4, ForeignKept DEF WaitOn
<1>6. CASE WaitOver
  <2> DEFINE left == {p \in LeftOver : PidIsAlive(p)}
  <2>1. ~ContainsMonitor
    BY <1>1, <1>6 DEF WaitOver
  <2>2. UNCHANGED <<clock, born, parent, kin, inSession, denied, halted, strayed>>
    BY <1>6 DEF WaitOver
  <2>3. CASE UNCHANGED bindVars /\ UNCHANGED treeVars /\ suspended' \subseteq suspended
    BY <2>1, <2>2, <2>3, ForeignKept DEF ForeignInv
  <2>4. CASE Release /\ suspended' = {}
    BY <2>2, <2>4, ForeignRelease
  <2>5. CASE /\ tracked' = left /\ suspended' = suspended \cap left
             /\ UNCHANGED <<root, rootCreated, attached, rootBirth, sessionKnown, ident, departed, known>>
    <3>1. left \subseteq tracked
      <4> SUFFICES ASSUME NEW p \in left PROVE p \in tracked
        OBVIOUS
      <4>1. p \in Pids /\ ~ProvenGone(p) /\ p \in tracked \cup {root}
        BY DEF LeftOver, PidIsAlive, TypeOK
      <4>2. p \notin tracked => Expected(p) # 0
        BY <4>1 DEF Expected, ForeignInv, BoundInv
      <4> QED
        BY <4>1, <4>2, AliveIsTracked
    <3> HIDE DEF left
    <3>2. FamilyInv'
      BY <2>2 DEF ForeignInv, FamilyInv
    <3>3. BoundInv'
      BY <2>1, <2>2, <2>5, <3>1 DEF ForeignInv, BoundInv, ContainsMonitor
    <3>4. LineInv'
      BY <2>2, <2>5, <3>1 DEF ForeignInv, LineInv, Line, Ours
    <3>5. OwnInv'
      BY <2>2, <2>5, <3>1 DEF ForeignInv, OwnInv
    <3> QED
      BY <2>2, <3>2, <3>3, <3>4, <3>5 DEF ForeignInv
  <2>6. \/ UNCHANGED bindVars /\ UNCHANGED treeVars /\ suspended' \subseteq suspended
        \/ Release /\ suspended' = {}
        \/ /\ tracked' = left /\ suspended' = suspended \cap left
           /\ UNCHANGED <<root, rootCreated, attached, rootBirth, sessionKnown, ident, departed, known>>
    <3>1. \/ /\ suspended' = {p \in suspended : ~ProvenGone(p)}
             /\ UNCHANGED bindVars /\ UNCHANGED treeVars
          \/ /\ suspended' = suspended \cap left
             /\ IF left = {} THEN Release
                ELSE /\ tracked' = left
                     /\ UNCHANGED <<root, rootCreated, attached, rootBirth, sessionKnown, ident, departed, known>>
      BY <1>6 DEF WaitOver
    <3> HIDE DEF left
    <3> QED
      BY <3>1
  <2> QED
    BY <2>3, <2>4, <2>5, <2>6
<1> QED
  BY <1>2, <1>3, <1>4, <1>5, <1>6

\* The poll thread, the refreshes and the reaping of the root.
LEMMA ForeignTree ==
    ASSUME TypeOK, IdentityInv, ForeignInv,
           \/ PollWake \/ PollRefresh \/ RefreshProcessTree \/ AttachDone \/ Reap
    PROVE  ForeignInv'
<1> USE DEF osVars, tableVars, bindVars, debtVars, opVars, managerVars
<1>1. ContainsMonitor => suspended = {} /\ phase \in {"idle", "bound"}
  BY DEF ForeignInv, BoundInv
<1>2. CASE PollWake \/ Reap
  BY <1>1, <1>2, ForeignKept DEF PollWake, Reap, ForeignInv
<1>3. CASE PollRefresh \/ RefreshProcessTree \/ AttachDone
  <2>1. PICK cut : Install(Refreshed(cut))
    BY <1>3 DEF PollRefresh, RefreshProcessTree, AttachDone
  <2>2. /\ UNCHANGED <<clock, born, parent, kin, inSession, denied, halted>>
        /\ UNCHANGED <<root, rootCreated, attached, rootBirth, strayed>>
        /\ phase' \in {phase, "idle"}
    BY <1>3 DEF PollRefresh, RefreshProcessTree, AttachDone, Idle, Enter
  <2> QED
    BY <1>1, <2>1, <2>2, ForeignInstall
<1> QED
  BY <1>2, <1>3

-----------------------------------------------------------------------------
\* A process appears on the free PID "c": a child of "q", or of nobody here.
\* Who it descends from, and whose PID it may have taken over.
LEMMA BornFamily ==
    ASSUME TypeOK, IdentityInv, ForeignInv, NEW c \in Pids, NEW q \in Pids \cup {NoPid}, born[c] = 0,
           q # NoPid => born[q] # 0,
           clock' = clock + 1, born' = [born EXCEPT ![c] = clock + 1],
           parent' = [parent EXCEPT ![c] = q], denied' = denied,
           kin' = [kin EXCEPT ![c] = (IF q = NoPid THEN {} ELSE kin[q]) \cup {clock + 1}]
    PROVE  FamilyInv'
<1>1. /\ clock \in Nat /\ \A p \in Pids : born[p] \in Nat /\ born[p] <= clock
      /\ born'[c] = clock + 1 /\ parent'[c] = q /\ c # q
      /\ kin'[c] = (IF q = NoPid THEN {} ELSE kin[q]) \cup {clock + 1}
      /\ \A p \in Pids : p # c => born'[p] = born[p] /\ parent'[p] = parent[p] /\ kin'[p] = kin[p]
  BY DEF TypeOK, Births, IdentityInv
<1>2. \A p \in Pids : born'[p] # 0 => born'[p] \in kin'[p]
  BY <1>1 DEF ForeignInv, FamilyInv
<1>3. ASSUME NEW p \in Pids, NEW d \in Pids, parent'[d] = p, born'[p] # 0, born'[d] >= born'[p]
      PROVE  kin'[p] \subseteq kin'[d]
  <2>1. CASE d = c
    BY <1>1, <1>3, <2>1
  <2>2. CASE d # c /\ p = c
    BY <1>1, <1>3, <2>2
  <2>3. CASE d # c /\ p # c
    BY <1>1, <1>3, <2>3 DEF ForeignInv, FamilyInv
  <2> QED
    BY <2>1, <2>2, <2>3
<1>4. \A p \in Monitor : born'[p] # 0 /\ kin'[p] = Kin0[p]
  BY <1>1 DEF ForeignInv, FamilyInv
<1>5. clock' >= Clock0 /\ denied' = {}
  BY <1>1 DEF ForeignInv, FamilyInv
<1> QED
  BY <1>2, <1>3, <1>4, <1>5 DEF FamilyInv

\* A child of a member, or of a holder of a member's PID; or a new holder.
LEMMA BornLines ==
    ASSUME TypeOK, IdentityInv, ForeignInv, NEW c \in Pids, NEW q \in Pids \cup {NoPid}, born[c] = 0,
           q # NoPid => born[q] # 0,
           clock' = clock + 1, born' = [born EXCEPT ![c] = clock + 1],
           parent' = [parent EXCEPT ![c] = q],
           kin' = [kin EXCEPT ![c] = (IF q = NoPid THEN {} ELSE kin[q]) \cup {clock + 1}],
           UNCHANGED <<root, attached, rootBirth, tracked, ident, departed>>
    PROVE  LineInv'
<1>1. /\ clock \in Nat /\ \A p \in Pids : born[p] \in Nat /\ born[p] <= clock /\ ident[p] <= clock
      /\ \A p \in Pids : ident[p] \in Nat
      /\ born'[c] = clock + 1 /\ parent'[c] = q /\ c # q
      /\ kin'[c] = (IF q = NoPid THEN {} ELSE kin[q]) \cup {clock + 1}
      /\ \A p \in Pids : p # c => born'[p] = born[p] /\ parent'[p] = parent[p] /\ kin'[p] = kin[p]
  BY DEF TypeOK, Births, IdentityInv
<1>2. ASSUME NEW p \in tracked
      PROVE  ident'[p] # 0 /\ Line(p, ident[p], clock)' /\ (born'[p] = ident'[p] => Ours(p)')
  <2>1. p \in Pids /\ ident[p] # 0 /\ Line(p, ident[p], clock) /\ (born[p] = ident[p] => Ours(p))
    BY DEF TypeOK, ForeignInv, LineInv
  <2>2. born'[p] = ident'[p] => Ours(p)'
    BY <1>1, <2>1 DEF Ours
  <2>3. ASSUME NEW d \in Pids, parent'[d] = p, d # p, born'[d] # 0,
               ident[p] <= born'[d], born'[d] <= clock + 1,
               born'[p] \in {0, ident[p]} \/ born'[d] < born'[p]
        PROVE  rootBirth \in kin'[d]
    <3>1. CASE d = c
      <4>1. p = q /\ p # c /\ born'[p] = born[p] /\ born[p] # 0
        BY <1>1, <2>1, <2>3, <3>1
      <4>2. born[p] = ident[p]
        BY <1>1, <2>1, <2>3, <3>1, <4>1
      <4> QED
        BY <1>1, <2>1, <3>1, <4>1, <4>2 DEF Ours
    <3>2. CASE d # c
      <4>1. parent[d] = p /\ born'[d] = born[d] /\ kin'[d] = kin[d] /\ born[d] <= clock
        BY <1>1, <2>3, <3>2
      <4>2. born[p] \in {0, ident[p]} \/ born[d] < born[p]
        BY <1>1, <2>1, <2>3, <4>1
      <4> QED
        BY <2>1, <2>3, <4>1, <4>2 DEF Line
    <3> QED
      BY <3>1, <3>2
  <2> QED
    BY <2>1, <2>2, <2>3 DEF Line
<1>3. ASSUME NEW p \in DOMAIN departed
      PROVE  /\ departed[p].created # 0 /\ departed[p].goneAt <= clock'
             /\ Line(p, departed[p].created, departed[p].goneAt)'
  <2> DEFINE from == departed[p].created
             to == departed[p].goneAt
  <2>1. /\ p \in Pids /\ from # 0 /\ to <= clock /\ from \in Nat /\ to \in Nat
        /\ Line(p, from, to)
    <3>1. p \in Pids /\ departed[p] \in Gone
      BY DEF TypeOK
    <3> QED
      BY <3>1 DEF ForeignInv, LineInv, Gone, Births
  <2> HIDE DEF from, to
  <2>2. ASSUME NEW d \in Pids, parent'[d] = p, d # p, born'[d] # 0, from <= born'[d], born'[d] <= to,
               born'[p] \in {0, from} \/ born'[d] < born'[p]
        PROVE  rootBirth \in kin'[d]
    <3>1. d # c
      BY <1>1, <2>1, <2>2
    <3>2. parent[d] = p /\ born'[d] = born[d] /\ kin'[d] = kin[d]
      BY <1>1, <2>2, <3>1
    <3>3. born[p] \in {0, from} \/ born[d] < born[p]
      BY <1>1, <2>1, <2>2, <3>2
    <3> QED
      BY <2>1, <2>2, <3>2, <3>3 DEF Line
  <2>3. departed' = departed /\ rootBirth' = rootBirth
    OBVIOUS
  <2>4. Line(p, departed[p].created, departed[p].goneAt)'
    BY <2>2, <2>3 DEF Line, from, to
  <2> QED
    BY <1>1, <2>1, <2>4 DEF from, to
<1> QED
  BY <1>2, <1>3 DEF LineInv

\* A process of the tree ends, or one that never belonged to it.
LEMMA EndedLines ==
    ASSUME TypeOK, IdentityInv, ForeignInv, ~FleetingHolders, NEW x \in Pids, Exit(x)
    PROVE  LineInv'
<1>1. /\ UNCHANGED <<clock, root, attached, rootBirth, tracked, ident, departed>>
      /\ born[x] # 0 /\ born'[x] = 0 /\ \A p \in Pids : born[p] \in Nat
      /\ \A p \in Pids : p # x => born'[p] = born[p] /\ kin'[p] = kin[p]
      /\ \A p, d \in Pids : parent'[d] = p => parent[d] = p
      /\ x \in tracked \cup DOMAIN departed => rootBirth \in kin[x]
  <2>1. UNCHANGED <<clock, root, attached, rootBirth, tracked, ident, departed>>
    BY DEF Exit, managerVars, bindVars, treeVars
  <2>2. \A p, d \in Pids : parent'[d] = p => parent[d] = p
    BY DEF Exit
  <2> QED
    BY <2>1, <2>2 DEF Exit, HoldsMembersPid, TypeOK, Births
<1>2. ASSUME NEW p \in tracked \cup DOMAIN departed, NEW from \in Nat, NEW to, Line(p, from, to),
             NEW d \in Pids, parent'[d] = p, d # p, born'[d] # 0, from <= born'[d], born'[d] <= to,
             born'[p] \in {0, from} \/ born'[d] < born'[p]
      PROVE  rootBirth \in kin'[d]
  <2>1. p \in Pids /\ parent[d] = p /\ d # x /\ born'[d] = born[d] /\ kin'[d] = kin[d]
    BY <1>1, <1>2 DEF TypeOK
  <2>2. CASE born[p] \in {0, from} \/ born[d] < born[p]
    BY <1>2, <2>1, <2>2 DEF Line
  <2>3. CASE ~(born[p] \in {0, from} \/ born[d] < born[p])
    <3>1. p = x /\ born[d] >= born[p]
      BY <1>1, <1>2, <2>1, <2>3
    <3>2. kin[p] \subseteq kin[d]
      BY <1>1, <2>1, <3>1 DEF ForeignInv, FamilyInv
    <3> QED
      BY <1>1, <1>2, <2>1, <3>1, <3>2
  <2> QED
    BY <2>2, <2>3
<1>3. ASSUME NEW p \in tracked
      PROVE  ident'[p] # 0 /\ Line(p, ident[p], clock)' /\ (born'[p] = ident'[p] => Ours(p)')
  <2>1. p \in Pids /\ ident[p] \in Nat /\ ident[p] # 0 /\ Line(p, ident[p], clock)
        /\ (born[p] = ident[p] => Ours(p))
    BY DEF TypeOK, ForeignInv, LineInv, Births
  <2>2. born'[p] = ident'[p] => Ours(p)'
    BY <1>1, <2>1 DEF Ours
  <2>3. Line(p, ident[p], clock)'
    BY <1>1, <1>2, <2>1 DEF Line
  <2> QED
    BY <1>1, <2>1, <2>2, <2>3
<1>4. ASSUME NEW p \in DOMAIN departed
      PROVE  Line(p, departed[p].created, departed[p].goneAt)'
  <2>1. departed[p] \in Gone /\ Line(p, departed[p].created, departed[p].goneAt)
    BY DEF TypeOK, ForeignInv, LineInv
  <2>2. departed[p].created \in Nat
    BY <2>1 DEF Gone, Births
  <2> QED
    BY <1>1, <1>2, <2>1, <2>2 DEF Line
<1>5. \A p \in DOMAIN departed : departed[p].created # 0 /\ departed[p].goneAt <= clock
  BY DEF ForeignInv, LineInv
<1> QED
  BY <1>1, <1>3, <1>4, <1>5 DEF LineInv

\* The operating system and the user change the table, not the manager.
LEMMA ForeignSystem ==
    ASSUME TypeOK, IdentityInv, ForeignInv, ~FleetingHolders, Deniable = {}, SystemStep
    PROVE  ForeignInv'
<1> USE DEF tableVars, bindVars, treeVars, debtVars, opVars
<1>1. UNCHANGED managerVars
  BY DEF SystemStep, Fork, Stranger, Exit, UserStop, UserContinue, AccessChanges
<1>2. ASSUME FamilyInv', LineInv',
             sessionKnown = TRUE => \A p \in inSession' : born'[p] # 0 /\ rootBirth \in kin'[p],
             \A p \in tracked : born'[p] = ident[p] =>
                 born[p] = ident[p] /\ (born[p] \in halted => born[p] \in halted')
      PROVE  ForeignInv'
  <2>1. BoundInv'
    BY <1>1, <1>2 DEF ForeignInv, BoundInv, ContainsMonitor, managerVars
  <2>2. OwnInv'
    BY <1>1, <1>2 DEF ForeignInv, OwnInv, managerVars
  <2> QED
    BY <1>1, <1>2, <2>1, <2>2 DEF ForeignInv, managerVars
<1>3. ASSUME NEW c \in Pids, NEW q \in Pids \cup {NoPid}, born[c] = 0, q # NoPid => born[q] # 0,
             clock' = clock + 1, born' = [born EXCEPT ![c] = clock + 1],
             parent' = [parent EXCEPT ![c] = q], denied' = denied,
             halted' = halted,
             kin' = [kin EXCEPT ![c] = (IF q = NoPid THEN {} ELSE kin[q]) \cup {clock + 1}],
             inSession' \subseteq inSession \cup {c}, c \in inSession' => c \in inSession \/ q \in inSession
      PROVE  ForeignInv'
  <2>1. UNCHANGED <<root, attached, rootBirth, tracked, ident, departed>>
    BY <1>1 DEF managerVars
  <2>2. FamilyInv' /\ LineInv'
    BY <1>3, <2>1, BornFamily, BornLines
  <2>3. /\ \A p \in Pids : p # c => born'[p] = born[p] /\ kin'[p] = kin[p]
        /\ born'[c] = clock + 1 /\ clock \in Nat /\ born'[c] # 0
        /\ ident[c] <= clock /\ ident[c] \in Nat /\ ident[c] # born'[c]
    BY <1>3 DEF TypeOK, Births, IdentityInv
  <2>4. sessionKnown = TRUE => \A p \in inSession' : born'[p] # 0 /\ rootBirth \in kin'[p]
    <3> SUFFICES ASSUME sessionKnown = TRUE, NEW p \in inSession'
                 PROVE  born'[p] # 0 /\ rootBirth \in kin'[p]
      OBVIOUS
    <3>1. \A x \in inSession : x \in Pids /\ born[x] # 0 /\ rootBirth \in kin[x]
      BY DEF ForeignInv, BoundInv, TypeOK
    <3>2. c \notin inSession
      BY <1>3, <3>1
    <3>3. CASE p = c
      <4>1. q \in inSession /\ q # NoPid /\ q \in Pids
        BY <1>3, <3>1, <3>2, <3>3
      <4>2. kin'[c] = kin[q] \cup {clock + 1}
        BY <1>3, <4>1 DEF TypeOK
      <4> QED
        BY <2>3, <3>1, <3>3, <4>1, <4>2
    <3>4. CASE p # c
      BY <1>3, <2>3, <3>1, <3>4
    <3> QED
      BY <3>3, <3>4
  <2>5. \A p \in tracked : born'[p] = ident[p] =>
            born[p] = ident[p] /\ (born[p] \in halted => born[p] \in halted')
    <3>1. tracked \subseteq Pids
      BY DEF TypeOK
    <3>2. \A p \in tracked : born'[p] = ident[p] => p # c
      BY <2>3
    <3> QED
      BY <1>3, <2>3, <3>1, <3>2
  <2> QED
    BY <1>2, <2>2, <2>4, <2>5
<1>4. ASSUME NEW p \in Pids, NEW c \in Pids, NEW leaves \in BOOLEAN, Fork(p, c, leaves)
      PROVE  ForeignInv'
  <2>1. p # NoPid /\ p \in Pids \cup {NoPid}
    OBVIOUS
  <2>2. /\ inSession' \subseteq inSession \cup {c}
        /\ c \in inSession' => c \in inSession \/ p \in inSession
    BY <1>4 DEF Fork
  <2> QED
    BY <1>3, <1>4, <2>1, <2>2 DEF Fork
<1>5. ASSUME NEW c \in Pids, Stranger(c)
      PROVE  ForeignInv'
  BY <1>3, <1>5 DEF Stranger
<1>6. ASSUME NEW x \in Pids, Exit(x)
      PROVE  ForeignInv'
  <2>1. /\ born'[x] = 0 /\ x \notin Monitor /\ clock' = clock /\ denied' = denied
        /\ \A p \in Pids : p # x => born'[p] = born[p] /\ kin'[p] = kin[p]
        /\ halted' = halted \ {born[x]}
        /\ \A p, d \in Pids : parent'[d] = p => parent[d] = p
        /\ inSession' = inSession \ {x} /\ inSession \subseteq Pids /\ tracked \subseteq Pids
    BY <1>6 DEF Exit, TypeOK
  <2>2. FamilyInv'
    <3>1. \A p \in Pids : born'[p] # 0 => born'[p] \in kin'[p]
      BY <2>1 DEF ForeignInv, FamilyInv
    <3>2. ASSUME NEW p \in Pids, NEW d \in Pids, parent'[d] = p, born'[p] # 0, born'[d] >= born'[p]
          PROVE  kin'[p] \subseteq kin'[d]
      <4>1. p # x /\ d # x
        BY <2>1, <3>2 DEF TypeOK, Births
      <4> QED
        BY <2>1, <3>2, <4>1 DEF ForeignInv, FamilyInv
    <3>3. \A p \in Monitor : born'[p] # 0 /\ kin'[p] = Kin0[p]
      BY <2>1 DEF ForeignInv, FamilyInv
    <3> QED
      BY <2>1, <3>1, <3>2, <3>3 DEF ForeignInv, FamilyInv
  <2>3. LineInv'
    BY <1>6, EndedLines
  <2>4. sessionKnown = TRUE => \A p \in inSession' : born'[p] # 0 /\ rootBirth \in kin'[p]
    BY <2>1 DEF ForeignInv, BoundInv
  <2>5. \A p \in tracked : ident[p] # 0
    BY DEF ForeignInv, LineInv
  <2>6. \A p \in tracked : born'[p] = ident[p] =>
            born[p] = ident[p] /\ (born[p] \in halted => born[p] \in halted')
    BY <2>1, <2>5 DEF IdentityInv
  <2> QED
    BY <1>2, <2>2, <2>3, <2>4, <2>6
<1>7. ASSUME NEW p \in Pids, UserStop(p) \/ UserContinue(p)
      PROVE  ForeignInv'
  <2>1. UNCHANGED <<clock, born, parent, kin, inSession, denied, halted>>
    BY <1>7 DEF UserStop, UserContinue
  <2>3. ContainsMonitor => phase' \in {"idle", "bound"}
    BY <1>1 DEF ForeignInv, BoundInv, managerVars
  <2> QED
    BY <1>1, <2>1, <2>3, ForeignKept DEF managerVars, ForeignInv
<1>8. CASE AccessChanges
  <2>1. denied = {} /\ denied' \in SUBSET {} /\ denied' # denied
    BY <1>8 DEF AccessChanges, ForeignInv, FamilyInv
  <2> QED
    BY <2>1
<1> QED
  BY <1>4, <1>5, <1>6, <1>7, <1>8 DEF SystemStep

\* start() and attach() begin anew: with a tree of one process.
LEMMA ForeignBind ==
    ASSUME TypeOK, IdentityInv, ForeignInv,
           \/ \E p \in Pids : Start(p)
           \/ \E p \in Pids, picked \in Births : Attach(p, picked)
    PROVE  ForeignInv'
<1>1. ASSUME NEW p \in Pids, NEW created, FamilyInv', strayed' = FALSE, created # 0, created \in Nat,
             root' = p, rootCreated' = created, rootBirth' = created, known' = {created},
             tracked' = {p}, ident' = [q \in Pids |-> IF q = p THEN created ELSE 0],
             departed' = NoneDeparted, suspended' = {}, born'[p] = created, ~attached' => created > Clock0,
             attached' => phase' \in {"idle", "bound"},
             sessionKnown' = TRUE => ~attached' /\ inSession' = {p}
      PROVE  ForeignInv'
  <2>1. created \in kin'[p]
    BY <1>1 DEF FamilyInv
  <2>2. BoundInv'
    BY <1>1, <2>1 DEF BoundInv, ContainsMonitor, NoneDeparted
  <2>3. Line(p, created, clock)'
    BY <1>1, <2>1 DEF Line, FamilyInv
  <2>4. Ours(p)'
    BY <1>1, <2>1 DEF Ours
  <2>5. LineInv'
    BY <1>1, <2>3, <2>4 DEF LineInv, NoneDeparted
  <2>6. OwnInv'
    BY <1>1 DEF OwnInv
  <2> QED
    BY <1>1, <2>2, <2>5, <2>6 DEF ForeignInv
<1>2. ASSUME NEW p \in Pids, Start(p)
      PROVE  ForeignInv'
  <2>1. denied = {} /\ clock \in Nat /\ Clock0 \in Nat /\ clock >= Clock0 /\ strayed = FALSE
    BY FamilyAssumption DEF ForeignInv, FamilyInv, TypeOK, Births
  <2>2. FamilyInv'
    BY <1>2, BornFamily DEF Start
  <2>3. born'[p] = clock + 1
    BY <1>2 DEF Start, TypeOK
  <2>4. Bind(p, clock + 1, TRUE) /\ rootBirth' = clock + 1 /\ strayed' = strayed
        /\ inSession' = IF Linux THEN {p} ELSE {}
    BY <1>2, <2>1 DEF Start
  <2>5. /\ root' = p /\ rootCreated' = clock + 1 /\ known' = {clock + 1} /\ tracked' = {p}
        /\ ident' = [q \in Pids |-> IF q = p THEN clock + 1 ELSE 0]
        /\ departed' = NoneDeparted /\ suspended' = {} /\ attached' = FALSE
        /\ sessionKnown' = TRUE => inSession' = {p}
    BY <2>4 DEF Bind
  <2>6. clock + 1 # 0 /\ clock + 1 \in Nat /\ clock + 1 > Clock0
    BY <2>1
  <2> QED
    BY <1>1, <2>1, <2>2, <2>3, <2>4, <2>5, <2>6
<1>3. ASSUME NEW p \in Pids, NEW picked \in Births, Attach(p, picked)
      PROVE  ForeignInv'
  <2>1. FamilyInv' /\ strayed' = FALSE
    BY <1>3 DEF Attach, osVars, tableVars, ForeignInv, FamilyInv
  <2>2. Seen(p) = born[p] /\ born[p] # 0 /\ born[p] \in Nat /\ born' = born
    BY <1>3, SeenIsBirth DEF Attach, osVars, tableVars
  <2>3. Bind(p, born[p], FALSE) /\ rootBirth' = born[p] /\ phase' = "bound"
    BY <1>3, <2>2 DEF Attach, Enter
  <2>4. /\ root' = p /\ rootCreated' = born[p] /\ known' = {born[p]} /\ tracked' = {p}
        /\ ident' = [q \in Pids |-> IF q = p THEN born[p] ELSE 0]
        /\ departed' = NoneDeparted /\ suspended' = {} /\ attached' = TRUE
        /\ sessionKnown' = FALSE
    BY <2>3 DEF Bind
  <2> QED
    BY <1>1, <2>1, <2>2, <2>3, <2>4
<1> QED
  BY <1>2, <1>3

LEMMA ForeignInit == ASSUME Init PROVE ForeignInv
<1>1. FamilyInv
  BY FamilyAssumption DEF Init, FamilyInv
<1>2. root = NoPid /\ tracked = {} /\ suspended = {} /\ DOMAIN departed = {} /\ sessionKnown = FALSE
      /\ strayed = FALSE /\ \A p \in Pids : ident[p] = 0
  BY DEF Init, NoneDeparted
<1>3. BoundInv
  BY <1>2 DEF BoundInv, ContainsMonitor
<1>4. LineInv /\ OwnInv
  BY <1>2 DEF LineInv, OwnInv
<1> QED
  BY <1>1, <1>2, <1>3, <1>4 DEF ForeignInv

(* While creation times can be read, and a process that took over the PID  *)
(* of a member outlives what the manager remembers of that member: no      *)
(* suspend, resume or end signal reaches DrainTracer, what it runs inside, *)
(* or a process that does not descend from the program the user chose; and *)
(* a resume is owed only to a process DrainTracer itself stopped           *)
(* (_walk_tree, _orphan_of, _open_tracked_unlocked, _suspend_pid).         *)
THEOREM ForeignNever ==
    ASSUME ~FleetingHolders, Deniable = {}
    PROVE  Spec => []NothingForeign
<1>1. TypeOK /\ IdentityInv /\ ForeignInv /\ [Next]_vars => ForeignInv'
  <2> SUFFICES ASSUME TypeOK, IdentityInv, ForeignInv, [Next]_vars
               PROVE  ForeignInv'
    OBVIOUS
  <2>1. CASE ManagerStep
    BY <2>1, ForeignTree, ForeignBind, ForeignPause, ForeignEnd DEF ManagerStep
  <2>2. CASE SystemStep
    BY <2>2, ForeignSystem
  <2>3. CASE UNCHANGED vars
    BY <2>3, ForeignKept DEF vars, osVars, tableVars, managerVars, bindVars, treeVars,
                debtVars, opVars, ForeignInv, BoundInv
  <2> QED
    BY <2>1, <2>2, <2>3 DEF Next
<1>2. TypeOK /\ IdentityInv /\ ForeignInv => NothingForeign
  <2> SUFFICES ASSUME TypeOK, IdentityInv, ForeignInv PROVE NothingForeign
    OBVIOUS
  <2>1. OnlyOursIsOwed
    BY AliveIsTracked DEF OnlyOursIsOwed, Expected, ForeignInv, LineInv, OwnInv, TypeOK
  <2>2. NoForeignControl
    BY DEF ForeignInv, NoForeignControl
  <2> QED
    BY <2>1, <2>2 DEF NothingForeign
<1> QED
  BY TypeCorrect, IdentityAlways, ForeignInit, <1>1, <1>2, PTL DEF Spec

(***************************************************************************)
(* Only its user continues a process that its user stopped                 *)
(***************************************************************************)

\* A debt is to a tracked process, under an identity, and if that process
\* still holds its PID DrainTracer did stop it; on Windows it stays suspended
\* until DrainTracer resumes it.  A resume goes to whom it was owed when it
\* began.
StopInv ==
    /\ rootCreated <= clock /\ \A p \in Pids : ident[p] <= clock /\ born[p] <= clock
    /\ \A p \in suspended : p \in tracked /\ Expected(p) # 0 /\ (born[p] = Expected(p) => born[p] \in halted)
    /\ \A b \in halted : b <= clock
    /\ ~Linux => \A p \in Pids : born[p] # 0 /\ born[p] \in halted => "ours" \in stop[p]
    /\ op = "none" => phase = "idle"
    /\ op = "pause" /\ phase = "suspend" => todo \subseteq tracked
    /\ phase = "resume" => todo \subseteq suspended

\* Nothing is suspended at the start.
LEMMA StopInit == Init => StopInv
<1> SUFFICES ASSUME Init PROVE StopInv
  OBVIOUS
<1>1. \A p \in Pids : born[p] \in 0..Clock0 /\ ident[p] = 0 /\ stop[p] = {}
  BY DEF Init
<1>2. clock = Clock0 /\ Clock0 \in Nat /\ rootCreated = 0 /\ suspended = {} /\ op = "none" /\ phase = "idle" /\ todo = {}
  BY DEF Init
<1> QED
  BY <1>1, <1>2 DEF StopInv, Init

\* Where the operation under way stands after a step.
Stands ==
    /\ op' = "none" => phase' = "idle"
    /\ op' = "pause" /\ phase' = "suspend" => todo' \subseteq tracked'
    /\ phase' = "resume" => todo' \subseteq suspended'

\* Steps that stop and continue nothing and take on no debt.
LEMMA StopKept ==
    ASSUME TypeOK, StopInv, UNCHANGED <<clock, born, stop, halted, root, rootCreated, ident>>,
           suspended' \subseteq suspended, suspended' \subseteq tracked', Stands
    PROVE  StopInv'
<1>1. \A p \in Pids : Expected(p)' = Expected(p)
  BY DEF Expected
<1>2. \A p \in suspended' : p \in Pids /\ p \in tracked' /\ Expected(p)' # 0 /\ (born[p] = Expected(p)' => born[p] \in halted)
  BY <1>1 DEF StopInv, TypeOK
<1> QED
  BY <1>2 DEF StopInv, Stands

\* A refresh keeps the identity of whom it keeps a debt to.
LEMMA StopInstall ==
    ASSUME TypeOK, StopInv, NEW cut, Install(Refreshed(cut)),
           UNCHANGED <<clock, born, stop, halted, root, rootCreated>>, Stands
    PROVE  StopInv'
<1>1. \A p \in Pids : ident'[p] \in {0, ident[p], born[p]}
  BY RefreshRecords DEF Install
<1>2. ASSUME NEW p \in suspended'
      PROVE  p \in suspended /\ p \in tracked' /\ Expected(p)' = Expected(p)
  <2>1. CASE root = NoPid
    <3>1. suspended' = suspended /\ tracked' = tracked /\ ident' = ident
      BY <2>1 DEF Install, Refreshed
    <3> QED
      BY <1>2, <3>1 DEF StopInv, Expected
  <2>2. CASE root # NoPid
    <3>1. p \in suspended /\ ~ProvenGone(p)
      BY <1>2, <2>2 DEF Install, Refreshed
    <3>2. p \in tracked /\ Expected(p) # 0
      BY <3>1 DEF StopInv
    <3>3. p \in tracked' /\ ident'[p] = ident[p]
      BY <3>1, <3>2, RefreshKeeps DEF Install
    <3> QED
      BY <3>1, <3>3 DEF Expected
  <2> QED
    BY <2>1, <2>2
<1>3. \A p \in Pids : ident'[p] <= clock
  BY <1>1 DEF StopInv, TypeOK, Births
<1> QED
  BY <1>2, <1>3 DEF StopInv, Stands

\* A manager that owes nothing may forget what it tracked.
LEMMA StopRelease ==
    ASSUME TypeOK, StopInv, Release, suspended' = {}, UNCHANGED <<clock, born, stop, halted>>, Stands
    PROVE  StopInv'
<1>1. \A p \in Pids : ident'[p] = 0
  BY DEF Release
<1>2. clock \in Nat /\ rootCreated' = rootCreated
  BY DEF Release, TypeOK, Births
<1> QED
  BY <1>1, <1>2 DEF StopInv, Stands

\* Pausing stops what was not stopped (on Linux), and resuming pays a debt.
LEMMA StopPause ==
    ASSUME TypeOK, IdentityInv, StopInv,
           \/ PauseBegin \/ SuspendDone \/ ResumeBegin \/ ResumeDone \/ DetachBegin
           \/ \E p \in Pids : SuspendNext(p) \/ SuspendFails(p) \/ ResumeNext(p)
    PROVE  StopInv'
<1> USE DEF osVars, tableVars, bindVars, treeVars, debtVars, opVars, managerVars
<1>0. suspended \subseteq tracked
  BY DEF StopInv
<1>1. CASE PauseBegin
  <2>1. PICK cut \in Cuts : /\ Install(Refreshed(cut))
                            /\ Enter("pause", "suspend", Refreshed(cut).tracked)
    BY <1>1 DEF PauseBegin
  <2>2. todo' = tracked' /\ op' = "pause" /\ phase' = "suspend"
    BY <2>1 DEF Install, Enter
  <2>3. UNCHANGED <<clock, born, stop, halted, root, rootCreated>>
    BY <1>1 DEF PauseBegin
  <2> QED
    BY <2>1, <2>2, <2>3, StopInstall DEF Stands
<1>2. CASE SuspendDone
  BY <1>0, <1>2, StopKept DEF SuspendDone, Idle, Enter, Stands
<1>3. CASE ResumeBegin
  BY <1>0, <1>3, StopKept DEF ResumeBegin, Enter, Stands, StopInv
<1>4. CASE ResumeDone
  <2>1. UNCHANGED <<clock, born, stop, halted, suspended>> /\ Stands
    BY <1>4 DEF ResumeDone, Idle, Enter, Stands
  <2>2. CASE op = "detach" /\ suspended = {}
    <3>1. Release
      BY <1>4, <2>2 DEF ResumeDone
    <3> QED
      BY <2>1, <2>2, <3>1, StopRelease
  <2>3. CASE ~(op = "detach" /\ suspended = {})
    <3>1. UNCHANGED <<root, rootCreated, ident, tracked>>
      BY <1>4, <2>3 DEF ResumeDone
    <3> QED
      BY <1>0, <2>1, <3>1, StopKept
  <2> QED
    BY <2>2, <2>3
<1>5. CASE DetachBegin
  <2>1. CASE suspended = {}
    <3>1. Release /\ UNCHANGED <<clock, born, stop, halted, suspended, op, phase, todo>> /\ op = "none"
      BY <1>5, <2>1 DEF DetachBegin
    <3>2. Stands
      BY <3>1 DEF Stands, StopInv
    <3> QED
      BY <2>1, <3>1, <3>2, StopRelease
  <2>2. CASE suspended # {}
    BY <1>0, <1>5, <2>2, StopKept DEF DetachBegin, Enter, Stands
  <2> QED
    BY <2>1, <2>2
<1>6. ASSUME NEW p \in Pids, SuspendFails(p)
      PROVE  StopInv'
  BY <1>0, <1>6, StopKept DEF SuspendFails, Enter, Stands
<1>7. ASSUME NEW p \in Pids, SuspendNext(p)
      PROVE  StopInv'
  <2>1. /\ op = "pause" /\ phase = "suspend" /\ p \in todo /\ todo' = todo \ {p} /\ todo \subseteq tracked
        /\ UNCHANGED <<clock, born, root, rootCreated, ident, tracked, op, phase>>
    BY <1>7 DEF SuspendNext, StopInv
  <2>2. CASE p \in suspended \/ AlreadyStopped(p)
    BY <1>0, <1>7, <2>1, <2>2, StopKept DEF SuspendNext, Stands
  <2>3. CASE ~(p \in suspended \/ AlreadyStopped(p))
    <3>1. /\ MayControl(p) /\ suspended' = suspended \cup {p} /\ halted' = halted \cup {born[p]}
          /\ stop' = [stop EXCEPT ![p] = @ \cup {"ours"}]
      BY <1>7, <2>3 DEF SuspendNext, AlreadyStopped, Halts
    <3>2. Expected(p) # 0
      BY <3>1 DEF MayControl
    <3>3. \A q \in Pids : Expected(q)' = Expected(q)
      BY <2>1 DEF Expected
    <3>4. /\ \A q \in Pids : q # p => stop'[q] = stop[q]
          /\ stop'[p] = stop[p] \cup {"ours"}
      BY <3>1 DEF TypeOK
    <3>5. \A q \in suspended' : q \in Pids /\ q \in tracked /\ Expected(q)' # 0 /\ (born[q] = Expected(q)' => born[q] \in halted')
      BY <2>1, <3>1, <3>2, <3>3 DEF StopInv, TypeOK
    <3>6. ~Linux => \A q \in Pids : born[q] # 0 /\ born[q] \in halted' => "ours" \in stop'[q]
      BY <3>1, <3>4 DEF StopInv, IdentityInv
    <3>7. \A b \in halted' : b <= clock
      BY <3>1 DEF StopInv
    <3> QED
      BY <2>1, <3>5, <3>6, <3>7 DEF StopInv
  <2> QED
    BY <2>2, <2>3
<1>8. ASSUME NEW p \in Pids, ResumeNext(p)
      PROVE  StopInv'
  <2>1. /\ phase = "resume" /\ todo' = todo \ {p} /\ todo \subseteq suspended
        /\ UNCHANGED <<clock, born, root, rootCreated, ident, tracked, op, phase>>
        /\ suspended' \in {suspended, suspended \ {p}}
    BY <1>8 DEF ResumeNext, StopInv
  <2>2. Stands
    BY <2>1 DEF Stands, StopInv
  <2>3. CASE UNCHANGED <<stop, halted, strayed>>
    BY <1>0, <1>8, <2>1, <2>2, <2>3, StopKept DEF ResumeNext
  <2>4. CASE /\ stop' = [stop EXCEPT ![p] = Continued(p)] /\ halted' = halted \ {born[p]}
             /\ suspended' = suspended \ {p}
    <3>1. \A q \in Pids : Expected(q)' = Expected(q)
      BY <2>1 DEF Expected
    <3>2. \A q \in Pids : q # p => stop'[q] = stop[q]
      BY <2>4 DEF TypeOK
    <3>3. ASSUME NEW q \in suspended'
          PROVE  q \in Pids /\ q \in tracked /\ Expected(q)' # 0 /\ (born[q] = Expected(q)' => born[q] \in halted')
      <4>1. q \in Pids /\ q # p /\ q \in tracked /\ Expected(q) # 0 /\ (born[q] = Expected(q) => born[q] \in halted)
        BY <2>4 DEF StopInv, TypeOK
      <4> QED
        BY <2>4, <3>1, <4>1 DEF IdentityInv
    <3>4. ~Linux => \A q \in Pids : born[q] # 0 /\ born[q] \in halted' => "ours" \in stop'[q]
      BY <2>4, <3>2 DEF StopInv
    <3>5. \A b \in halted' : b <= clock
      BY <2>4 DEF StopInv
    <3> QED
      BY <2>1, <2>2, <3>3, <3>4, <3>5 DEF StopInv, Stands
  <2> QED
    BY <1>8, <2>3, <2>4 DEF ResumeNext
<1> QED
  BY <1>1, <1>2, <1>3, <1>4, <1>5, <1>6, <1>7, <1>8

\* terminate and kill forget debts to the dead only.
LEMMA StopEnd ==
    ASSUME TypeOK, StopInv,
           \/ \E how \in {"terminate", "kill"} : EndBegin(how)
           \/ \E p \in Pids : SignalNext(p)
           \/ WaitLook \/ WaitOn \/ WaitOver
    PROVE  StopInv'
<1> USE DEF osVars, tableVars, bindVars, treeVars, debtVars, opVars, managerVars
<1>0. suspended \subseteq tracked
  BY DEF StopInv
<1>1. ASSUME NEW how \in {"terminate", "kill"}, EndBegin(how)
      PROVE  StopInv'
  <2>1. UNCHANGED <<clock, born, stop, halted, root, rootCreated>>
    BY <1>1 DEF EndBegin
  <2>2. CASE popen = "none" /\ tracked = {}
    <3>1. UNCHANGED <<ident, tracked, suspended, op, phase, todo>>
      BY <1>1, <2>2 DEF EndBegin
    <3>2. Stands
      BY <3>1 DEF Stands, StopInv
    <3> QED
      BY <1>0, <2>1, <3>1, <3>2, StopKept
  <2>3. CASE ~(popen = "none" /\ tracked = {})
    <3>1. PICK cut \in Cuts :
            LET view == Refreshed(cut)
            IN /\ Install(view)
               /\ IF how = "terminate" /\ view.suspended # {}
                  THEN Enter(how, "resume", view.suspended) /\ UNCHANGED remaining
                  ELSE Enter(how, "signal", view.tracked) /\ remaining' = view.tracked
      BY <1>1, <2>3 DEF EndBegin
    <3>2. Install(Refreshed(cut)) /\ op' = how /\ (phase' = "signal" \/ (phase' = "resume" /\ todo' = suspended'))
      BY <3>1 DEF Enter, Install
    <3>3. Stands
      BY <3>2 DEF Stands
    <3> QED
      BY <2>1, <3>2, <3>3, StopInstall
  <2> QED
    BY <2>2, <2>3
<1>2. ASSUME NEW p \in Pids, SignalNext(p)
      PROVE  StopInv'
  <2>1. phase = "signal" /\ UNCHANGED <<op, phase, tracked>> /\ suspended' \subseteq suspended
    BY <1>2 DEF SignalNext
  <2>2. Stands
    BY <2>1 DEF Stands, StopInv
  <2> QED
    BY <1>0, <1>2, <2>1, <2>2, StopKept DEF SignalNext
<1>3. CASE WaitLook
  <2>1. PICK cut : Install(Refreshed(cut))
    BY <1>3 DEF WaitLook
  <2>2. UNCHANGED <<clock, born, stop, halted, root, rootCreated>> /\ phase' = "decide" /\ op' = op /\ op # "none"
    BY <1>3 DEF WaitLook, Enter, StopInv
  <2> QED
    BY <2>1, <2>2, StopInstall DEF Stands
<1>4. CASE WaitOn
  <2>1. op # "none"
    BY <1>4 DEF WaitOn, StopInv
  <2> QED
    BY <1>0, <1>4, <2>1, StopKept DEF WaitOn, Enter, Stands
<1>5. CASE WaitOver
  <2> DEFINE left == {p \in LeftOver : PidIsAlive(p)}
  <2>1. UNCHANGED <<clock, born, stop, halted>> /\ phase = "decide"
    BY <1>5 DEF WaitOver
  <2>2. CASE op' = "kill"
    <3>1. /\ UNCHANGED <<root, rootCreated, ident, tracked>> /\ phase' = "signal"
          /\ suspended' \subseteq suspended
      BY <1>5, <2>2 DEF WaitOver, Idle, Enter
    <3> QED
      BY <1>0, <2>1, <2>2, <3>1, StopKept DEF Stands
  <2>3. CASE op' # "kill"
    <3>1. /\ suspended' = suspended \cap left /\ op' = "none" /\ phase' = "idle"
          /\ IF left = {} THEN Release
             ELSE tracked' = left /\ UNCHANGED <<root, rootCreated, ident>>
      BY <1>5, <2>3 DEF WaitOver, Idle, Enter
    <3> HIDE DEF left
    <3>2. CASE left = {}
      BY <2>1, <3>1, <3>2, StopRelease DEF Stands
    <3>3. CASE left # {}
      BY <2>1, <3>1, <3>3, StopKept DEF Stands
    <3> QED
      BY <3>2, <3>3
  <2> QED
    BY <2>2, <2>3
<1> QED
  BY <1>1, <1>2, <1>3, <1>4, <1>5

\* Discovery.
LEMMA StopTree ==
    ASSUME TypeOK, StopInv,
           \/ PollWake \/ PollRefresh \/ RefreshProcessTree \/ AttachDone \/ Reap
    PROVE  StopInv'
<1> USE DEF osVars, tableVars, bindVars, treeVars, debtVars, opVars, managerVars
<1>1. CASE PollWake \/ Reap
  <2>1. UNCHANGED <<clock, born, stop, halted, root, rootCreated, ident, tracked, suspended, op, phase, todo>>
    BY <1>1 DEF PollWake, Reap
  <2> QED
    BY <2>1, StopKept DEF Stands, StopInv
<1>2. CASE PollRefresh \/ RefreshProcessTree \/ AttachDone
  <2>1. \E cut : Install(Refreshed(cut))
    BY <1>2 DEF PollRefresh, RefreshProcessTree, AttachDone
  <2>2. UNCHANGED <<clock, born, stop, halted, root, rootCreated>> /\ op' = "none" /\ phase' = "idle"
    BY <1>2 DEF PollRefresh, RefreshProcessTree, AttachDone, Idle, Enter, StopInv
  <2> QED
    BY <2>1, <2>2, StopInstall DEF Stands
<1> QED
  BY <1>1, <1>2

\* A manager bound anew owes nothing.
LEMMA StopBind ==
    ASSUME TypeOK, StopInv, NEW p \in Pids, NEW picked \in Births, Start(p) \/ Attach(p, picked)
    PROVE  StopInv'
<1>1. clock \in Nat /\ 0 <= clock /\ \A q \in Pids : born[q] \in Nat
  BY DEF TypeOK, Births
<1>2. CASE Start(p)
  <2>1. clock' = clock + 1 /\ suspended' = {} /\ rootCreated' \in {0, clock + 1} /\ op' = "none" /\ phase' = phase /\ op = "none"
    BY <1>2 DEF Start, Bind, opVars
  <2>2. \A q \in Pids : born'[q] \in {born[q], clock + 1} /\ ident'[q] \in {0, clock + 1} /\ stop'[q] \in {{}, stop[q]}
    BY <1>2 DEF Start, Bind, TypeOK
  <2>3. phase' = "idle"
    BY <2>1 DEF StopInv
  <2>4. halted' = halted /\ clock + 1 \notin halted /\ \A q \in Pids : born'[q] # clock + 1 => stop'[q] = stop[q]
    BY <1>1, <1>2 DEF Start, TypeOK, StopInv
  <2>5. ~Linux => \A q \in Pids : born'[q] # 0 /\ born'[q] \in halted' => "ours" \in stop'[q]
    BY <2>2, <2>4 DEF StopInv
  <2>6. \A b \in halted' : b <= clock'
    BY <1>1, <2>1, <2>4 DEF StopInv, TypeOK, Births
  <2>7. rootCreated' <= clock' /\ \A q \in Pids : ident'[q] <= clock' /\ born'[q] <= clock'
    BY <1>1, <2>1, <2>2 DEF StopInv
  <2> QED
    BY <2>1, <2>2, <2>3, <2>5, <2>6, <2>7 DEF StopInv
<1>3. CASE Attach(p, picked)
  <2>1. /\ UNCHANGED <<clock, born, stop, halted>> /\ suspended' = {} /\ rootCreated' = Seen(p)
        /\ op' = "attach" /\ phase' = "bound"
        /\ \A q \in Pids : ident'[q] \in {0, Seen(p)}
    BY <1>3 DEF Attach, Bind, Enter, osVars, tableVars
  <2>2. Seen(p) \in {0, born[p]}
    BY DEF Seen
  <2> QED
    BY <1>1, <2>1, <2>2 DEF StopInv
<1> QED
  BY <1>2, <1>3

\* The system gives PIDs to new processes under new births, and on Windows its
\* user continues nothing that DrainTracer suspended.
LEMMA StopSystem ==
    ASSUME TypeOK, IdentityInv, StopInv, SystemStep
    PROVE  StopInv'
<1> USE DEF tableVars
<1>0. UNCHANGED <<root, rootCreated, ident, tracked, suspended, op, phase, todo>>
  BY DEF SystemStep, Fork, Stranger, Exit, UserStop, UserContinue, AccessChanges, managerVars, bindVars, treeVars, debtVars, opVars
<1>1. \A p \in Pids : Expected(p)' = Expected(p)
  BY <1>0 DEF Expected
<1>2. /\ clock \in Nat /\ rootCreated \in Nat
      /\ \A p \in Pids : born[p] \in Nat /\ Expected(p) \in Nat /\ Expected(p) <= clock
  BY DEF TypeOK, Births, Expected, StopInv
<1>3. ASSUME clock' \in {clock, clock + 1},
             \A p \in Pids : \/ born'[p] = 0
                             \/ born'[p] = clock + 1 /\ clock' = clock + 1
                             \/ /\ born'[p] = born[p]
                                /\ born[p] \in halted <=> born[p] \in halted'
                                /\ ~Linux /\ "ours" \in stop[p] => "ours" \in stop'[p],
             halted' \subseteq halted
      PROVE  StopInv'
  <2>1. clock + 1 \notin halted' /\ \A b \in halted' : b <= clock'
    BY <1>2, <1>3 DEF StopInv, TypeOK, Births
  <2>2. ASSUME NEW p \in suspended
        PROVE  born'[p] = Expected(p) => born'[p] \in halted'
    <3>1. p \in Pids /\ Expected(p) # 0 /\ (born[p] = Expected(p) => born[p] \in halted)
      BY DEF StopInv, TypeOK
    <3> QED
      BY <1>2, <1>3, <3>1
  <2>3. ~Linux => \A p \in Pids : born'[p] # 0 /\ born'[p] \in halted' => "ours" \in stop'[p]
    BY <1>3, <2>1 DEF StopInv
  <2>4. rootCreated <= clock' /\ \A p \in Pids : ident[p] <= clock' /\ born'[p] <= clock'
    BY <1>2, <1>3 DEF StopInv, TypeOK, Births
  <2>5. suspended \subseteq Pids
    BY DEF TypeOK
  <2> QED
    BY <1>0, <1>1, <2>1, <2>2, <2>3, <2>4, <2>5 DEF StopInv
<1>4. ASSUME NEW p \in Pids, NEW c \in Pids, NEW leaves \in BOOLEAN, Fork(p, c, leaves)
      PROVE  StopInv'
  BY <1>3, <1>4 DEF Fork, TypeOK
<1>5. ASSUME NEW c \in Pids, Stranger(c)
      PROVE  StopInv'
  BY <1>3, <1>5 DEF Stranger, TypeOK
<1>6. ASSUME NEW p \in Pids, Exit(p)
      PROVE  StopInv'
  <2>1. /\ clock' = clock /\ halted' = halted \ {born[p]} /\ born'[p] = 0 /\ born[p] # 0
        /\ \A q \in Pids : q # p => born'[q] = born[q] /\ stop'[q] = stop[q]
    BY <1>6 DEF Exit, TypeOK
  <2>2. \A q \in Pids : q # p => born[q] # born[p]
    BY <2>1 DEF IdentityInv
  <2> QED
    BY <1>3, <2>1, <2>2
<1>7. ASSUME NEW p \in Pids, UserStop(p)
      PROVE  StopInv'
  BY <1>3, <1>7 DEF UserStop, TypeOK
<1>8. ASSUME NEW p \in Pids, UserContinue(p)
      PROVE  StopInv'
  <2>1. ~Linux => \A q \in Pids : stop'[q] = IF q = p THEN stop[q] \ {"user"} ELSE stop[q]
    BY <1>8 DEF UserContinue, TypeOK
  <2>2. clock' = clock /\ born' = born /\ halted' = halted
    BY <1>8 DEF UserContinue
  <2> QED
    BY <1>3, <2>1, <2>2
<1>9. CASE AccessChanges
  BY <1>3, <1>9 DEF AccessChanges
<1> QED
  BY <1>4, <1>5, <1>6, <1>7, <1>8, <1>9 DEF SystemStep

\* Every step keeps what is owed true.
LEMMA StopStep == ASSUME TypeOK, IdentityInv, StopInv, [Next]_vars PROVE StopInv'
<1>1. CASE ManagerStep
  <2>1. 0 \in Births
    BY DEF Births
  <2>2. ASSUME NEW p \in Pids, Start(p)
        PROVE  StopInv'
    BY <2>1, <2>2, StopBind
  <2>3. ASSUME NEW p \in Pids, NEW picked \in Births, Attach(p, picked)
        PROVE  StopInv'
    BY <2>3, StopBind
  <2> QED
    BY <1>1, <2>2, <2>3, StopTree, StopPause, StopEnd DEF ManagerStep
<1>2. CASE SystemStep
  BY <1>2, StopSystem
<1>3. CASE UNCHANGED vars
  <2>1. UNCHANGED <<clock, born, stop, halted, root, rootCreated, ident, tracked, suspended, op, phase, todo>>
    BY <1>3 DEF vars, osVars, tableVars, managerVars, bindVars, treeVars, debtVars, opVars
  <2> QED
    BY <2>1, StopKept DEF Stands, StopInv
<1> QED
  BY <1>1, <1>2, <1>3 DEF Next

\* A resume continues only what DrainTracer suspended, and on Windows takes only
\* its own suspension back.
LEMMA OnlyUserContinues ==
    ASSUME TypeOK, StopInv, Next,
           NEW p \in Pids, "user" \in stop[p], born'[p] = born[p], "user" \notin stop'[p], ~UserContinue(p),
           ~(Linux /\ born[p] \in halted)
    PROVE  FALSE
<1> USE DEF osVars, tableVars, bindVars, treeVars, debtVars, opVars, managerVars
<1>0. stop'[p] # stop[p] /\ clock + 1 # born[p] /\ born[p] \in Nat
  BY DEF StopInv, TypeOK, Births
<1>1. ASSUME NEW q \in Pids, ResumeNext(q)
      PROVE  FALSE
  <2>1. MayControl(q) /\ stop' = [stop EXCEPT ![q] = Continued(q)] /\ q \in suspended
    BY <1>0, <1>1 DEF ResumeNext, StopInv
  <2>2. q = p /\ stop'[p] = Continued(p)
    BY <1>0, <2>1 DEF TypeOK
  <2>3. born[p] \in halted /\ born[p] # 0
    BY <2>1, <2>2 DEF StopInv, MayControl, PidIsAlive, ProvenGone
  <2>4. ~Linux /\ "ours" \in stop[p]
    BY <2>3 DEF StopInv
  <2> QED
    BY <2>2, <2>4 DEF Continued
<1>2. ASSUME NEW q \in Pids, SuspendNext(q)
      PROVE  FALSE
  BY <1>2 DEF SuspendNext, TypeOK
<1>3. ASSUME NEW q \in Pids, Start(q)
      PROVE  FALSE
  BY <1>0, <1>3 DEF Start, TypeOK
<1>4. ASSUME NEW q \in Pids, NEW c \in Pids, NEW leaves \in BOOLEAN, Fork(q, c, leaves)
      PROVE  FALSE
  BY <1>0, <1>4 DEF Fork, TypeOK
<1>5. ASSUME NEW c \in Pids, Stranger(c)
      PROVE  FALSE
  BY <1>0, <1>5 DEF Stranger, TypeOK
<1>6. ASSUME NEW q \in Pids, Exit(q)
      PROVE  FALSE
  BY <1>6 DEF Exit, TypeOK
<1>7. ASSUME NEW q \in Pids, UserStop(q) \/ UserContinue(q)
      PROVE  FALSE
  BY <1>7 DEF UserStop, UserContinue, TypeOK
<1>8. ASSUME stop' = stop
      PROVE  FALSE
  BY <1>0, <1>8
<1>9. CASE ManagerStep
  <2>1. ASSUME NEW q \in Pids, NEW picked \in Births, Attach(q, picked)
        PROVE  FALSE
    BY <1>8, <2>1 DEF Attach
  <2>2. CASE PollWake \/ PollRefresh \/ RefreshProcessTree \/ AttachDone \/ Reap
    BY <1>8, <2>2 DEF PollWake, PollRefresh, RefreshProcessTree, AttachDone, Reap
  <2>3. CASE PauseBegin \/ SuspendDone \/ ResumeBegin \/ ResumeDone \/ DetachBegin \/ (\E q \in Pids : SuspendFails(q))
    BY <1>8, <2>3 DEF PauseBegin, SuspendDone, ResumeBegin, ResumeDone, DetachBegin, SuspendFails
  <2>4. CASE (\E how \in {"terminate", "kill"} : EndBegin(how)) \/ (\E q \in Pids : SignalNext(q)) \/ WaitLook \/ WaitOn \/ WaitOver
    BY <1>8, <2>4 DEF EndBegin, SignalNext, WaitLook, WaitOn, WaitOver
  <2> QED
    BY <1>1, <1>2, <1>3, <1>9, <2>1, <2>2, <2>3, <2>4 DEF ManagerStep
<1>10. CASE SystemStep
  <2>1. CASE AccessChanges
    BY <1>8, <2>1 DEF AccessChanges
  <2> QED
    BY <1>4, <1>5, <1>6, <1>7, <1>10, <2>1 DEF SystemStep
<1> QED
  BY <1>9, <1>10 DEF Next

\* Only its user continues a process that its user stopped: on Windows always;
\* on Linux unless DrainTracer had suspended it before, since one SIGCONT undoes
\* every stop.  For any interleaving of the two, readable or not
\* (_suspend_pid 996-1002, resume 540-542, _resume_pid 1016-1017).
THEOREM UserStopsRespected == Spec => UserStopRespected
<1> DEFINE Respected == \A p \in Pids :
         "user" \in stop[p] /\ born'[p] = born[p] /\ "user" \notin stop'[p]
         => UserContinue(p) \/ (Linux /\ born[p] \in halted)
<1>1. TypeOK /\ IdentityInv /\ StopInv /\ [Next]_vars => StopInv'
  BY StopStep
<1>2. TypeOK /\ StopInv /\ [Next]_vars => [Respected]_vars
  BY OnlyUserContinues
<1> HIDE DEF Respected
<1>3. Spec => [][Respected]_vars
  BY TypeCorrect, IdentityAlways, StopInit, <1>1, <1>2, PTL DEF Spec
<1> QED
  BY <1>3 DEF UserStopRespected, Respected

=============================================================================
