---------------------------- MODULE AgentRemoval ----------------------------
(***************************************************************************)
(* The files that give an agent its authority over a state directory, who  *)
(* may create and who may remove them (src/src/agent_command.py,           *)
(* agent_diagnostics.py, agent_state.py, agent_transport.py), and the      *)
(* processes the agent launched into jobs of its own (agent_jobs.py).      *)
(*                                                                         *)
(* An agent starts, serves, launches and stops; `remove` takes the files   *)
(* away again.  Each may die between any two system calls, which frees its *)
(* locks and, for an agent, ends the processes of its jobs, soon but not   *)
(* at once.  An operator may run `remove` any number of times.  agent-     *)
(* control.lock, the fence, is never deleted and only its holder matters.  *)
(***************************************************************************)
EXTENDS Naturals, FiniteSets

CONSTANTS
    Agents,    \* agent processes, each started once
    Removers,  \* terminals in which `remove` is run
    Kids,      \* processes that are launched
    Nobody,    \* no process; no file
    MaxFailures \* bound: attempts to remove that break off

\* What the journal says of each process: the agent that has its session,
\* whether that ended, and whether the process is named.
Journals == [of : [Kids -> Agents \cup {Nobody}], ended : SUBSET Kids, named : SUBSET Kids]

ASSUME RemovalAssumption ==
    /\ MaxFailures \in Nat
    /\ Nobody \notin Agents \cup Removers \cup {"empty", "good"} \cup Journals
    /\ Agents \cap Removers = {}

VARIABLES
    at,          \* what each agent and each remover is doing
    apply,       \* whether a remover applies or only previews
    fence,       \* the process that holds agent-control.lock
    locked,      \* ... agent-state.lock
    lockFile,    \* agent-state.lock: Nobody, "empty" or "good"
    credential,  \* the credential: Nobody, "empty" or "good"
    journal,     \* agent-state.json: Nobody, or its sessions [of, ended, named]
    intent,      \* agent-removal.json: Nobody, or the journal it was written for
    kid,         \* what became of each launched process
    failures     \* attempts to remove that broke off

filesVars == <<lockFile, credential, journal, intent>>
removalVars == <<at, apply, fence, locked, filesVars, kid, failures>>

NewJournal == [of |-> [k \in Kids |-> Nobody], ended |-> {}, named |-> {}]

RemovalInit ==
    /\ at = [p \in Agents \cup Removers |-> "idle"] /\ apply = [r \in Removers |-> FALSE]
    /\ fence = Nobody /\ locked = Nobody
    /\ lockFile = Nobody /\ credential = Nobody /\ journal = Nobody /\ intent = Nobody
    /\ kid = [k \in Kids |-> "unborn"] /\ failures = 0

Goes(p, step) == at' = [at EXCEPT ![p] = step]
Frees(p) ==
    /\ fence' = IF fence = p THEN Nobody ELSE fence
    /\ locked' = IF locked = p THEN Nobody ELSE locked

Running(k) == kid[k] \in {"alive", "dying"}

-----------------------------------------------------------------------------
(* The lock file of the journal, as both sides take it (checkpoints._lock) *)

\* Opening creates the file; the byte that makes it a lock file follows.
CreatesLock(p, after) ==
    /\ lockFile = Nobody
    /\ lockFile' = "empty" /\ Goes(p, after)
    /\ UNCHANGED <<apply, fence, locked, credential, journal, intent, kid, failures>>

Locks(p, after) ==
    /\ lockFile # Nobody /\ locked = Nobody
    /\ lockFile' = "good" /\ locked' = p /\ Goes(p, after)
    /\ UNCHANGED <<apply, fence, credential, journal, intent, kid, failures>>

-----------------------------------------------------------------------------
(* An agent *)

TakeFence(a) ==
    /\ at[a] = "idle" /\ fence = Nobody
    /\ fence' = a /\ Goes(a, "fenced")
    /\ UNCHANGED <<apply, locked, filesVars, kid, failures>>

MayStart == intent = Nobody

CreateCredential(a) ==
    /\ at[a] = "fenced" /\ MayStart /\ credential = Nobody
    /\ credential' = "empty" /\ Goes(a, "secret")
    /\ UNCHANGED <<apply, fence, locked, lockFile, journal, intent, kid, failures>>

\* A credential that is not whole ends the start, now and every time.
HaveCredential(a) ==
    /\ \/ at[a] = "secret" /\ credential' = "good"
       \/ at[a] = "fenced" /\ MayStart /\ credential = "good" /\ UNCHANGED credential
    /\ Goes(a, "journal")
    /\ UNCHANGED <<apply, fence, locked, lockFile, journal, intent, kid, failures>>

\* The registry marks what an earlier agent left and writes the journal.
Serve(a) ==
    /\ at[a] = "locked"
    /\ journal' = IF journal = Nobody THEN NewJournal ELSE journal
    /\ Goes(a, "serving")
    /\ UNCHANGED <<apply, fence, locked, lockFile, credential, intent, kid, failures>>

\* The session is on record before its process is started, and the process
\* is named in the journal or the checkpoint some time after.
Admit(a, k) ==
    /\ at[a] = "serving" /\ journal.of[k] = Nobody /\ kid[k] = "unborn"
    /\ journal' = [journal EXCEPT !.of[k] = a]
    /\ UNCHANGED <<at, apply, fence, locked, lockFile, credential, intent, kid, failures>>

\* JobProcess: the process runs only once it is in a job that ends with us.
Launch(a, k) ==
    /\ at[a] = "serving" /\ journal.of[k] = a /\ kid[k] = "unborn" /\ k \notin journal.ended
    /\ kid' = [kid EXCEPT ![k] = "alive"]
    /\ UNCHANGED <<at, apply, fence, locked, filesVars, failures>>

Name(a, k) ==
    /\ at[a] = "serving" /\ journal.of[k] = a /\ kid[k] # "unborn" /\ k \notin journal.named
    /\ journal' = [journal EXCEPT !.named = @ \cup {k}]
    /\ UNCHANGED <<at, apply, fence, locked, lockFile, credential, intent, kid, failures>>

\* refresh writes a session that ended, with the process it had.
Ended(a, k) ==
    /\ at[a] = "serving" /\ journal.of[k] = a /\ kid[k] = "dead" /\ k \notin journal.ended
    /\ journal' = [journal EXCEPT !.ended = @ \cup {k}, !.named = @ \cup {k}]
    /\ UNCHANGED <<at, apply, fence, locked, lockFile, credential, intent, kid, failures>>

\* registry.close ends what it can in fifteen seconds; what is left keeps
\* its record open and its process, for as long as this process lives.
Stop(a, left) ==
    LET mine == {k \in Kids : journal # Nobody /\ journal.of[k] = a}
        done == mine \ left
    IN /\ at[a] = "serving" /\ left \subseteq {k \in mine : kid[k] = "alive"}
       /\ kid' = [k \in Kids |-> IF k \in done /\ kid[k] = "alive" THEN "dead" ELSE kid[k]]
       /\ journal' = [journal EXCEPT !.ended = @ \cup done, !.named = @ \cup {k \in done : kid[k] # "unborn"}]
       /\ Goes(a, "stopped") /\ Frees(a)
       /\ UNCHANGED <<apply, lockFile, credential, intent, failures>>

\* A refused or failed start, the end of the process, or a crash.
AgentEnds(a) ==
    /\ at[a] \notin {"idle", "gone"}
    /\ Goes(a, "gone") /\ Frees(a)
    /\ kid' = [k \in Kids |-> IF kid[k] = "alive" /\ journal # Nobody /\ journal.of[k] = a THEN "dying" ELSE kid[k]]
    /\ UNCHANGED <<apply, filesVars, failures>>

Dies(k) ==
    /\ Running(k)
    /\ kid' = [kid EXCEPT ![k] = "dead"]
    /\ UNCHANGED <<at, apply, fence, locked, filesVars, failures>>

AgentStep(a) ==
    \/ TakeFence(a) \/ CreateCredential(a) \/ HaveCredential(a)
    \/ at[a] = "journal" /\ (CreatesLock(a, "journal") \/ Locks(a, "locked"))
    \/ Serve(a) \/ AgentEnds(a)
    \/ \E k \in Kids : Admit(a, k) \/ Launch(a, k) \/ Name(a, k) \/ Ended(a, k)
    \/ \E left \in SUBSET Kids : Stop(a, left)

-----------------------------------------------------------------------------
(* remove_control_files *)

\* Mutation: the fence is not taken.
FenceFree_Ignored == TRUE
FenceFree == fence = Nobody

Begin(r, applies) ==
    /\ at[r] = "idle" /\ FenceFree
    /\ \/ credential # Nobody \/ lockFile # Nobody
       \/ journal # Nobody \/ intent # Nobody
    /\ fence' = r /\ apply' = [apply EXCEPT ![r] = applies] /\ Goes(r, "looking")
    /\ UNCHANGED <<locked, filesVars, kid, failures>>

\* Mutation: a lock file that an earlier removal deleted ends this one.
LockMayBeMissing_Never(r) == FALSE
LockMayBeMissing(r) == apply[r]

\* An intent must be that of this very journal, and the credential whole;
\* the lock file must be one, or be missing from an earlier attempt.
Confirmed(r) ==
    /\ journal # Nobody /\ intent \in {Nobody, journal} /\ credential # "empty"
    /\ lockFile = "good" \/ (lockFile = Nobody /\ LockMayBeMissing(r))

Confirm(r) ==
    /\ at[r] = "looking" /\ Confirmed(r)
    /\ \/ Locks(r, "checking")
       \/ CreatesLock(r, "locking")

\* Only the intent of a removal that was checked lets it go on without one.
Resumable(r) == journal = Nobody /\ intent # Nobody /\ apply[r]

Resume(r) ==
    /\ at[r] = "looking" /\ Resumable(r)
    /\ Goes(r, "unlock file")
    /\ UNCHANGED <<apply, fence, locked, filesVars, kid, failures>>

\* _confirm_no_owned_survivors
NoSurvivors ==
    \A k \in Kids : journal.of[k] # Nobody =>
        /\ k \notin journal.ended => at[journal.of[k]] = "gone"
        /\ k \in journal.named => ~Running(k)

WriteIntent(r) ==
    /\ at[r] = "checking" /\ NoSurvivors /\ apply[r]
    /\ intent' = journal /\ Goes(r, "credential")
    /\ UNCHANGED <<apply, fence, locked, lockFile, credential, journal, kid, failures>>

UnlinkCredential(r) ==
    /\ at[r] = "credential"
    /\ credential' = Nobody /\ Goes(r, "unlock")
    /\ UNCHANGED <<apply, fence, locked, lockFile, journal, intent, kid, failures>>

\* Windows deletes no open file: the lock is released before it is deleted.
Unlock(r) ==
    /\ at[r] = "unlock"
    /\ locked' = (IF locked = r THEN Nobody ELSE locked) /\ Goes(r, "unlock file")
    /\ UNCHANGED <<apply, fence, filesVars, kid, failures>>

UnlinkLock(r) ==
    /\ at[r] = "unlock file"
    /\ lockFile' = Nobody /\ Goes(r, "journal")
    /\ UNCHANGED <<apply, fence, locked, credential, journal, intent, kid, failures>>

UnlinkJournal(r) ==
    /\ at[r] = "journal"
    /\ journal' = Nobody /\ Goes(r, "intent")
    /\ UNCHANGED <<apply, fence, locked, lockFile, credential, intent, kid, failures>>

UnlinkIntent(r) ==
    /\ at[r] = "intent"
    /\ intent' = Nobody /\ Goes(r, "done")
    /\ UNCHANGED <<apply, fence, locked, lockFile, credential, journal, kid, failures>>

RemoverEnds(r) ==
    /\ at[r] # "idle"
    /\ Goes(r, "idle") /\ Frees(r) /\ apply' = [apply EXCEPT ![r] = FALSE]
    /\ UNCHANGED <<filesVars, kid>>

\* The end of a preview or of a removal, or a refusal.
Ends(r) ==
    /\ \/ at[r] = "looking" /\ ~Confirmed(r) /\ ~Resumable(r)
       \/ at[r] = "checking" /\ ~(NoSurvivors /\ apply[r])
       \/ at[r] = "done"
    /\ RemoverEnds(r)
    /\ UNCHANGED failures

\* A crash, or a file that could not be written or deleted.
Fails(r) ==
    /\ failures < MaxFailures /\ failures' = failures + 1
    /\ RemoverEnds(r)

Works(r) ==
    \/ Confirm(r) \/ Resume(r)
    \/ at[r] = "locking" /\ Locks(r, "checking")
    \/ WriteIntent(r) \/ UnlinkCredential(r) \/ Unlock(r) \/ UnlinkLock(r) \/ UnlinkJournal(r) \/ UnlinkIntent(r)

RemovalNext ==
    \/ \E a \in Agents : AgentStep(a)
    \/ \E r \in Removers : Works(r) \/ Ends(r) \/ Fails(r) \/ \E applies \in BOOLEAN : Begin(r, applies)
    \/ \E k \in Kids : Dies(k)

(* A call in progress goes on, and an operator repeats a removal that did  *)
(* not take.                                                               *)
RemovalFairness ==
    /\ \A a \in Agents : WF_removalVars(~MayStart /\ at[a] = "fenced" /\ AgentEnds(a))
    /\ \A r \in Removers :
           WF_removalVars(Works(r)) /\ WF_removalVars(Ends(r)) /\ SF_removalVars(Begin(r, TRUE))

RemovalSpec == RemovalInit /\ [][RemovalNext]_removalVars /\ RemovalFairness

-----------------------------------------------------------------------------
(* Nothing is removed from under an agent: whoever serves has its lock and *)
(* all its files (AgentServer.__init__, remove_control_files).             *)
AuthorityStays ==
    \A a \in Agents : at[a] = "serving" =>
        /\ fence = a /\ locked = a
        /\ lockFile = "good" /\ credential = "good" /\ journal # Nobody /\ intent = Nobody

(* From the intent on nothing is left to own: no agent serves, and every   *)
(* process its records name has ended; so no crash of a removal, and no    *)
(* start in the middle of one, loses a process that is still running.      *)
RemovalOwnsNothing ==
    intent # Nobody =>
        /\ \A a \in Agents : at[a] # "serving"
        /\ journal \in {Nobody, intent}
        /\ \A k \in intent.named : ~Running(k)
        /\ \A k \in Kids \ intent.ended : intent.of[k] # Nobody => at[intent.of[k]] = "gone"

(* What a removal takes away belongs to nobody, before and while it does.  *)
RemovalIsSafe == AuthorityStays /\ RemovalOwnsNothing

(* A removal that was interrupted anywhere can be repeated until it is     *)
(* done, with one exception: the retry that must recreate the lock file    *)
(* dies before it has written it.                                          *)
RemovalFinishes == intent # Nobody ~> (intent = Nobody \/ lockFile = "empty")
=============================================================================
