------------------------------- MODULE Agent -------------------------------
(***************************************************************************)
(* AgentRegistry and AgentJournal (src/src/agent_service.py,               *)
(* agent_state.py) under the loop of agent_command.serve: one thread       *)
(* answers start requests, watches the sessions it started, and keeps      *)
(* their records and the identities of the requests in a journal that is   *)
(* replaced atomically or not at all.  The agent may crash between any two *)
(* steps; the journal alone survives.                                      *)
(*                                                                         *)
(* A request is an identity "req" and parameters "digest"; a session is    *)
(* the number of its admission.  The loop is single-threaded, so a step    *)
(* ends where the journal is written, a backend is started, or the loop    *)
(* waits for the next request.                                             *)
(***************************************************************************)
EXTENDS Naturals, Sequences, FiniteSets, SequencesExt, Selection

CONSTANTS
    Reqs,         \* request identities
    Digests,      \* what a request may ask for
    NoReq,        \* no request is being handled
    MaxActive,    \* policy.max_sessions
    MaxRecords,   \* policy.max_records
    MaxTombs,     \* start identities kept (256)
    MaxReplies,   \* replies kept in memory (256)
    Retention,    \* journal.retention_seconds
    MaxTime,      \* bound: the clock
    MaxStarts     \* bound: admissions

ASSUME BoundsAssumption ==
    /\ {MaxActive, MaxRecords, MaxTombs, MaxReplies, Retention, MaxTime, MaxStarts}
         \subseteq Nat \ {0}
    /\ MaxActive <= MaxRecords
ASSUME ReqAssumption == NoReq \notin Reqs

VARIABLES
    now,       \* the clock
    disk,      \* agent-state.json: its sessions and tombstones
    phase,     \* "down", "idle", "dispatch", "admitted" or "closing"
    records,   \* the registry's records, oldest first
    tombs,     \* the identities of accepted starts, oldest first
    replies,   \* the last replies, oldest first
    request,   \* the start request that is being handled
    backend,   \* what became of each session's backend
    admitted   \* history: the sessions that were admitted

registryVars == <<records, tombs, replies>>
vars == <<now, disk, phase, registryVars, request, backend, admitted>>

Sids == 1..MaxStarts

\* "running" stands for the API's starting, running and stopping, "finished"
\* for completed and failed.
Terminal == {"finished", "interrupted"}
States == {"accepted", "running"} \cup Terminal

Record == [sid : Sids, req : Reqs, digest : Digests, state : States, updated : 0..MaxTime]
Tomb == [req : Reqs, digest : Digests, sid : Sids, expires : Nat]

\* A reply names the session of an accepted start, or is an error.
Error == 0
Reply == [req : Reqs, digest : Digests, sid : Sids \cup {Error}]
Admission == [req : Reqs, digest : Digests, sid : Sids, at : 0..MaxTime]
NoRequest == [req |-> NoReq]

Active(recs) == {n \in DOMAIN recs : recs[n].state \notin Terminal}

TypeOK ==
    /\ now \in 0..MaxTime
    /\ disk \in [sessions : Seq(Record), tombs : Seq(Tomb)]
    /\ phase \in {"down", "idle", "dispatch", "admitted", "closing"}
    /\ records \in Seq(Record) /\ tombs \in Seq(Tomb) /\ replies \in Seq(Reply)
    /\ request \in {NoRequest} \cup [req : Reqs, digest : Digests]
    /\ backend \in [Sids -> {"absent", "running", "finished"}]
    /\ admitted \in Seq(Admission)
    /\ \A s \in {disk.sessions, records} :
         /\ Len(s) <= MaxRecords
         /\ \A m, n \in DOMAIN s : s[m].sid = s[n].sid => m = n
    /\ Cardinality(Active(records)) <= MaxActive
    /\ Len(tombs) <= MaxTombs /\ Len(disk.tombs) <= MaxTombs /\ Len(replies) <= MaxReplies

Init ==
    /\ now = 0
    /\ disk = [sessions |-> <<>>, tombs |-> <<>>]
    /\ phase = "down"
    /\ records = <<>> /\ tombs = <<>> /\ replies = <<>>
    /\ request = NoRequest
    /\ backend = [s \in Sids |-> "absent"]
    /\ admitted = <<>>

-----------------------------------------------------------------------------
(* Bounded sequences and lookups *)

\* The newest entries of s, at most "bound" of them.
Newest(s, bound) == IF Len(s) > bound THEN SubSeq(s, Len(s) - bound + 1, Len(s)) ELSE s

Unexpired(ts) == Selected(ts, {n \in DOMAIN ts : ts[n].expires > now})

\* What the entries of s know of request r.
Known(s, r) ==
    {[digest |-> e.digest, sid |-> e.sid] : e \in {e \in ToSet(s) : e.req = r}}

\* Mutation: the tombstones are not consulted.
Retained_RecordsOnly(r) == Known(records, r)

\* What is retained of request r: its tombstone, or else its record.
Retained(r) == IF Known(tombs, r) # {} THEN Known(tombs, r) ELSE Known(records, r)

Same(k, d) == IF k.digest = d THEN k.sid ELSE Error

\* What request r with parameters d is told without a look at its meaning;
\* nothing (the empty set) when it is new.  A cached reply comes first.
Answer(r, d) ==
    {Same(k, d) : k \in IF Known(replies, r) # {} THEN Known(replies, r) ELSE Retained(r)}

Remember(r, d, sid) ==
    replies' = Newest(Append(replies, [req |-> r, digest |-> d, sid |-> sid]), MaxReplies)

-----------------------------------------------------------------------------
(* The journal *)

\* _persist: records and tombstones are written, or the file stays as it
\* was.  Expired tombstones leave memory either way.
Saved(recs, ts) ==
    /\ disk' = [sessions |-> recs, tombs |-> Unexpired(ts)]
    /\ tombs' = Unexpired(ts)

NotSaved(ts) ==
    /\ tombs' = Unexpired(ts)
    /\ UNCHANGED disk

\* A record after a look at its session's backend.
Observed(e) ==
    IF e.state \in Terminal \/ backend[e.sid] = "absent" THEN e
    ELSE [e EXCEPT !.state = backend[e.sid],
                   !.updated = IF backend[e.sid] = "finished" THEN now ELSE @]

\* refresh: the journal is written when something has changed (if only a
\* sample count); that may fail, or wait for a second to pass.
Refresh ==
    /\ records' = [n \in DOMAIN records |-> Observed(records[n])]
    /\ Saved(records', tombs) \/ NotSaved(tombs) \/ UNCHANGED <<disk, tombs>>

-----------------------------------------------------------------------------
(* serve: between requests *)

Watch ==
    /\ phase = "idle"
    /\ Refresh
    /\ UNCHANGED <<now, phase, replies, request, backend, admitted>>

\* An export ends with a write of its own.
Export ==
    /\ phase = "idle" /\ records # <<>>
    /\ Saved(records, tombs) \/ NotSaved(tombs)
    /\ UNCHANGED <<now, phase, records, replies, request, backend, admitted>>

\* The replies to other requests push the oldest out of the cache.
OtherReplies ==
    /\ phase = "idle" /\ replies # <<>>
    /\ replies' = Tail(replies)
    /\ UNCHANGED <<now, disk, phase, records, tombs, request, backend, admitted>>

-----------------------------------------------------------------------------
(* A start request *)

\* A start that is retained is answered, never started again.  (One that is
\* cached is answered, and changes nothing.)
Replay(r, d) ==
    /\ phase = "idle" /\ Known(replies, r) = {}
    /\ \E k \in Retained(r) : Remember(r, d, Same(k, d))
    /\ UNCHANGED <<now, disk, phase, records, tombs, request, backend, admitted>>

Receive(r, d) ==
    /\ phase = "idle" /\ Answer(r, d) = {}
    /\ Refresh
    /\ request' = [req |-> r, digest |-> d] /\ phase' = "dispatch"
    /\ UNCHANGED <<now, replies, backend, admitted>>

Finished == {n \in DOMAIN records : records[n].state \in Terminal}
Room == Len(records) < MaxRecords \/ Finished # {}
Admissible == Cardinality(Active(records)) < MaxActive /\ Room

\* The record that makes room, if one must, is the oldest that is finished.
Full == Len(records) >= MaxRecords
Retired == CHOOSE n \in Finished : \A m \in Finished : n <= m
Kept == IF Full THEN RemoveAt(records, Retired) ELSE records

\* Capacity is exhausted, storage is short, or the parameters are refused.
Refuse ==
    /\ phase = "dispatch"
    /\ Remember(request.req, request.digest, Error)
    /\ phase' = "idle" /\ request' = NoRequest
    /\ UNCHANGED <<now, disk, records, tombs, backend, admitted>>

Sid == Len(admitted) + 1
NewRecord ==
    [sid |-> Sid, req |-> request.req, digest |-> request.digest,
     state |-> "accepted", updated |-> now]
NewTomb ==
    [req |-> request.req, digest |-> request.digest, sid |-> Sid, expires |-> now + Retention]

\* Mutation: the backend is started before the admission is on disk.
AdmitSaved_LaunchedFirst ==
    /\ phase = "dispatch" /\ Admissible /\ Len(admitted) < MaxStarts
    /\ records' = Append(Kept, NewRecord)
    /\ NotSaved(Newest(Append(tombs, NewTomb), MaxTombs))
    /\ admitted' = Append(admitted, [req |-> request.req, digest |-> request.digest, sid |-> Sid, at |-> now])
    /\ phase' = "admitted"
    /\ UNCHANGED <<now, replies, request, backend>>

\* The admission is on disk before anything is launched.
AdmitSaved ==
    /\ phase = "dispatch" /\ Admissible /\ Len(admitted) < MaxStarts
    /\ records' = Append(Kept, NewRecord)
    /\ Saved(records', Newest(Append(tombs, NewTomb), MaxTombs))
    /\ admitted' = Append(admitted, [req |-> request.req, digest |-> request.digest, sid |-> Sid, at |-> now])
    /\ phase' = "admitted"
    /\ UNCHANGED <<now, replies, request, backend>>

\* The journal cannot be written: nothing is launched, and what made room
\* comes back (the record as the oldest one).
AdmitUnsaved ==
    /\ phase = "dispatch" /\ Admissible /\ Len(admitted) < MaxStarts
    /\ records' = IF Full THEN <<records[Retired]>> \o Kept ELSE records
    /\ Remember(request.req, request.digest, Error)
    /\ phase' = "idle" /\ request' = NoRequest
    /\ UNCHANGED <<now, disk, tombs, backend, admitted>>

\* The backend starts, or its start fails and is put on record.
Launch ==
    /\ phase = "admitted"
    /\ \/ /\ backend' = [backend EXCEPT ![Len(admitted)] = "running"]
          /\ UNCHANGED <<disk, records, tombs>>
       \/ /\ records' = [records EXCEPT ![Len(records)].state = "finished"]
          /\ Saved(records', tombs) \/ NotSaved(tombs)
          /\ UNCHANGED backend
    /\ Remember(request.req, request.digest, Len(admitted))
    /\ phase' = "idle" /\ request' = NoRequest
    /\ UNCHANGED <<now, admitted>>

-----------------------------------------------------------------------------
(* The end of an agent, and the next one *)

Forget ==
    /\ phase' = "down"
    /\ records' = <<>> /\ tombs' = <<>> /\ replies' = <<>>
    /\ request' = NoRequest
    /\ backend' = [s \in Sids |-> "absent"]
    /\ UNCHANGED <<now, admitted>>

\* The process dies: its jobs close, and its threads are gone.
Crash ==
    /\ phase # "down"
    /\ Forget /\ UNCHANGED disk

\* No request is taken after a shutdown; every session is cancelled.
Shutdown ==
    /\ phase = "idle"
    /\ phase' = "closing"
    /\ UNCHANGED <<now, disk, registryVars, request, backend, admitted>>

\* close: the sessions ended or ran into the deadline; the last write.
Close ==
    /\ phase = "closing"
    /\ disk' \in {disk, [sessions |-> [n \in DOMAIN records |-> Observed(records[n])],
                         tombs |-> Unexpired(tombs)]}
    /\ Forget

\* What a restart makes of a saved record.
Interrupted(e) ==
    IF e.state \in Terminal THEN e ELSE [e EXCEPT !.state = "interrupted", !.updated = now]

\* Mutation: a record that was active at the crash may be too old.
Outlived_Any(e) == e.updated + Retention < now

Outlived(e) == e.state \in Terminal /\ e.updated + Retention < now

\* _restore: the constructor fails unless the interruptions are saved.
Restart ==
    /\ phase = "down"
    /\ LET saved == disk.sessions
           kept == Selected(saved, {n \in DOMAIN saved : ~Outlived(saved[n])})
       IN records' = Newest([n \in DOMAIN kept |-> Interrupted(kept[n])], MaxRecords)
    /\ Saved(records', disk.tombs)
    /\ phase' = "idle"
    /\ UNCHANGED <<now, replies, request, backend, admitted>>

-----------------------------------------------------------------------------
(* Around the agent *)

\* A session ends by itself, at its deadline, or because it was cancelled.
Finish(s) ==
    /\ backend[s] = "running"
    /\ backend' = [backend EXCEPT ![s] = "finished"]
    /\ UNCHANGED <<now, disk, phase, registryVars, request, admitted>>

Tick ==
    /\ now < MaxTime
    /\ now' = now + 1
    /\ UNCHANGED <<disk, phase, registryVars, request, backend, admitted>>

Next ==
    \/ Watch \/ Export \/ OtherReplies
    \/ \E r \in Reqs, d \in Digests : Replay(r, d) \/ Receive(r, d)
    \/ Refuse \/ AdmitSaved \/ AdmitUnsaved \/ Launch
    \/ Crash \/ Shutdown \/ Close \/ Restart
    \/ \E s \in Sids : Finish(s)
    \/ Tick

Spec == Init /\ [][Next]_vars

-----------------------------------------------------------------------------
(* Correctness *)

\* A session that runs is on record as unfinished: a crash at any moment
\* leaves it visible.
\* (_start 551-574, agent-recovery.md "Durable ownership intent")
LiveIsRecorded ==
    \A s \in Sids : backend[s] = "running" =>
        \E e \in ToSet(disk.sessions) : e.sid = s /\ e.state \notin Terminal

\* A request starts a second session only after its retention, or when
\* enough others were admitted since.
\* (handle 349-358)
OneSessionPerRequest ==
    \A m, n \in DOMAIN admitted :
        m < n /\ admitted[m].req = admitted[n].req =>
            \/ admitted[n].at >= admitted[m].at + Retention
            \/ n - m > MaxTombs

\* Who is told that a session was accepted asked for that session, with the
\* same parameters.
\* (handle 342-358)
AcceptedIsTrue ==
    \A r \in Reqs, d \in Digests : \A s \in Answer(r, d) \ {Error} :
        phase = "idle" => \E a \in ToSet(admitted) : a.req = r /\ a.digest = d /\ a.sid = s

\* A start request is answered once: it starts one session while it is
\* retained, and nobody is told of a session that is not theirs.
StartsAreOnce == OneSessionPerRequest /\ AcceptedIsTrue

\* What the journal says of how a session ended, its state and the time of
\* it, never changes once it is there.  (The rest of an entry may: a restart
\* looks again for the process it was of, and an export of what was left adds
\* the names of the reports.)
\* (_restore 215-231, refresh 288-289)
FinalIsFinal ==
    [][\A e \in ToSet(disk.sessions), f \in ToSet(disk'.sessions) :
         e.sid = f.sid /\ e.state \in Terminal => f = e]_vars

\* A running agent forgets one finished session for each one it admits, and
\* none for a start that it refuses.
\* (_start 503-507, 551, 566-571)
OnlyAdmissionRetires ==
    [][phase' # "down" =>
         Cardinality({e \in ToSet(records) : \A f \in ToSet(records') : f.sid # e.sid})
             <= Len(admitted') - Len(admitted)]_vars

\* Every session that was unfinished in the journal is reported as
\* interrupted by the next agent, however old it is.
\* (_restore 203-206, 215-217)
InterruptedIsReported ==
    [][phase = "down" /\ phase' = "idle" =>
         \A e \in ToSet(disk.sessions) : e.state \notin Terminal =>
             \E f \in ToSet(records') : f.sid = e.sid /\ f.state = "interrupted"]_vars

\* A start that was accepted is on record before its session lives, and is
\* never started again, whatever was retired or restarted.
AdmissionIsTrue == LiveIsRecorded /\ StartsAreOnce

\* What the journal says of a session that ended stays, one is forgotten only
\* for one admitted, and what was unfinished is reported by the next agent.
JournalIsKept == FinalIsFinal /\ OnlyAdmissionRetires /\ InterruptedIsReported

\* What agent-recovery.md says of a repeated start: as long as it is
\* retained, the same request is told its original session.
\* (handle 342-346, 373-378)
RetainedStartAnswered ==
    phase = "idle" => \A t \in ToSet(tombs) : Answer(t.req, t.digest) = {t.sid}
=============================================================================
