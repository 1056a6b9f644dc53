------------------------------ MODULE Session ------------------------------
(***************************************************************************)
(* MonitorSession (src/src/session.py) with the sampling thread of its     *)
(* LeakDetector (leak_detector.py) and the MetricsStream between the two   *)
(* (events.py): start, monitor, shut down, with errors and Ctrl+C between  *)
(* any two steps and a sampling thread that may hang.                      *)
(*                                                                         *)
(* The process manager is what ProcessControl makes of it: it tracks the   *)
(* root, only its leftovers, or nothing, and what it tracks may be frozen. *)
(* Each of its operations may fail to reach every process.  Samples are    *)
(* numbered as they are put in the queue; what they measured is left out.  *)
(* Ctrl+C falls into a call; the few instructions between a handler and    *)
(* the try block it enters next are left out.                              *)
(***************************************************************************)
EXTENDS Naturals, Sequences

CONSTANTS
    QueueMax,    \* MetricsStream: max_queue_size
    MaxSamples,  \* bound: samples the thread takes
    MaxHits,     \* bound: times Ctrl+C is pressed
    MaxErrors    \* bound: unexpected errors

ASSUME BoundsAssumption ==
    QueueMax \in Nat \ {0} /\ MaxSamples \in Nat /\ MaxHits \in Nat /\ MaxErrors \in Nat

VARIABLES
    \* the main thread
    pc, phase,
    attached,  \* the target was attached to, not launched
    store,     \* the checkpoint writer: "none", "open" or "closed"
    cleanup,   \* _cleanup_state
    hits, errors,
    half,      \* history: the last cleanup operation raised
    \* the process manager
    tracked,   \* "none", "root" or "leftovers"
    frozen,    \* a tracked process is owed a resume
    \* the sampling thread and its stream
    sampler,   \* where the thread is: "none", "wait", "collect", "publish", "evict" or "put"
    thread,    \* _thread is not None
    stopped,   \* _stop_event
    taken, sent, queue, dropped, arrived

sessionVars == <<attached, store, cleanup, half>>
managerVars == <<tracked, frozen>>
samplerVars == <<sampler, thread, stopped, taken>>
streamVars == <<sent, queue, dropped, arrived>>
vars == <<pc, phase, hits, errors, sessionVars, managerVars, samplerVars, streamVars>>

Init ==
    /\ pc = "new" /\ phase = "start"
    /\ attached \in BOOLEAN
    /\ store = "none" /\ cleanup = "not_attempted"
    /\ hits = 0 /\ errors = 0 /\ half = FALSE
    /\ tracked = "none" /\ frozen = FALSE
    /\ sampler = "none" /\ thread = FALSE /\ stopped = FALSE /\ taken = 0
    /\ sent = 0 /\ queue = <<>> /\ dropped = 0 /\ arrived = <<>>

-----------------------------------------------------------------------------
(* The sampling thread *)

Wake ==
    /\ sampler = "wait" /\ ~stopped /\ taken < MaxSamples
    /\ sampler' = "collect" /\ taken' = taken + 1
    /\ UNCHANGED streamVars

Exit == sampler = "wait" /\ stopped /\ sampler' = "none" /\ UNCHANGED <<taken, streamVars>>

\* A sample, a paused one, or an error: each is published.
Collected == sampler = "collect" /\ sampler' = "publish" /\ UNCHANGED <<taken, streamVars>>

LookFull ==
    /\ sampler = "publish"
    /\ sampler' = IF Len(queue) = QueueMax THEN "evict" ELSE "put"
    /\ UNCHANGED <<taken, streamVars>>

\* Mutation: what is discarded is not counted.
Evict_Uncounted ==
    /\ sampler = "evict" /\ sampler' = "put"
    /\ queue' = IF queue = <<>> THEN queue ELSE Tail(queue)
    /\ UNCHANGED <<taken, sent, dropped, arrived>>

\* The reader may have drained the queue since the look.
Evict ==
    /\ sampler = "evict" /\ sampler' = "put"
    /\ IF queue = <<>> THEN UNCHANGED <<queue, dropped>>
       ELSE queue' = Tail(queue) /\ dropped' = dropped + 1
    /\ UNCHANGED <<taken, sent, arrived>>

Put ==
    /\ sampler = "put" /\ sampler' = "wait"
    /\ queue' = Append(queue, sent + 1) /\ sent' = sent + 1
    /\ UNCHANGED <<taken, dropped, arrived>>

\* Observing the sample raises: it is logged, and the thread goes on.
PublishRaises == sampler = "put" /\ sampler' = "wait" /\ UNCHANGED <<taken, streamVars>>

Sampling ==
    /\ Wake \/ Exit \/ Collected \/ LookFull \/ Evict \/ Put \/ PublishRaises
    /\ UNCHANGED <<pc, phase, hits, errors, sessionVars, managerVars, thread, stopped>>

\* The detector's is_running.
IsRunning == thread /\ sampler # "none"

-----------------------------------------------------------------------------
(* The target *)

TargetExits ==
    /\ tracked # "none"
    /\ tracked' \in IF tracked = "root" THEN {"leftovers", "none"} ELSE {"none"}
    /\ frozen' = (frozen /\ tracked' # "none")
    /\ UNCHANGED <<pc, phase, hits, errors, sessionVars, samplerVars, streamVars>>

\* How an operation of the manager may leave the tree: done, or some of its
\* processes still tracked.
Done == [tracked |-> "none", frozen |-> FALSE]
Kept == IF tracked = "none" THEN {"none"} ELSE {tracked, "leftovers"}
Left == {Done} \cup [tracked : Kept, frozen : {frozen, FALSE}]

\* Detaching ends without an error only when everything was released.
Finished(op) == IF op = "detach" THEN {Done} ELSE Left

-----------------------------------------------------------------------------
(* The main thread *)

Step(from, to) == pc = from /\ pc' = to
KeepTarget == UNCHANGED <<managerVars, samplerVars, streamVars>>
KeepRest == UNCHANGED <<phase, hits, errors>>

OpenStore ==
    /\ Step("new", "opened") /\ KeepRest
    /\ store' \in {"none", "open"}
    /\ UNCHANGED <<attached, cleanup, half>> /\ KeepTarget

\* start or attach: the first sample follows at once.
Acquire ==
    /\ Step("opened", "first") /\ KeepRest
    /\ tracked' = "root"
    /\ UNCHANGED <<frozen, sessionVars, samplerVars, streamVars>>

FirstSample == Step("first", "ready") /\ KeepRest /\ UNCHANGED sessionVars /\ KeepTarget

StartSampler ==
    /\ Step("ready", "started")
    /\ sampler' = "wait" /\ thread' = TRUE /\ stopped' = FALSE
    /\ UNCHANGED <<phase, hits, errors, sessionVars, managerVars, taken, streamVars>>

\* The start is logged and a first checkpoint written.
Started ==
    /\ Step("started", "running") /\ phase' = "monitor"
    /\ UNCHANGED <<hits, errors, sessionVars>> /\ KeepTarget

\* poll: the queue is emptied one item at a time.
Drain ==
    /\ pc \in {"running", "poll", "ended"} /\ queue # <<>>
    /\ arrived' = Append(arrived, Head(queue)) /\ queue' = Tail(queue)
    /\ UNCHANGED <<pc, phase, hits, errors, sessionVars, managerVars, samplerVars, sent, dropped>>

Pause ==
    /\ pc = "running" /\ tracked # "none" /\ ~frozen
    /\ frozen' = TRUE
    /\ UNCHANGED <<pc, phase, hits, errors, tracked, sessionVars, samplerVars, streamVars>>

Resume ==
    /\ pc = "running" /\ frozen
    /\ frozen' = FALSE
    /\ UNCHANGED <<pc, phase, hits, errors, tracked, sessionVars, samplerVars, streamVars>>

\* Monitoring ends: the user, a time limit, an error, or the tree's own end,
\* after which one more sample is taken.
Finish ==
    /\ Step("running", "stop")
    /\ \/ phase' = "shutdown"
       \/ tracked = "none" /\ phase' = "final"
    /\ UNCHANGED <<hits, errors, sessionVars>> /\ KeepTarget

SignalStop ==
    /\ Step("stop", "join")
    /\ stopped' = TRUE
    /\ UNCHANGED <<phase, hits, errors, sessionVars, managerVars, sampler, thread, taken, streamVars>>

\* Mutation: the thread is waited for as long as it takes.
Join_Forever ==
    /\ sampler = "none" /\ Step("join", IF phase = "final" THEN "poll" ELSE "cleanup")
    /\ thread' = FALSE
    /\ UNCHANGED <<phase, hits, errors, sessionVars, managerVars, sampler, stopped, taken, streamVars>>

\* The thread has ended, or the join times out and the thread stays known.
Join ==
    /\ Step("join", IF phase = "final" THEN "poll" ELSE "cleanup")
    /\ thread' = IsRunning
    /\ UNCHANGED <<phase, hits, errors, sessionVars, managerVars, sampler, stopped, taken, streamVars>>

\* The last sample is taken only if the thread is gone.
Polled ==
    /\ pc = "poll" /\ queue = <<>>
    /\ IF IsRunning THEN pc' = "stop" /\ phase' = "shutdown"
       ELSE pc' = "last" /\ UNCHANGED phase
    /\ UNCHANGED <<hits, errors, sessionVars>> /\ KeepTarget

LastSample ==
    /\ Step("last", "stop") /\ phase' = "shutdown"
    /\ UNCHANGED <<hits, errors, sessionVars>> /\ KeepTarget

-----------------------------------------------------------------------------
(* Cleanup *)

Op ==
    CASE attached -> "detach"
      [] ~attached /\ tracked = "none" -> "nothing"
      [] OTHER -> IF phase = "shutdown" THEN "terminate" ELSE "kill"

\* What the session records of a cleanup.
State(left, raises) == IF left.tracked = "none" THEN "complete" ELSE "incomplete"

Attempt(outcomes, raises) ==
    \E left \in outcomes :
        /\ tracked' = left.tracked /\ frozen' = left.frozen
        /\ cleanup' = State(left, raises)
        /\ half' = raises
        /\ UNCHANGED <<attached, store, samplerVars, streamVars>>

\* The kill command of the API, while the session runs.
KillCommand ==
    /\ pc = "running" /\ ~attached /\ tracked # "none"
    /\ Attempt(Left, FALSE)
    /\ UNCHANGED <<pc, phase, hits, errors>>

CleanUp ==
    /\ Step("cleanup", "close") /\ KeepRest
    /\ IF Op = "nothing"
       THEN /\ cleanup' = "complete" /\ half' = FALSE
            /\ UNCHANGED <<attached, store>> /\ KeepTarget
       ELSE Attempt(Finished(Op), FALSE)

\* Mutation: an interrupted shutdown is not finished by force.
Raised_NotForced == Step("cleanup", "close") /\ UNCHANGED phase

\* An operation of the shutdown that raises is followed by a forced cleanup;
\* one of an aborted start or of a forced cleanup is not.
Raised ==
    IF phase = "shutdown" THEN Step("cleanup", "stop") /\ phase' = "force"
    ELSE Step("cleanup", "close") /\ UNCHANGED phase

CleanUpRaises ==
    /\ Op # "nothing" /\ Raised
    /\ Attempt(Left, TRUE)
    /\ \/ errors < MaxErrors /\ errors' = errors + 1 /\ UNCHANGED hits
       \/ hits < MaxHits /\ hits' = hits + 1 /\ UNCHANGED errors

Close ==
    /\ Step("close", IF phase = "abort" THEN "failed" ELSE "ended") /\ KeepRest
    /\ store' = IF store = "open" THEN "closed" ELSE store
    /\ UNCHANGED <<attached, cleanup, half>> /\ KeepTarget

\* After a failed start the API shuts the session down all the same.
ShutDownFailed ==
    /\ Step("failed", "stop") /\ phase' = "shutdown"
    /\ UNCHANGED <<hits, errors, sessionVars>> /\ KeepTarget

Over ==
    /\ \/ pc = "failed"
       \/ pc = "ended" /\ queue = <<>>
    /\ pc' = "over" /\ KeepRest /\ UNCHANGED sessionVars /\ KeepTarget

-----------------------------------------------------------------------------
(* Errors and Ctrl+C outside a cleanup operation *)

\* Where an exception leads.
Handled ==
    \/ /\ pc \in {"new", "opened", "first", "ready", "started"}
       /\ pc' = "stop" /\ phase' = "abort"
    \/ /\ pc = "running" \/ phase = "final"
       /\ pc' = "stop" /\ phase' = "shutdown"
    \/ /\ pc \in {"stop", "join"} /\ phase = "shutdown"
       /\ pc' = "stop" /\ phase' = "force"
    \/ /\ pc \in {"stop", "join"} /\ phase \in {"abort", "force"}
       /\ pc' = "cleanup" /\ UNCHANGED phase
    \/ /\ pc = "close"
       /\ pc' = (IF phase = "abort" THEN "failed" ELSE "ended") /\ UNCHANGED phase

\* Launching or attaching may be interrupted after it took effect.
Interrupt ==
    /\ hits < MaxHits /\ hits' = hits + 1
    /\ Handled
    /\ tracked' \in IF pc = "opened" THEN {"none", "root"} ELSE {tracked}
    /\ UNCHANGED <<errors, sessionVars, frozen, samplerVars, streamVars>>

Error ==
    /\ errors < MaxErrors /\ errors' = errors + 1
    /\ pc \in {"new", "opened", "first", "ready", "started", "running", "poll", "last"}
    /\ Handled
    /\ UNCHANGED <<hits, sessionVars>> /\ KeepTarget

Main ==
    \/ OpenStore \/ Acquire \/ FirstSample \/ StartSampler \/ Started \/ Drain
    \/ SignalStop \/ Join \/ Polled \/ LastSample
    \/ CleanUp \/ Close \/ Over

Next ==
    \/ Main \/ Sampling \/ TargetExits
    \/ Pause \/ Resume \/ KillCommand \/ Finish \/ ShutDownFailed
    \/ CleanUpRaises \/ Interrupt \/ Error

\* The main thread runs; the sampling thread may hang and the target may stay.
Spec == Init /\ [][Next]_vars /\ WF_vars(Main)

-----------------------------------------------------------------------------
(* Properties *)

TypeOK ==
    /\ pc \in {"new", "opened", "first", "ready", "started", "running", "stop", "join",
              "poll", "last", "cleanup", "close", "failed", "ended", "over"}
    /\ phase \in {"start", "monitor", "final", "abort", "shutdown", "force"}
    /\ store \in {"none", "open", "closed"}
    /\ cleanup \in {"not_attempted", "complete", "incomplete"}
    /\ tracked \in {"none", "root", "leftovers"}
    /\ sampler \in {"none", "wait", "collect", "publish", "evict", "put"}
    /\ {attached, half, frozen, thread, stopped} \subseteq BOOLEAN
    /\ hits \in 0..MaxHits /\ errors \in 0..MaxErrors /\ taken \in 0..MaxSamples
    /\ sent \in Nat /\ dropped \in Nat /\ Len(queue) <= QueueMax

\* One Ctrl+C or one failing step, wherever it falls, does not leave a target
\* half handled: the last cleanup operation ran to its end.
\* (start 393-425, _abort_start 484-497, shutdown 559-588, _force_cleanup 606-622)
NeverHalfHandled == pc = "over" /\ hits + errors <= 1 => ~half

\* A session that says its cleanup is complete tracks nothing and has left
\* nothing frozen, and what it could not finish it says.
\* (_attempt_cleanup 524-539, shutdown 559-588)
CleanupTold ==
    /\ cleanup = "complete" => tracked = "none" /\ ~frozen
    /\ pc = "over" => cleanup # "not_attempted"

\* The session never samples while the sampling thread does: the detector's
\* series and histories have no lock.
\* (leak_detector.py 262-319, headless.py _record_final_sample 227-241)
OneSampler == pc \in {"first", "last"} => sampler # "collect"

\* Whatever falls between the steps of a cleanup, what it says of the target
\* is true, one disturbance leaves nothing half handled, and nobody samples
\* beside the sampling thread.
CleanupIsTrue == NeverHalfHandled /\ CleanupTold /\ OneSampler

\* The stream loses samples only by counting them, and never reorders them.
\* (events.py MetricsStream 596-674)
Stream == INSTANCE LossyQueue WITH
    sent <- sent, waiting <- queue, arrived <- arrived, lost <- dropped
ImplementsLossyQueue == Stream!Spec

\* A cleanup that has begun comes to its end, even when the sampling thread
\* never does.
\* (leak_detector.py stop 311-319, session.py shutdown 559-588)
CleanupEnds == pc \in {"stop", "join", "cleanup", "close"} ~> pc = "over"
=============================================================================
