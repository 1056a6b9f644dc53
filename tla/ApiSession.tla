----------------------------- MODULE ApiSession -----------------------------
(***************************************************************************)
(* Session (src/src/api.py): one controller thread owns the monitor, runs  *)
(* it until it is cancelled or the program ends, and executes the commands *)
(* other threads hand it through a bounded queue of futures.               *)
(*                                                                         *)
(* One step is one section under the session's lock, one operation of a    *)
(* future, or one call into MonitorSession ("backend"), which returns or   *)
(* raises.  Only the controller publishes, so an event reaches every       *)
(* subscriber in the step that publishes it; how a subscription delivers   *)
(* it is the module Subscription.                                          *)
(***************************************************************************)
EXTENDS Naturals, Sequences, FiniteSets

CONSTANTS
    Cmds,      \* the commands callers issue, each once
    NoCmd,     \* no command under execution
    Subs,      \* the subscribers
    CmdMax,    \* capacity of _commands (32)
    BatchMax,  \* commands executed in one turn of the loop (32)
    SubMax     \* open subscriptions of a session (64)

ASSUME CmdAssumption == NoCmd \notin Cmds
ASSUME LimitAssumption == {CmdMax, BatchMax, SubMax} \subseteq Nat \ {0}

VARIABLES
    \* the controller thread
    pc,          \* where _run is; "none" before start()
    backend,     \* "none", "built" or "started"
    reason,      \* reason
    current,     \* the command under execution
    batch,       \* commands taken in this turn
    \* the session
    cancel,      \* _cancel
    commands,    \* _commands
    status,      \* the state in _status
    result,      \* the reason in _result, "none" before
    report,      \* _final_report is not None
    done,        \* _done
    \* a command and its caller
    future,      \* its Future
    caller,      \* where _command is for it, then how it returned
    \* a subscriber
    subscribed,  \* _subscribers
    closedSubs,  \* subscriptions closed by their owner
    lastSeen,    \* the last state offered to it
    \* history
    ran,         \* commands whose execution began
    cancelFirst  \* was the session cancelled before it was started?

controlVars == <<pc, backend, reason, current, batch>>
endVars == <<result, report, done>>
commandVars == <<future, caller>>
subVars == <<subscribed, closedSubs, lastSeen>>
apiVars == <<controlVars, cancel, commands, status, endVars, commandVars, subVars,
             ran, cancelFirst>>

States == <<"created", "starting", "running", "stopping", "finished">>
Settled == {"result", "error", "ended", "cancelled"}
Reasons == {"cancelled", "failed", "timeout", "target_exited"}

ApiTypeOK ==
    /\ pc \in {"none", "starting", "begin", "built", "loop", "drain", "execute",
               "poll", "stopping", "shutdown", "finish", "over"}
    /\ backend \in {"none", "built", "started"}
    /\ reason \in Reasons
    /\ current \in Cmds \cup {NoCmd}
    /\ batch \in 0..BatchMax
    /\ cancel \in BOOLEAN
    /\ commands \in Seq(Cmds) /\ Len(commands) <= CmdMax
    /\ status \in {States[i] : i \in 1..Len(States)}
    /\ result \in Reasons \cup {"none"}
    /\ report \in BOOLEAN /\ done \in BOOLEAN
    /\ future \in [Cmds -> {"none", "pending", "running"} \cup Settled]
    /\ caller \in [Cmds -> {"idle", "waiting", "late", "undone", "value", "ended",
                            "refused", "expired", "uncertain", "bare"}]
    /\ subscribed \subseteq Subs /\ closedSubs \subseteq Subs
    /\ Cardinality(subscribed \ closedSubs) <= SubMax
    /\ lastSeen \in [Subs -> {States[i] : i \in 1..Len(States)}]
    /\ ran \subseteq Cmds
    /\ cancelFirst \in BOOLEAN

ApiInit ==
    /\ pc = "none" /\ backend = "none" /\ reason = "cancelled"
    /\ current = NoCmd /\ batch = 0
    /\ cancel = FALSE /\ commands = <<>> /\ status = "created"
    /\ result = "none" /\ report = FALSE /\ done = FALSE
    /\ future = [c \in Cmds |-> "none"]
    /\ caller = [c \in Cmds |-> "idle"]
    /\ subscribed = {} /\ closedSubs = {}
    /\ lastSeen = [s \in Subs |-> "created"]
    /\ ran = {} /\ cancelFirst = FALSE

-----------------------------------------------------------------------------
(* The controller *)

Publish(state) ==
    /\ status' = state
    /\ lastSeen' = [s \in Subs |-> IF s \in subscribed \ closedSubs
                                   THEN state ELSE lastSeen[s]]
    /\ UNCHANGED <<subscribed, closedSubs>>

Cancelled == cancel

\* The steps of the controller that touch no command.
Quiet == UNCHANGED <<cancel, commands, commandVars, current, ran, cancelFirst>>

PublishStarting ==
    /\ pc = "starting"
    /\ Publish("starting")
    /\ pc' = "begin"
    /\ Quiet /\ UNCHANGED <<backend, reason, batch, endVars>>

\* Building the monitor, unless the session was cancelled; it may fail.
Begin ==
    /\ pc = "begin"
    /\ \/ /\ Cancelled
          /\ pc' = "stopping" /\ UNCHANGED <<backend, reason>>
       \/ /\ ~Cancelled
          /\ pc' = "stopping" /\ reason' = "failed" /\ UNCHANGED backend
       \/ /\ ~Cancelled
          /\ pc' = "built" /\ backend' = "built" /\ UNCHANGED reason
    /\ Quiet /\ UNCHANGED <<batch, status, endVars, subVars>>

\* backend.start() and the first snapshot.
StartBackend ==
    /\ pc = "built"
    /\ \/ /\ Cancelled
          /\ pc' = "stopping"
          /\ UNCHANGED <<backend, reason, status, subVars>>
       \/ /\ ~Cancelled
          /\ pc' = "stopping" /\ backend' = "started" /\ reason' = "failed"
          /\ UNCHANGED <<status, subVars>>
       \/ /\ ~Cancelled
          /\ pc' = "loop" /\ backend' = "started"
          /\ Publish("running") /\ UNCHANGED reason
    /\ Quiet /\ UNCHANGED <<batch, endVars>>

LoopTop ==
    /\ pc = "loop"
    /\ pc' = IF Cancelled THEN "stopping" ELSE "drain"
    /\ batch' = 0
    /\ Quiet /\ UNCHANGED <<backend, reason, status, endVars, subVars>>

\* Mutation: an expired command is executed all the same.
TakeCommand_ExpiryIgnored ==
    /\ pc = "drain" /\ commands # <<>> /\ batch < BatchMax
    /\ LET c == Head(commands)
       IN /\ future' = [future EXCEPT ![c] = "running"]
          /\ pc' = "execute" /\ current' = c /\ ran' = ran \cup {c}
    /\ commands' = Tail(commands)
    /\ batch' = batch + 1
    /\ UNCHANGED <<backend, reason, cancel, status, endVars, caller, subVars, cancelFirst>>

\* _drain_commands takes a command; one whose caller gave up is skipped.
TakeCommand ==
    /\ pc = "drain" /\ commands # <<>> /\ batch < BatchMax
    /\ LET c == Head(commands)
       IN IF future[c] = "cancelled"
          THEN UNCHANGED <<pc, current, future, ran>>
          ELSE /\ future' = [future EXCEPT ![c] = "running"]
               /\ pc' = "execute" /\ current' = c /\ ran' = ran \cup {c}
    /\ commands' = Tail(commands)
    /\ batch' = batch + 1
    /\ UNCHANGED <<backend, reason, cancel, status, endVars, caller, subVars, cancelFirst>>

\* The command returns or raises; its caller hears either.
ExecuteCommand ==
    /\ pc = "execute"
    /\ \E outcome \in {"result", "error"} : future' = [future EXCEPT ![current] = outcome]
    /\ pc' = "drain" /\ current' = NoCmd
    /\ UNCHANGED <<backend, reason, batch, cancel, commands, status, endVars, caller,
                   subVars, ran, cancelFirst>>

DrainEnd ==
    /\ pc = "drain"
    /\ commands = <<>> \/ batch = BatchMax
    /\ pc' = "poll"
    /\ Quiet /\ UNCHANGED <<backend, reason, batch, status, endVars, subVars>>

\* backend.poll() and the tests for the deadline and the end of the program.
Poll ==
    /\ pc = "poll"
    /\ \/ /\ pc' = "stopping" /\ reason' = "failed"
          /\ UNCHANGED <<status, subVars>>
       \/ /\ Publish("running") \/ UNCHANGED <<status, subVars>>
          /\ \/ pc' = "stopping" /\ reason' \in {"timeout", "target_exited"}
             \/ pc' = "loop" /\ UNCHANGED reason
    /\ Quiet /\ UNCHANGED <<backend, batch, endVars>>

PublishStopping ==
    /\ pc = "stopping"
    /\ Publish("stopping")
    /\ pc' = "shutdown"
    /\ Quiet /\ UNCHANGED <<backend, reason, batch, endVars>>

\* shutdown(), the last poll, the export and the final report: a failure of
\* the first does not keep the others from running.
ShutDown ==
    /\ pc = "shutdown"
    /\ report' \in IF backend = "none" THEN {FALSE} ELSE BOOLEAN
    /\ pc' = "finish"
    /\ Quiet /\ UNCHANGED <<backend, reason, batch, status, result, done, subVars>>

\* Mutation: the commands still queued are forgotten.
Finish_QueueForgotten ==
    /\ pc = "finish"
    /\ result' = reason /\ done' = TRUE
    /\ Publish("finished")
    /\ pc' = "over"
    /\ UNCHANGED <<backend, reason, current, batch, cancel, commands, report,
                   commandVars, ran, cancelFirst>>

\* Mutation: the last event is published before the lock is taken, so that
\* a subscription may be accepted between the two.
Finish_EventOmitted ==
    /\ pc = "finish"
    /\ result' = reason /\ done' = TRUE
    /\ future' = [c \in Cmds |-> IF future[c] = "pending" THEN "ended" ELSE future[c]]
    /\ commands' = <<>>
    /\ status' = "finished"
    /\ pc' = "over"
    /\ UNCHANGED <<backend, reason, current, batch, cancel, report, caller, subVars,
                   ran, cancelFirst>>

\* The end, under the lock: the result, the last event, an error for every
\* command that was not executed, and then _done.
Finish ==
    /\ pc = "finish"
    /\ result' = reason /\ done' = TRUE
    /\ Publish("finished")
    /\ future' = [c \in Cmds |-> IF future[c] = "pending" THEN "ended" ELSE future[c]]
    /\ commands' = <<>>
    /\ pc' = "over"
    /\ UNCHANGED <<backend, reason, current, batch, cancel, report, caller, ran, cancelFirst>>

Controller ==
    \/ PublishStarting \/ Begin \/ StartBackend \/ LoopTop
    \/ TakeCommand \/ ExecuteCommand \/ DrainEnd \/ Poll
    \/ PublishStopping \/ ShutDown \/ Finish

-----------------------------------------------------------------------------
(* The threads that use the session *)

\* start(): the session is single-use.
StartSession ==
    /\ pc = "none"
    /\ pc' = "starting"
    /\ UNCHANGED <<backend, reason, current, batch, cancel, commands, status, endVars,
                   commandVars, subVars, ran, cancelFirst>>

Cancel ==
    /\ ~cancel
    /\ cancel' = TRUE
    /\ cancelFirst' = (pc = "none")
    /\ UNCHANGED <<controlVars, commands, status, endVars, commandVars, subVars, ran>>

\* close() starts a session that was never started, so that it ends.
CloseStarts ==
    /\ cancel /\ pc = "none"
    /\ pc' = "starting"
    /\ UNCHANGED <<backend, reason, current, batch, cancel, commands, status, endVars,
                   commandVars, subVars, ran, cancelFirst>>

\* The head of _command, under the lock.
Issue(c) ==
    /\ caller[c] = "idle"
    /\ IF pc = "none" \/ done \/ Len(commands) = CmdMax
       THEN caller' = [caller EXCEPT ![c] = "refused"] /\ UNCHANGED <<future, commands>>
       ELSE /\ caller' = [caller EXCEPT ![c] = "waiting"]
            /\ future' = [future EXCEPT ![c] = "pending"]
            /\ commands' = Append(commands, c)
    /\ UNCHANGED <<controlVars, cancel, status, endVars, subVars, ran, cancelFirst>>

CallerOnly == UNCHANGED <<controlVars, cancel, commands, status, endVars, subVars, ran,
                          cancelFirst>>

\* future.result returns or raises what the controller set.
Answered(c) ==
    /\ caller[c] = "waiting" /\ future[c] \in {"result", "error", "ended"}
    /\ caller' = [caller EXCEPT ![c] = IF future[c] = "ended" THEN "ended" ELSE "value"]
    /\ CallerOnly /\ UNCHANGED future

\* The caller's deadline passes while the future is unsettled.
Expire(c) ==
    /\ caller[c] = "waiting" /\ future[c] \in {"pending", "running"}
    /\ caller' = [caller EXCEPT ![c] = "late"]
    /\ CallerOnly /\ UNCHANGED future

\* Then it asks whether the future is done after all, and raises the bare
\* TimeoutError it caught if it is.
AskDone(c) ==
    /\ caller[c] = "late"
    /\ caller' = [caller EXCEPT ![c] = IF future[c] \in Settled THEN "bare" ELSE "undone"]
    /\ CallerOnly /\ UNCHANGED future

\* Last it withdraws the command, which tells it whether it may have run.
Withdraw(c) ==
    /\ caller[c] = "undone"
    /\ IF future[c] = "pending"
       THEN /\ future' = [future EXCEPT ![c] = "cancelled"]
            /\ caller' = [caller EXCEPT ![c] = "expired"]
       ELSE /\ caller' = [caller EXCEPT ![c] = "uncertain"]
            /\ UNCHANGED future
    /\ CallerOnly

\* subscribe(), under the lock; refused at the end and at the limit.
Subscribe(s) ==
    /\ s \notin subscribed \cup closedSubs /\ ~done
    /\ Cardinality(subscribed \ closedSubs) < SubMax
    /\ subscribed' = (subscribed \ closedSubs) \cup {s}
    /\ UNCHANGED <<controlVars, cancel, commands, status, endVars, commandVars,
                   closedSubs, lastSeen, ran, cancelFirst>>

CloseSubscription(s) ==
    /\ s \in subscribed \ closedSubs
    /\ closedSubs' = closedSubs \cup {s}
    /\ UNCHANGED <<controlVars, cancel, commands, status, endVars, commandVars,
                   subscribed, lastSeen, ran, cancelFirst>>

CallerWork(c) == Answered(c) \/ AskDone(c) \/ Withdraw(c)

ApiNext ==
    \/ Controller
    \/ StartSession \/ Cancel \/ CloseStarts
    \/ \E c \in Cmds : Issue(c) \/ Expire(c) \/ CallerWork(c)
    \/ \E s \in Subs : Subscribe(s) \/ CloseSubscription(s)

\* The controller thread and the callers' threads run; every call into the
\* backend ends.  Deadlines and users are free.
ApiSpec == ApiInit /\ [][ApiNext]_apiVars /\ WF_apiVars(Controller) /\ \A c \in Cmds : WF_apiVars(CallerWork(c))

-----------------------------------------------------------------------------
(* Correctness *)

\* A caller told that its command did not run can rely on it for ever: it
\* was refused, had expired in the queue, or the session ended first.
\* (_command 372-387, _drain_commands 450, _run 549-552)
ToldNotRunNeverRuns ==
    \A c \in Cmds : caller[c] \in {"refused", "expired", "ended"} => c \notin ran

\* When the session is over no command is left unanswered in the queue.
\* (_command 376-379, _run 545-553)
NoCommandLeftBehind ==
    done => commands = <<>> /\ \A c \in Cmds : future[c] \notin {"pending", "running"}

\* A subscription that was accepted, and not closed, is offered the last
\* event of the session: nobody waits for an end that was announced already.
\* (subscribe 334-340, _run 545-553)
EndAnnounced ==
    done => \A s \in subscribed \ closedSubs : lastSeen[s] = "finished"

\* close() before start() ends the session without launching anything.
\* (close 359-364, _run 483-495)
CancelledFirstNeverStarts == cancelFirst => backend # "started"

\* Every accepted command is answered, even with no deadline of its caller.
\* (_drain_commands 444-474, _run 499-552)
EveryCommandAnswered == \A c \in Cmds : caller[c] = "waiting" ~> caller[c] # "waiting"

\* A started session that is cancelled ends.
\* (_run 498-553)
CancelEnds == cancel /\ pc # "none" ~> done

(* A command its caller was told did not run never runs, the end of a      *)
(* session leaves no command unanswered and reaches every subscription it  *)
(* accepted, and one cancelled before its start launches nothing (see      *)
(* ToldNotRunNeverRuns, NoCommandLeftBehind, EndAnnounced and              *)
(* CancelledFirstNeverStarts).                                             *)
AnswersAreTrue == ToldNotRunNeverRuns /\ NoCommandLeftBehind /\ EndAnnounced /\ CancelledFirstNeverStarts

=============================================================================
