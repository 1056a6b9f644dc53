-------------------------- MODULE ApiSessionProofs --------------------------
(***************************************************************************)
(* Proofs about what a session serves its callers: the controller with its *)
(* callers (ApiSession), for any commands, subscribers and limits; the     *)
(* callback workers, which take turns with the subscriptions               *)
(* (Subscription), for any subscriptions, workers, queue and buffer, and   *)
(* whose buffers implement LossyQueue; and the record it leaves            *)
(* (SessionRecord), for any samples, limits and length.                    *)
(***************************************************************************)
EXTENDS ApiSession, Subscription, SessionRecord, FiniteSetTheorems, SequenceTheorems, WellFoundedInduction, TLAPS

Futures == {"none", "pending", "running"} \cup Settled

Callers == {"idle", "waiting", "late", "undone", "value", "ended", "refused", "expired", "uncertain", "bare"}
StateNames == {"created", "starting", "running", "stopping", "finished"}

TypeInv ==
    /\ pc \in {"none", "starting", "begin", "built", "loop", "drain", "execute",
               "poll", "stopping", "shutdown", "finish", "over"}
    /\ commands \in Seq(Cmds)
    /\ future \in [Cmds -> Futures]
    /\ caller \in [Cmds -> Callers]
    /\ lastSeen \in [Subs -> StateNames]
    /\ subscribed \subseteq Subs

\* What a caller was told is what became of its future, and only what the
\* controller took has run.
ToldInv ==
    \A c \in Cmds :
        /\ c \in ran => future[c] \in {"running", "result", "error"}
        /\ caller[c] \in {"idle", "refused"} => future[c] = "none"
        /\ caller[c] = "expired" => future[c] = "cancelled"
        /\ caller[c] = "ended" => future[c] = "ended"

\* The queue holds each command once that waits or was withdrawn, and every
\* one that waits.
QueueInv ==
    /\ \A i \in 1..Len(commands) : future[commands[i]] \in {"pending", "cancelled"}
    /\ \A i, j \in 1..Len(commands) : commands[i] = commands[j] => i = j

\* One command runs, the one the controller executes.
RunInv ==
    /\ \A c \in Cmds : future[c] = "running" => pc = "execute" /\ current = c
    /\ pc = "execute" => current \in Cmds /\ future[current] = "running"

\* The end is one step, after which nothing is accepted.
EndInv ==
    /\ done <=> pc = "over"
    /\ done => commands = <<>> /\ \A c \in Cmds : future[c] # "pending"
    /\ EndAnnounced

\* A session cancelled before its start has no backend to start.
StartInv ==
    /\ cancelFirst => cancel /\ pc # "built" /\ backend # "started"
    /\ pc = "none" => backend = "none"

ApiInv == TypeInv /\ ToldInv /\ QueueInv /\ RunInv /\ EndInv /\ StartInv

-----------------------------------------------------------------------------
\* What is said of commands stays true of steps that touch none.
LEMMA SameCommands ==
    ASSUME ToldInv, QueueInv, UNCHANGED <<commands, future, caller, ran>> PROVE ToldInv' /\ QueueInv'
  BY DEF ToldInv, QueueInv

\* The first command leaves the queue for good.
LEMMA HeadLeaves ==
    ASSUME TypeInv, QueueInv, commands # <<>>
    PROVE  /\ Head(commands) \in Cmds /\ Tail(commands) \in Seq(Cmds)
           /\ Head(commands) = commands[1]
           /\ \A i \in 1..Len(Tail(commands)) :
                 i + 1 \in 1..Len(commands) /\ Tail(commands)[i] = commands[i + 1]
                 /\ Tail(commands)[i] # Head(commands) /\ Tail(commands)[i] \in Cmds
  BY DEF TypeInv, QueueInv

\* The steps of the controller that touch no command.
LEMMA QuietKeeps ==
    ASSUME ApiInv, PublishStarting \/ Begin \/ StartBackend \/ LoopTop \/ DrainEnd \/ Poll
                     \/ PublishStopping \/ ShutDown
    PROVE  ApiInv'
<1>0. UNCHANGED <<cancel, commands, future, caller, current, ran, cancelFirst>>
  BY DEF Quiet, commandVars, PublishStarting, Begin, StartBackend, LoopTop, DrainEnd, Poll, PublishStopping, ShutDown
<1>9. (ToldInv /\ QueueInv)'
  BY <1>0, SameCommands DEF ApiInv
<1> USE <1>0, <1>9 DEF ApiInv, TypeInv, RunInv, EndInv, StartInv, EndAnnounced, Publish, subVars, endVars,
                       Cancelled, StateNames
<1>1. CASE PublishStarting
  BY <1>1 DEF PublishStarting
<1>2. CASE Begin
  BY <1>2 DEF Begin
<1>3. CASE StartBackend
  BY <1>3 DEF StartBackend
<1>4. CASE LoopTop
  BY <1>4 DEF LoopTop
<1>5. CASE DrainEnd
  BY <1>5 DEF DrainEnd
<1>6. CASE Poll
  BY <1>6 DEF Poll
<1>7. CASE PublishStopping
  BY <1>7 DEF PublishStopping
<1>8. CASE ShutDown
  BY <1>8 DEF ShutDown
<1> QED
  BY <1>1, <1>2, <1>3, <1>4, <1>5, <1>6, <1>7, <1>8

\* A command is taken once, and not when its caller withdrew it.
LEMMA TakeKeeps == ASSUME ApiInv, TakeCommand PROVE ApiInv'
<1> DEFINE c == Head(commands)
<1>1. /\ c \in Cmds /\ c = commands[1] /\ 1 \in 1..Len(commands) /\ commands' = Tail(commands)
      /\ commands' \in Seq(Cmds) /\ pc = "drain" /\ future[c] \in {"pending", "cancelled"}
      /\ UNCHANGED <<backend, cancel, done, caller, subVars, cancelFirst>>
  BY HeadLeaves DEF ApiInv, TypeInv, QueueInv, TakeCommand, endVars
<1>2. \A i \in 1..Len(commands') :
          i + 1 \in 1..Len(commands) /\ commands'[i] = commands[i + 1] /\ commands'[i] # c /\ commands'[i] \in Cmds
  BY <1>1, HeadLeaves DEF ApiInv, TakeCommand
<1>3. \/ UNCHANGED <<pc, current, future, ran>>
      \/ /\ future[c] = "pending" /\ future' = [future EXCEPT ![c] = "running"]
         /\ pc' = "execute" /\ current' = c /\ ran' = ran \cup {c}
  BY <1>1 DEF TakeCommand
<1>4. TypeInv'
  BY <1>1, <1>3 DEF ApiInv, TypeInv, Futures, Settled, Callers, StateNames, subVars
<1>5. ToldInv'
  BY <1>1, <1>3 DEF ApiInv, TypeInv, ToldInv
<1>6. QueueInv'
  <2>1. \A i \in 1..Len(commands') : future'[commands'[i]] \in {"pending", "cancelled"}
    BY <1>1, <1>2, <1>3 DEF ApiInv, TypeInv, QueueInv
  <2>2. \A i, j \in 1..Len(commands') : commands'[i] = commands'[j] => i = j
    <3> SUFFICES ASSUME NEW i \in 1..Len(commands'), NEW j \in 1..Len(commands'), commands'[i] = commands'[j]
                 PROVE  i = j
      OBVIOUS
    <3>1. i + 1 = j + 1
      BY <1>2 DEF ApiInv, QueueInv
    <3> QED
      BY <3>1
  <2> QED
    BY <2>1, <2>2 DEF QueueInv
<1>7. RunInv' /\ StartInv'
  BY <1>1, <1>3 DEF ApiInv, TypeInv, RunInv, StartInv
<1>8. EndInv'
  BY <1>1, <1>3 DEF ApiInv, EndInv, EndAnnounced, subVars
<1> QED
  BY <1>4, <1>5, <1>6, <1>7, <1>8 DEF ApiInv

\* The controller executes the command it has taken.
LEMMA ExecuteKeeps == ASSUME ApiInv, ExecuteCommand PROVE ApiInv'
<1>1. /\ pc = "execute" /\ pc' = "drain"
      /\ UNCHANGED <<backend, cancel, commands, done, caller, subscribed, closedSubs, lastSeen, ran, cancelFirst>>
      /\ \E outcome \in {"result", "error"} : future' = [future EXCEPT ![current] = outcome]
  BY DEF ExecuteCommand, subVars, endVars
<1>2. CASE current \in Cmds /\ future[current] = "running"
  <2>1. (TypeInv /\ ToldInv /\ QueueInv)'
    BY <1>1, <1>2 DEF ApiInv, TypeInv, ToldInv, QueueInv, Futures, Settled
  <2>2. (RunInv /\ EndInv /\ StartInv)'
    BY <1>1, <1>2 DEF ApiInv, TypeInv, RunInv, EndInv, StartInv, EndAnnounced, Futures, Settled
  <2> QED
    BY <2>1, <2>2 DEF ApiInv
<1> QED
  BY <1>1, <1>2 DEF ApiInv, RunInv

\* The end answers whatever waits and tells every subscription.
LEMMA FinishKeeps == ASSUME ApiInv, Finish PROVE ApiInv'
  BY EmptySeq DEF ApiInv, TypeInv, ToldInv, QueueInv, RunInv, EndInv, StartInv, EndAnnounced, Finish, Publish,
         Futures, Settled, Callers, StateNames

\* A command enters the queue once, and only before the end.
LEMMA IssueKeeps == ASSUME ApiInv, NEW c \in Cmds, Issue(c) PROVE ApiInv'
<1> USE DEF ApiInv, TypeInv
<1>1. CASE UNCHANGED <<future, commands>> /\ caller' = [caller EXCEPT ![c] = "refused"] /\ future[c] = "none"
  BY <1>1 DEF ToldInv, QueueInv, RunInv, EndInv, StartInv, EndAnnounced, Issue, subVars, endVars, controlVars,
                    Callers
<1>2. CASE /\ ~done /\ future[c] = "none" /\ caller' = [caller EXCEPT ![c] = "waiting"]
           /\ future' = [future EXCEPT ![c] = "pending"] /\ commands' = Append(commands, c)
  <2>1. \A i \in 1..Len(commands) : commands[i] # c
    BY <1>2 DEF QueueInv
  <2>2. /\ commands' \in Seq(Cmds) /\ Len(commands') = Len(commands) + 1 /\ commands'[Len(commands')] = c
        /\ \A i \in 1..Len(commands) : commands'[i] = commands[i] /\ commands'[i] \in Cmds
    BY <1>2
  <2>3. QueueInv'
    BY <1>2, <2>1, <2>2 DEF QueueInv
  <2>4. (TypeInv /\ ToldInv /\ RunInv /\ EndInv /\ StartInv)'
    BY <1>2, <2>2 DEF ToldInv, RunInv, EndInv, StartInv, EndAnnounced, Issue, subVars, endVars, controlVars,
                      Futures, Callers
  <2> QED
    BY <2>3, <2>4
<1> QED
  BY <1>1, <1>2 DEF Issue, ToldInv

\* Callers wait, give up and withdraw; what they are told is settled.
LEMMA CallerKeeps ==
    ASSUME ApiInv, NEW c \in Cmds, Expire(c) \/ CallerWork(c) PROVE ApiInv'
<1> USE DEF ApiInv, TypeInv, ToldInv, QueueInv, RunInv, EndInv, StartInv, EndAnnounced, CallerOnly, subVars,
            endVars, controlVars, Futures, Settled, Callers, StateNames
<1>1. CASE Answered(c)
  BY <1>1 DEF Answered
<1>2. CASE Expire(c)
  BY <1>2 DEF Expire
<1>3. CASE AskDone(c)
  BY <1>3 DEF AskDone
<1>4. CASE Withdraw(c)
  BY <1>4 DEF Withdraw
<1> QED
  BY <1>1, <1>2, <1>3, <1>4 DEF CallerWork

\* What the owner of the session does, and its subscribers.
LEMMA OwnerKeeps ==
    ASSUME ApiInv, StartSession \/ Cancel \/ CloseStarts \/ \E s \in Subs : Subscribe(s) \/ CloseSubscription(s)
    PROVE  ApiInv'
<1>0. UNCHANGED <<commands, future, caller, ran, done, lastSeen, backend, current>>
  BY DEF StartSession, Cancel, CloseStarts, Subscribe, CloseSubscription, endVars, subVars, commandVars, controlVars
<1>9. (ToldInv /\ QueueInv)'
  BY <1>0, SameCommands DEF ApiInv
<1> USE <1>0, <1>9 DEF ApiInv, TypeInv, RunInv, EndInv, StartInv, EndAnnounced, subVars, controlVars
<1>1. CASE StartSession \/ CloseStarts
  BY <1>1 DEF StartSession, CloseStarts
<1>2. CASE Cancel
  BY <1>2 DEF Cancel
<1>3. ASSUME NEW s \in Subs, Subscribe(s) \/ CloseSubscription(s) PROVE ApiInv'
  BY <1>3 DEF Subscribe, CloseSubscription
<1> QED
  BY <1>1, <1>2, <1>3

(* A command its caller was told did not run never runs; when the session  *)
(* is over no command is unanswered and every subscription it accepted     *)
(* heard of it; one cancelled before its start launches nothing            *)
(* (_command, _drain_commands, subscribe, close, _run).                    *)
THEOREM ToldIsTrue == ApiSpec => []AnswersAreTrue
<1>1. ApiInit => ApiInv
  BY EmptySeq DEF ApiInit, ApiInv, TypeInv, ToldInv, QueueInv, RunInv, EndInv, StartInv, EndAnnounced, Futures, Callers,
         StateNames
<1>2. ApiInv /\ [ApiNext]_apiVars => ApiInv'
  <2> SUFFICES ASSUME ApiInv, [ApiNext]_apiVars PROVE ApiInv'
    OBVIOUS
  <2>1. CASE Controller
    BY <2>1, QuietKeeps, TakeKeeps, ExecuteKeeps, FinishKeeps DEF Controller
  <2>2. CASE \E c \in Cmds : Issue(c) \/ Expire(c) \/ CallerWork(c)
    BY <2>2, IssueKeeps, CallerKeeps
  <2>3. CASE UNCHANGED apiVars
    BY <2>3 DEF apiVars, ApiInv, TypeInv, ToldInv, QueueInv, RunInv, EndInv, StartInv, EndAnnounced, subVars,
                endVars, commandVars, controlVars
  <2> QED
    BY <2>1, <2>2, <2>3, OwnerKeeps DEF ApiNext
<1>3. ApiInv => AnswersAreTrue
  BY DEF ApiInv, ToldInv, RunInv, EndInv, StartInv, AnswersAreTrue, ToldNotRunNeverRuns, NoCommandLeftBehind,
         EndAnnounced, CancelledFirstNeverStarts
<1> QED
  BY <1>1, <1>2, <1>3, PTL DEF ApiSpec

-----------------------------------------------------------------------------
(* The callback workers                                                    *)

TurnType ==
    /\ queue \in Seq(Subscriptions)
    /\ holds \in [Workers -> Subscriptions \cup {NoSub}]
    /\ at \in [Workers -> {"idle", "taken", "calling", "raised"}]
    /\ scheduled \in [Subscriptions -> BOOLEAN] /\ closed \in [Subscriptions -> BOOLEAN]
    /\ pending = [s \in Subscriptions |-> pending[s]]

Held(s) == \E w \in Workers : holds[w] = s
Queued(s) == \E i \in 1..Len(queue) : queue[i] = s

\* The flag stands for a turn, and no two turns are of one subscription.
TurnInv ==
    /\ \A w \in Workers : at[w] = "idle" <=> holds[w] = NoSub
    /\ \A s \in Subscriptions : scheduled[s] = TRUE <=> Held(s) \/ Queued(s)
    /\ \A v, w \in Workers : holds[v] = holds[w] /\ holds[w] # NoSub => v = w
    /\ \A i, j \in 1..Len(queue) : queue[i] = queue[j] => i = j
    /\ \A w \in Workers, i \in 1..Len(queue) : holds[w] # queue[i]

DispatchInv == TurnType /\ TurnInv /\ NothingStranded

\* A subscription without a turn is put in the shared queue, or its events
\* are dropped (_offer, _deliver).
LEMMA OfferKeeps ==
    ASSUME DispatchInv, NEW s \in Subscriptions, Offer(s)
    PROVE  DispatchInv'
<1>1. CASE scheduled[s]
  <2>1. UNCHANGED <<queue, scheduled, workerVars, closed>> /\ \E events : pending' = [pending EXCEPT ![s] = events]
    BY <1>1 DEF Offer
  <2>2. ~closed[s]
    BY DEF Offer
  <2> QED
    BY <1>1, <2>1, <2>2 DEF DispatchInv, TurnType, TurnInv, NothingStranded, Held, Queued, workerVars
<1>2. CASE ~scheduled[s]
  <2>1. \E events, more : Schedule(s, events, more)
    BY <1>2 DEF Offer
  <2>2. UNCHANGED <<holds, at, closed>> /\ ~closed[s]
    BY DEF Offer, workerVars
  <2>3. PICK events : \/ /\ queue' = Append(queue, s)
                         /\ scheduled' = [scheduled EXCEPT ![s] = TRUE]
                         /\ pending' = [pending EXCEPT ![s] = events]
                      \/ /\ pending' = [pending EXCEPT ![s] = <<>>]
                         /\ scheduled' = [scheduled EXCEPT ![s] = FALSE]
                         /\ UNCHANGED queue
    BY <2>1 DEF Schedule
  <2>4. CASE /\ queue' = Append(queue, s) /\ scheduled' = [scheduled EXCEPT ![s] = TRUE]
             /\ pending' = [pending EXCEPT ![s] = events]
    <3>1. ~Held(s) /\ ~Queued(s)
      BY <1>2 DEF DispatchInv, TurnInv
    <3>2. /\ queue' \in Seq(Subscriptions) /\ Len(queue') = Len(queue) + 1 /\ Len(queue) \in Nat
          /\ queue'[Len(queue) + 1] = s /\ \A i \in 1..Len(queue) : queue'[i] = queue[i]
      BY <2>4 DEF DispatchInv, TurnType
    <3>3. \A x \in Subscriptions : Queued(x)' <=> Queued(x) \/ x = s
      BY <3>2 DEF Queued
    <3>4. TurnType'
      <4>1. scheduled' \in [Subscriptions -> BOOLEAN] /\ pending' = [x \in Subscriptions |-> pending'[x]]
        BY <2>4 DEF DispatchInv, TurnType
      <4> QED
        BY <2>2, <3>2, <4>1 DEF DispatchInv, TurnType
    <3>5. \A x \in Subscriptions : scheduled'[x] = TRUE <=> Held(x)' \/ Queued(x)'
      BY <2>2, <2>4, <3>3 DEF DispatchInv, TurnType, TurnInv, Held
    <3>6. /\ \A i, j \in 1..Len(queue') : queue'[i] = queue'[j] => i = j
          /\ \A w \in Workers, i \in 1..Len(queue') : holds'[w] # queue'[i]
      <4>1. \A i \in 1..Len(queue') : i = Len(queue) + 1 \/ i \in 1..Len(queue)
        BY <3>2
      <4>2. /\ \A i \in 1..Len(queue) : queue[i] # s
            /\ \A w \in Workers : holds'[w] # s
        BY <2>2, <3>1 DEF Held, Queued
      <4>3. \A w \in Workers, i \in 1..Len(queue) : holds'[w] # queue[i]
        BY <2>2 DEF DispatchInv, TurnInv
      <4>4. \A i, j \in 1..Len(queue) : queue[i] = queue[j] => i = j
        BY DEF DispatchInv, TurnInv
      <4> QED
        BY <3>2, <4>1, <4>2, <4>3, <4>4
    <3>7. TurnInv'
      BY <2>2, <3>5, <3>6 DEF DispatchInv, TurnInv
    <3>8. NothingStranded'
      BY <2>2, <2>4 DEF DispatchInv, TurnType, NothingStranded
    <3> QED
      BY <3>4, <3>7, <3>8 DEF DispatchInv
  <2>5. CASE /\ pending' = [pending EXCEPT ![s] = <<>>] /\ scheduled' = [scheduled EXCEPT ![s] = FALSE]
             /\ UNCHANGED queue
    BY <1>2, <2>2, <2>5 DEF DispatchInv, TurnType, TurnInv, NothingStranded, Held, Queued
  <2> QED
    BY <2>3, <2>4, <2>5
<1> QED
  BY <1>1, <1>2

\* A subscription that is closed is delivered nothing more.
LEMMA CloseKeeps ==
    ASSUME DispatchInv, NEW s \in Subscriptions, Close(s)
    PROVE  DispatchInv'
<1>1. /\ UNCHANGED <<queue, holds, at, scheduled>> /\ closed' = [closed EXCEPT ![s] = TRUE]
      /\ pending' = [pending EXCEPT ![s] = <<>>]
  BY DEF Close, workerVars
<1>2. TurnType'
  BY <1>1 DEF DispatchInv, TurnType
<1>3. TurnInv'
  BY <1>1 DEF DispatchInv, TurnInv, Held, Queued
<1>4. NothingStranded'
  BY <1>1 DEF DispatchInv, TurnType, NothingStranded
<1> QED
  BY <1>2, <1>3, <1>4 DEF DispatchInv

\* A turn moves from the queue to a worker (_callback_worker).
LEMMA TakeTurnKeeps ==
    ASSUME DispatchInv, NEW w \in Workers, Take(w)
    PROVE  DispatchInv'
<1>1. /\ queue # <<>> /\ holds' = [holds EXCEPT ![w] = Head(queue)] /\ at' = [at EXCEPT ![w] = "taken"]
      /\ queue' = Tail(queue) /\ UNCHANGED <<scheduled, closed, pending>> /\ holds[w] = NoSub
  BY DEF Take, bufferVars, DispatchInv, TurnInv
<1>2. /\ Head(queue) = queue[1] /\ Head(queue) \in Subscriptions /\ Len(queue) \in Nat /\ Len(queue) > 0
      /\ queue' \in Seq(Subscriptions) /\ Len(queue') = Len(queue) - 1 /\ \A i \in 1..Len(queue') : queue'[i] = queue[i + 1]
  BY <1>1 DEF DispatchInv, TurnType
<1>3. TurnType'
  BY <1>1, <1>2 DEF DispatchInv, TurnType
<1>4. \A x \in Subscriptions : Queued(x) <=> x = Head(queue) \/ Queued(x)'
  <2>1. ASSUME NEW x \in Subscriptions, Queued(x), x # Head(queue) PROVE Queued(x)'
    <3>1. PICK i \in 1..Len(queue) : queue[i] = x
      BY <2>1 DEF Queued
    <3>2. i - 1 \in 1..Len(queue') /\ queue'[i - 1] = x
      BY <1>2, <2>1, <3>1
    <3> QED
      BY <3>2 DEF Queued
  <2>2. ASSUME NEW x \in Subscriptions, Queued(x)' PROVE Queued(x)
    <3>1. PICK i \in 1..Len(queue') : queue'[i] = x
      BY <2>2 DEF Queued
    <3>2. i + 1 \in 1..Len(queue) /\ queue[i + 1] = x
      BY <1>2, <3>1
    <3> QED
      BY <3>2 DEF Queued
  <2>3. Queued(Head(queue))
    BY <1>2 DEF Queued
  <2> QED
    BY <2>1, <2>2, <2>3
<1>5. \A x \in Subscriptions : Held(x)' <=> Held(x) \/ x = Head(queue)
  BY <1>1, SubsAssumption DEF Held, DispatchInv, TurnType
<1>6. /\ \A i \in 1..Len(queue') : queue'[i] # Head(queue)
      /\ \A i, j \in 1..Len(queue') : queue'[i] = queue'[j] => i = j
  <2>1. \A i, j \in 1..Len(queue) : queue[i] = queue[j] => i = j
    BY DEF DispatchInv, TurnInv
  <2>2. /\ 1 \in 1..Len(queue)
        /\ \A i \in 1..Len(queue') : i + 1 \in 1..Len(queue) /\ i + 1 # 1
    BY <1>2
  <2>3. \A i \in 1..Len(queue') : queue'[i] # Head(queue)
    BY <1>2, <2>1, <2>2
  <2>4. ASSUME NEW i \in 1..Len(queue'), NEW j \in 1..Len(queue'), queue'[i] = queue'[j] PROVE i = j
    <3>1. i + 1 = j + 1
      BY <1>2, <2>1, <2>2, <2>4
    <3> QED
      BY <3>1
  <2> QED
    BY <2>3, <2>4
<1>7. \A v \in Workers, i \in 1..Len(queue') : holds'[v] # queue'[i]
  <2> SUFFICES ASSUME NEW v \in Workers, NEW i \in 1..Len(queue') PROVE holds'[v] # queue'[i]
    OBVIOUS
  <2>1. i + 1 \in 1..Len(queue) /\ queue'[i] = queue[i + 1]
    BY <1>2
  <2>2. holds[v] # queue'[i]
    BY <2>1 DEF DispatchInv, TurnInv
  <2> QED
    BY <1>1, <1>6, <2>2 DEF DispatchInv, TurnType
<1>8. \A v \in Workers : holds[v] # Head(queue)
  BY <1>2 DEF DispatchInv, TurnInv
<1>9. /\ \A v \in Workers : at'[v] = "idle" <=> holds'[v] = NoSub
      /\ \A v, x \in Workers : holds'[v] = holds'[x] /\ holds'[x] # NoSub => v = x
  BY <1>1, <1>2, <1>8, SubsAssumption DEF DispatchInv, TurnType, TurnInv
<1>10. \A x \in Subscriptions : scheduled'[x] = TRUE <=> Held(x)' \/ Queued(x)'
  BY <1>1, <1>4, <1>5 DEF DispatchInv, TurnInv
<1>11. TurnInv'
  BY <1>6, <1>7, <1>9, <1>10 DEF TurnInv
<1>12. NothingStranded'
  BY <1>1 DEF DispatchInv, NothingStranded
<1> QED
  BY <1>3, <1>11, <1>12 DEF DispatchInv

\* A callback is called and may raise: the turn stays where it is.
LEMMA CallKeeps ==
    ASSUME DispatchInv, NEW w \in Workers, BeginCall(w) \/ CallRaises(w)
    PROVE  DispatchInv'
<1>1. /\ UNCHANGED <<queue, holds, scheduled, closed>> /\ at[w] # "idle"
      /\ at' = [at EXCEPT ![w] = "calling"] \/ at' = [at EXCEPT ![w] = "raised"]
  BY DEF BeginCall, CallRaises
<1>2. /\ pending' = [s \in Subscriptions |-> pending'[s]]
      /\ \A s \in Subscriptions : pending[s] = <<>> => pending'[s] = <<>>
  BY DEF BeginCall, CallRaises, DispatchInv, TurnType
<1>3. TurnType'
  BY <1>1, <1>2 DEF DispatchInv, TurnType
<1>4. TurnInv'
  BY <1>1 DEF DispatchInv, TurnType, TurnInv, Held, Queued
<1>5. NothingStranded'
  BY <1>1, <1>2 DEF DispatchInv, NothingStranded
<1> QED
  BY <1>3, <1>4, <1>5 DEF DispatchInv

\* A turn ends without another (_deliver).
LEMMA ReleaseKeeps ==
    ASSUME DispatchInv, NEW w \in Workers, ReleaseWorker(w), at[w] # "idle",
           scheduled' = [scheduled EXCEPT ![holds[w]] = FALSE], UNCHANGED <<queue, closed>>,
           pending' = [s \in Subscriptions |-> pending'[s]],
           pending'[holds[w]] = <<>>, \A s \in Subscriptions : pending'[s] # <<>> => pending[s] # <<>>
    PROVE  DispatchInv'
<1>1. /\ holds[w] \in Subscriptions /\ holds' = [holds EXCEPT ![w] = NoSub] /\ at' = [at EXCEPT ![w] = "idle"]
  BY DEF ReleaseWorker, DispatchInv, TurnType, TurnInv
<1>2. TurnType'
  BY <1>1 DEF DispatchInv, TurnType
<1>3. \A s \in Subscriptions : /\ Queued(s)' <=> Queued(s)
                               /\ Held(s)' <=> Held(s) /\ s # holds[w]
  BY <1>1, SubsAssumption DEF Held, Queued, DispatchInv, TurnType, TurnInv
<1>4. ~Queued(holds[w])
  BY DEF Queued, DispatchInv, TurnInv
<1>5. \A s \in Subscriptions : scheduled'[s] = TRUE <=> Held(s)' \/ Queued(s)'
  <2>1. \A s \in Subscriptions : scheduled'[s] = TRUE <=> scheduled[s] = TRUE /\ s # holds[w]
    BY <1>1 DEF DispatchInv, TurnType
  <2>2. \A s \in Subscriptions : scheduled[s] = TRUE <=> Held(s) \/ Queued(s)
    BY DEF DispatchInv, TurnInv
  <2> QED
    BY <1>3, <1>4, <2>1, <2>2
<1>6. TurnInv'
  BY <1>1, <1>5, SubsAssumption DEF DispatchInv, TurnType, TurnInv
<1>7. NothingStranded'
  BY <1>1 DEF DispatchInv, TurnType, NothingStranded
<1> QED
  BY <1>2, <1>6, <1>7 DEF DispatchInv

\* A turn ends and the subscription goes to the end of the queue (_deliver).
LEMMA RequeueKeeps ==
    ASSUME DispatchInv, NEW w \in Workers, ReleaseWorker(w), at[w] # "idle",
           queue' = Append(queue, holds[w]), scheduled' = [scheduled EXCEPT ![holds[w]] = TRUE],
           UNCHANGED <<closed, pending>>
    PROVE  DispatchInv'
<1>1. /\ holds[w] \in Subscriptions /\ holds' = [holds EXCEPT ![w] = NoSub] /\ at' = [at EXCEPT ![w] = "idle"]
  BY DEF ReleaseWorker, DispatchInv, TurnType, TurnInv
<1>2. TurnType'
  BY <1>1 DEF DispatchInv, TurnType
<1>3. \A s \in Subscriptions : /\ Queued(s)' <=> Queued(s) \/ s = holds[w]
                               /\ Held(s)' <=> Held(s) /\ s # holds[w]
  <2>1. /\ Len(queue') = Len(queue) + 1 /\ Len(queue) \in Nat
        /\ queue'[Len(queue) + 1] = holds[w] /\ \A i \in 1..Len(queue) : queue'[i] = queue[i]
    BY <1>1 DEF DispatchInv, TurnType
  <2>2. \A s \in Subscriptions : Queued(s)' <=> Queued(s) \/ s = holds[w]
    BY <2>1 DEF Queued
  <2>3. \A s \in Subscriptions : Held(s)' <=> Held(s) /\ s # holds[w]
    BY <1>1, SubsAssumption DEF Held, DispatchInv, TurnType, TurnInv
  <2> QED
    BY <2>2, <2>3
<1>4. \A s \in Subscriptions : scheduled'[s] = TRUE <=> Held(s)' \/ Queued(s)'
  <2>1. \A s \in Subscriptions : scheduled'[s] = TRUE <=> scheduled[s] = TRUE \/ s = holds[w]
    BY <1>1 DEF DispatchInv, TurnType
  <2>2. \A s \in Subscriptions : scheduled[s] = TRUE <=> Held(s) \/ Queued(s)
    BY DEF DispatchInv, TurnInv
  <2> QED
    BY <1>3, <2>1, <2>2
<1>5. /\ \A i, j \in 1..Len(queue') : queue'[i] = queue'[j] => i = j
      /\ \A v \in Workers, i \in 1..Len(queue') : holds'[v] # queue'[i]
      /\ \A v \in Workers : at'[v] = "idle" <=> holds'[v] = NoSub
      /\ \A u, v \in Workers : holds'[u] = holds'[v] /\ holds'[v] # NoSub => u = v
  BY <1>1, SubsAssumption DEF DispatchInv, TurnType, TurnInv
<1>6. NothingStranded'
  BY <1>1 DEF DispatchInv, TurnType, NothingStranded
<1> QED
  BY <1>2, <1>4, <1>5, <1>6 DEF DispatchInv, TurnInv

\* A worker gives its turn back, and the subscription is scheduled again if it
\* is owed one.
LEMMA TurnEnds ==
    ASSUME DispatchInv, NEW w \in Workers, SkipTurn(w) \/ EndCall(w)
    PROVE  DispatchInv'
<1> DEFINE s == holds[w]
<1>1. s \in Subscriptions /\ ReleaseWorker(w) /\ at[w] # "idle" /\ UNCHANGED closed
  BY DEF SkipTurn, EndCall, DispatchInv, TurnType, TurnInv
<1>2. CASE /\ closed[s] \/ pending[s] = <<>>
           /\ scheduled' = [scheduled EXCEPT ![s] = FALSE] /\ UNCHANGED <<queue, pending>>
  <2>1. pending[s] = <<>>
    BY <1>1, <1>2 DEF DispatchInv, NothingStranded
  <2> QED
    BY <1>1, <1>2, <2>1, ReleaseKeeps DEF DispatchInv, TurnType
<1>3. CASE Schedule(s, pending[s], 0)
  <2>1. CASE queue' = Append(queue, s) /\ scheduled' = [scheduled EXCEPT ![s] = TRUE] /\ UNCHANGED pending
    BY <1>1, <2>1, RequeueKeeps
  <2>2. CASE /\ pending' = [pending EXCEPT ![s] = <<>>] /\ scheduled' = [scheduled EXCEPT ![s] = FALSE]
             /\ UNCHANGED queue
    <3>1. /\ pending' = [x \in Subscriptions |-> pending'[x]] /\ pending'[s] = <<>>
          /\ \A x \in Subscriptions : pending'[x] # <<>> => pending[x] # <<>>
      BY <1>1, <2>2 DEF DispatchInv, TurnType
    <3> QED
      BY <1>1, <2>2, <3>1, ReleaseKeeps
  <2>3. [pending EXCEPT ![s] = pending[s]] = pending
    BY <1>1 DEF DispatchInv, TurnType
  <2> QED
    BY <1>3, <2>1, <2>2, <2>3 DEF Schedule
<1> QED
  BY <1>2, <1>3 DEF SkipTurn, EndCall

\* One turn at most is one element.
LEMMA TurnsCounted == ASSUME DispatchInv PROVE OneTurnEach
<1> SUFFICES ASSUME NEW s \in Subscriptions
             PROVE  Cardinality(Holders(s)) + Cardinality(Positions(s)) = IF scheduled[s] THEN 1 ELSE 0
  BY DEF OneTurnEach
<1>1. CASE Held(s)
  <2>1. PICK w \in Workers : holds[w] = s
    BY <1>1 DEF Held
  <2>2. Holders(s) = {w} /\ Positions(s) = {}
    <3>1. s # NoSub
      BY SubsAssumption
    <3>2. \A v \in Workers : holds[v] = s => v = w
      BY <2>1, <3>1 DEF DispatchInv, TurnInv
    <3>3. \A i \in 1..Len(queue) : queue[i] # s
      BY <2>1 DEF DispatchInv, TurnInv
    <3>4. Holders(s) = {w}
      BY <2>1, <3>2 DEF Holders
    <3>5. Positions(s) = {}
      BY <3>3 DEF Positions
    <3> QED
      BY <3>4, <3>5
  <2>3. scheduled[s] = TRUE
    BY <1>1 DEF DispatchInv, TurnInv
  <2>4. Cardinality(Holders(s)) = 1 /\ Cardinality(Positions(s)) = 0
    BY <2>2, FS_EmptySet, FS_Singleton
  <2> QED
    BY <2>3, <2>4
<1>2. CASE ~Held(s) /\ Queued(s)
  <2>1. PICK i \in 1..Len(queue) : queue[i] = s
    BY <1>2 DEF Queued
  <2>2. Holders(s) = {}
    BY <1>2 DEF Held, Holders
  <2>3. Positions(s) = {i}
    BY <2>1 DEF Positions, DispatchInv, TurnInv
  <2>4. Cardinality(Holders(s)) = 0 /\ Cardinality(Positions(s)) = 1
    BY <2>2, <2>3, FS_EmptySet, FS_Singleton
  <2>5. scheduled[s] = TRUE
    BY <1>2 DEF DispatchInv, TurnInv
  <2> QED
    BY <2>4, <2>5
<1>3. CASE ~Held(s) /\ ~Queued(s)
  <2>1. Holders(s) = {} /\ Positions(s) = {}
    BY <1>3 DEF Held, Queued, Holders, Positions
  <2>2. scheduled[s] = FALSE
    BY <1>3 DEF DispatchInv, TurnType, TurnInv
  <2>3. Cardinality(Holders(s)) = 0 /\ Cardinality(Positions(s)) = 0
    BY <2>1, FS_EmptySet
  <2> QED
    BY <2>2, <2>3
<1> QED
  BY <1>1, <1>2, <1>3

(* Each subscription has one place in the shared queue or one worker while *)
(* its flag is set, and never two: its callbacks never overlap.  And while *)
(* it holds events and is open its turn is coming, whatever closes, fails  *)
(* or is dropped when the queue is full (_offer, _deliver, close,          *)
(* _callback_worker).                                                      *)
THEOREM TurnsStayTrue ==
    DispatchSpec => []TurnsAreTrue
<1>1. DispatchInit => DispatchInv
  <2> SUFFICES ASSUME DispatchInit PROVE DispatchInv
    OBVIOUS
  <2>1. /\ queue = <<>> /\ Len(queue) = 0 /\ queue \in Seq(Subscriptions)
        /\ holds = [w \in Workers |-> NoSub] /\ at = [w \in Workers |-> "idle"]
        /\ pending = [s \in Subscriptions |-> <<>>] /\ scheduled = [s \in Subscriptions |-> FALSE]
        /\ closed = [s \in Subscriptions |-> FALSE]
    BY DEF DispatchInit
  <2>2. TurnType
    BY <2>1 DEF TurnType
  <2>3. \A s \in Subscriptions : ~Held(s) /\ ~Queued(s)
    BY <2>1, SubsAssumption DEF Held, Queued
  <2>4. TurnInv
    BY <2>1, <2>3 DEF TurnInv
  <2>5. NothingStranded
    BY <2>1 DEF NothingStranded
  <2> QED
    BY <2>2, <2>4, <2>5 DEF DispatchInv
<1>2. DispatchInv /\ [DispatchNext]_dispatchVars => DispatchInv'
  <2> SUFFICES ASSUME DispatchInv, [DispatchNext]_dispatchVars PROVE DispatchInv'
    OBVIOUS
  <2>1. CASE UNCHANGED dispatchVars
    BY <2>1 DEF dispatchVars, workerVars, bufferVars, DispatchInv, TurnType, TurnInv, NothingStranded, Held, Queued
  <2> QED
    BY <2>1, OfferKeeps, CloseKeeps, TakeTurnKeeps, CallKeeps, TurnEnds DEF DispatchNext
<1>3. DispatchInv => OneTurnEach /\ NothingStranded
  BY TurnsCounted DEF DispatchInv, TurnsAreTrue
<1> QED
  BY <1>1, <1>2, <1>3, PTL DEF DispatchSpec, TurnsAreTrue

(***************************************************************************)
(* The buffer of a subscription implements LossyQueue                      *)
(***************************************************************************)

CONSTANT one \* any subscription

One == INSTANCE LossyQueue WITH
    sent <- offered[one], waiting <- pending[one], arrived <- delivered[one], lost <- dropped[one]

BuffersInv ==
    /\ offered \in [Subscriptions -> Nat] /\ dropped \in [Subscriptions -> Nat]
    /\ pending \in [Subscriptions -> Seq(Nat)] /\ delivered \in [Subscriptions -> Seq(Nat)]

OneUnchanged ==
    /\ offered'[one] = offered[one] /\ pending'[one] = pending[one]
    /\ delivered'[one] = delivered[one] /\ dropped'[one] = dropped[one]

OneMoves == One!Next \/ OneUnchanged

\* A subscription loses its oldest events or none.
LEMMA LosesOldest ==
    ASSUME NEW items \in Seq(Nat), NEW m \in 0..Len(items), dropped[one] \in Nat,
           pending'[one] = SubSeq(items, m + 1, Len(items)), dropped'[one] = dropped[one] + m
    PROVE  One!Keeps(items)
<1> DEFINE n == Len(items)
<1>1. n \in Nat /\ m \in Nat /\ m <= n
  OBVIOUS
<1>2. One!Selected(items, m + 1 .. Len(items)) = SubSeq(items, m + 1, Len(items))
  BY <1>1, One!SelectedEnd
<1>3. m + 1 .. Len(items) \in SUBSET (1..Len(items))
  BY <1>1
<1> DEFINE l == Len(pending'[one])
<1>4. l = n - m
  <2>1. Len(SubSeq(items, m + 1, n)) = n - m
    BY <1>1
  <2> QED
    BY <2>1
<1> HIDE DEF n, l
<1>5. dropped'[one] = dropped[one] + n - l
  BY <1>1, <1>4
<1> QED
  BY <1>2, <1>3, <1>5 DEF One!Keeps, n, l

\* The first of some events, and the others.
LEMMA FirstEvent ==
    ASSUME NEW s \in Seq(Nat), s # <<>>
    PROVE  /\ Len(s) \in Nat \ {0} /\ Tail(s) \in Seq(Nat) /\ Len(Tail(s)) = Len(s) - 1
           /\ SubSeq(s, 2, Len(s)) = Tail(s)
           /\ \A a \in Seq(Nat) : Append(a, Head(s)) = a \o SubSeq(s, 1, 1) /\ Append(a, Head(s)) \in Seq(Nat)
<1>1. Len(s) \in Nat /\ Len(s) >= 1
  BY EmptySeq
<1>2. Head(s) = s[1] /\ s[1] \in Nat
  BY <1>1
<1>3. Tail(s) \in Seq(Nat) /\ Len(Tail(s)) = Len(s) - 1
  BY HeadTailProperties
<1>4. SubSeq(s, 2, Len(s)) = Tail(s)
  BY TailIsSubSeq
<1>5. SubSeq(s, 1, 1) = <<s[1]>>
  <2> DEFINE t == SubSeq(s, 1, 1)
             u == <<s[1]>>
  <2>1. t \in Seq(Nat) /\ Len(t) = 1 /\ t[1] = s[1]
    BY <1>1, <1>2, SubSeqProperties
  <2>2. u \in Seq(Nat) /\ Len(u) = 1 /\ u[1] = s[1]
    BY <1>2
  <2> HIDE DEF t, u
  <2>3. \A i \in 1..Len(t) : t[i] = u[i]
    BY <2>1, <2>2
  <2>4. t = u
    BY <2>1, <2>2, <2>3, SeqEqual
  <2> QED
    BY <2>4 DEF t, u
<1> DEFINE h == s[1]
<1>6. \A a \in Seq(Nat) : Append(a, h) = a \o <<h>> /\ Append(a, h) \in Seq(Nat)
  <2> HIDE DEF h
  <2> QED
    BY <1>2 DEF h
<1> QED
  BY <1>1, <1>2, <1>3, <1>4, <1>5, <1>6

\* Events that are dropped at once, by close or by a full queue.
LEMMA LosesAll ==
    ASSUME one \in Subscriptions, BuffersInv, UNCHANGED <<offered, delivered>>,
           pending'[one] = <<>>, dropped'[one] = dropped[one] + Len(pending[one])
    PROVE  One!Take
<1> DEFINE p == pending[one]
<1>1. p \in Seq(Nat) /\ dropped[one] \in Nat /\ delivered[one] \in Seq(Nat) /\ Len(p) \in Nat
  BY DEF BuffersInv
<1>2. SubSeq(p, Len(p) + 1, Len(p)) = <<>>
  <2>1. Len(SubSeq(p, Len(p) + 1, Len(p))) = 0 /\ SubSeq(p, Len(p) + 1, Len(p)) \in Seq(Nat)
    BY <1>1
  <2> QED
    BY <2>1
<1>3. One!Keeps(p)
  <2>1. pending'[one] = SubSeq(p, Len(p) + 1, Len(p)) /\ dropped'[one] = dropped[one] + Len(p)
    BY <1>2, Zenon
  <2>2. Len(p) \in 0..Len(p)
    BY <1>1
  <2> HIDE DEF p
  <2> QED
    BY <1>1, <2>1, <2>2, LosesOldest
<1>4. SubSeq(p, 0 + 1, Len(p)) = p
  BY <1>1
<1>5. delivered'[one] = delivered[one] \o SubSeq(p, 1, 0)
  <2>1. SubSeq(p, 1, 0) = <<>>
    BY <1>1
  <2> QED
    BY <1>1, <2>1
<1>6. 0 \in 0..Len(p)
  BY <1>1
<1> QED
  BY <1>3, <1>4, <1>5, <1>6 DEF One!Take

LEMMA CallTakes ==
    ASSUME one \in Subscriptions, BuffersInv, UNCHANGED <<offered, dropped>>, pending[one] # <<>>,
           pending'[one] = Tail(pending[one]), delivered'[one] = Append(delivered[one], Head(pending[one]))
    PROVE  One!Take
<1> DEFINE p == pending[one]
           rest == Tail(p)
<1>1. p \in Seq(Nat) /\ dropped[one] \in Nat /\ delivered[one] \in Seq(Nat)
  BY DEF BuffersInv
<1>2. /\ Len(p) \in Nat \ {0} /\ rest \in Seq(Nat) /\ SubSeq(p, 2, Len(p)) = rest
      /\ Append(delivered[one], Head(p)) = delivered[one] \o SubSeq(p, 1, 1)
  BY <1>1, FirstEvent
<1> HIDE DEF rest
<1>3. SubSeq(rest, 0 + 1, Len(rest)) = rest /\ 0 \in 0..Len(rest)
  BY <1>2
<1>4. One!Keeps(rest)
  <2>1. pending'[one] = SubSeq(rest, 0 + 1, Len(rest))
    BY <1>3 DEF rest
  <2>2. dropped'[one] = dropped[one] + 0
    BY <1>1
  <2> QED
    BY <1>1, <1>2, <1>3, <2>1, <2>2, LosesOldest
<1>5. 1 \in 0..Len(p) /\ One!Keeps(SubSeq(p, 1 + 1, Len(p)))
  <2>1. 1 \in 0..Len(p) /\ 1 + 1 = 2
    BY <1>2
  <2>2. SubSeq(p, 1 + 1, Len(p)) = rest
    BY <1>2, <2>1, Zenon
  <2> QED
    BY <1>4, <2>1, <2>2, Zenon
<1>6. delivered'[one] = delivered[one] \o SubSeq(p, 1, 1)
  BY <1>2, Zenon
<1>7. offered'[one] = offered[one]
  OBVIOUS
<1> QED
  BY <1>5, <1>6, <1>7, Zenon DEF One!Take

\* An offer of an event: it is the last, unless all are lost over it.
LEMMA OfferSends ==
    ASSUME one \in Subscriptions, BuffersInv, Offer(one)
    PROVE  One!Send
<1> DEFINE p == pending[one]
           n == offered[one] + 1
           items == Append(p, n)
           full == Len(p) = PendingMax
           events == Append(IF full THEN Tail(p) ELSE p, n)
           more == IF full THEN 1 ELSE 0
<1>1. p \in Seq(Nat) /\ dropped[one] \in Nat /\ n \in Nat
  BY DEF BuffersInv
<1>2. items \in Seq(Nat) /\ Len(items) = Len(p) + 1 /\ Len(p) \in Nat
  BY <1>1
<1>3. offered'[one] = n /\ delivered'[one] = delivered[one]
  BY DEF Offer, BuffersInv
<1>4. events \in Seq(Nat) /\ more \in 0..Len(items) /\ events = SubSeq(items, more + 1, Len(items)) /\ Len(items) = more + Len(events)
  <2>1. CASE full
    <3>1. p # <<>> /\ Tail(p) \in Seq(Nat) /\ Len(Tail(p)) = Len(p) - 1 /\ Len(p) \in Nat \ {0}
      <4>1. p # <<>>
        BY <1>2, <2>1, CapacityAssumption
      <4> QED
        BY <1>1, <4>1, FirstEvent
    <3>2. events = Append(Tail(p), n) /\ more = 1
      BY <2>1
    <3>3. Append(Tail(p), n) = Tail(items)
      <4> HIDE DEF p, n
      <4> QED
        BY <1>1, <3>1
    <3>4. items # <<>>
      BY <1>1
    <3>5. SubSeq(items, 2, Len(items)) = Tail(items) /\ Tail(items) \in Seq(Nat) /\ Len(Tail(items)) = Len(items) - 1
      BY <1>2, <3>4, FirstEvent
    <3>6. Append(Tail(p), n) \in Seq(Nat)
      BY <3>3, <3>5, Zenon
    <3>7. 1 \in 0..Len(items) /\ 1 + 1 = 2 /\ Len(items) = 1 + (Len(items) - 1)
      <4> HIDE DEF items
      <4> QED
        BY <1>2
    <3>8. events \in Seq(Nat) /\ more \in 0..Len(items) /\ events = SubSeq(items, more + 1, Len(items))
      BY <3>2, <3>3, <3>5, <3>6, <3>7, Zenon
    <3>9. Len(events) = Len(items) - 1
      BY <3>2, <3>3, <3>5, Zenon
    <3> QED
      BY <3>2, <3>7, <3>8, <3>9, Zenon
  <2>2. CASE ~full
    <3>1. events = items /\ more = 0
      BY <2>2
    <3>2. SubSeq(items, 0 + 1, Len(items)) = items
      BY <1>2
    <3> HIDE DEF items, events, more, p
    <3> QED
      BY <1>2, <3>1, <3>2
  <2> QED
    BY <2>1, <2>2
<1>5. \/ pending'[one] = events /\ dropped'[one] = dropped[one] + more
      \/ pending'[one] = <<>> /\ dropped'[one] = dropped[one] + more + Len(events)
  <2> HIDE DEF items
  <2>1. CASE scheduled[one]
    <3>1. pending' = [pending EXCEPT ![one] = events] /\ dropped' = [dropped EXCEPT ![one] = @ + more]
      BY <2>1, Zenon DEF Offer
    <3> HIDE DEF events, more
    <3> QED
      BY <3>1 DEF BuffersInv
  <2>2. CASE ~scheduled[one]
    <3>1. Schedule(one, events, more)
      BY <2>2, Zenon DEF Offer
    <3> HIDE DEF events, more
    <3> QED
      BY <3>1 DEF BuffersInv, Schedule
  <2> QED
    BY <2>1, <2>2
<1> HIDE DEF events, more, items
<1>6. One!Keeps(items)
  <2>1. CASE pending'[one] = events /\ dropped'[one] = dropped[one] + more
    BY <1>1, <1>2, <1>4, <2>1, LosesOldest
  <2>2. CASE pending'[one] = <<>> /\ dropped'[one] = dropped[one] + more + Len(events)
    <3> DEFINE l == Len(items)
    <3>1. l \in Nat /\ l \in 0..l
      BY <1>2
    <3>2. SubSeq(items, l + 1, l) = <<>>
      BY <1>2, <3>1
    <3>3. dropped'[one] = dropped[one] + l
      <4>1. more \in Nat /\ Len(events) \in Nat
        BY <1>4
      <4> QED
        BY <1>1, <1>4, <2>2, <4>1
    <3> QED
      BY <1>1, <1>2, <2>2, <3>1, <3>2, <3>3, LosesOldest
  <2> QED
    BY <1>5, <2>1, <2>2
<1> QED
  BY <1>3, <1>6 DEF One!Send, items

LEMMA BuffersTyped ==
    ASSUME BuffersInv, [DispatchNext]_dispatchVars
    PROVE  BuffersInv'
<1> USE DEF BuffersInv
<1>1. \A q \in Seq(Nat) : Len(q) \in Nat /\ (q # <<>> => Tail(q) \in Seq(Nat) /\ Head(q) \in Nat)
  OBVIOUS
<1>2. ASSUME NEW s \in Subscriptions, NEW events \in Seq(Nat), NEW more \in Nat, Schedule(s, events, more)
      PROVE  dropped' \in [Subscriptions -> Nat] /\ pending' \in [Subscriptions -> Seq(Nat)]
  <2>1. Len(events) \in Nat /\ <<>> \in Seq(Nat) /\ dropped[s] \in Nat
    OBVIOUS
  <2> DEFINE d == dropped[s] + more
             e == dropped[s] + more + Len(events)
  <2>2. d \in Nat /\ e \in Nat
    BY <2>1
  <2>3. \/ dropped' = [dropped EXCEPT ![s] = d] /\ pending' = [pending EXCEPT ![s] = events]
        \/ dropped' = [dropped EXCEPT ![s] = e] /\ pending' = [pending EXCEPT ![s] = <<>>]
    BY <1>2 DEF Schedule
  <2> HIDE DEF d, e
  <2> QED
    BY <2>1, <2>2, <2>3
<1>3. ASSUME NEW s \in Subscriptions, Offer(s) PROVE BuffersInv'
  <2> DEFINE p == pending[s]
             n == offered[s] + 1
             full == Len(p) = PendingMax
             events == Append(IF full THEN Tail(p) ELSE p, n)
             more == IF full THEN 1 ELSE 0
  <2>1. events \in Seq(Nat) /\ more \in Nat
    <3>1. p \in Seq(Nat) /\ n \in Nat
      OBVIOUS
    <3>2. full => p # <<>>
      BY <3>1, CapacityAssumption
    <3> HIDE DEF p, n
    <3> QED
      BY <1>1, <3>1, <3>2
  <2>2. /\ offered' = [offered EXCEPT ![s] = @ + 1] /\ delivered' = delivered
        /\ IF scheduled[s]
           THEN pending' = [pending EXCEPT ![s] = events] /\ dropped' = [dropped EXCEPT ![s] = @ + more]
           ELSE Schedule(s, events, more)
    BY <1>3, Zenon DEF Offer
  <2> HIDE DEF events, more
  <2>3. dropped' \in [Subscriptions -> Nat] /\ pending' \in [Subscriptions -> Seq(Nat)]
    <3>1. CASE scheduled[s]
      <4> DEFINE d == dropped[s] + more
      <4>1. d \in Nat /\ dropped' = [dropped EXCEPT ![s] = d] /\ pending' = [pending EXCEPT ![s] = events]
        BY <2>1, <2>2, <3>1
      <4> HIDE DEF d
      <4> QED
        BY <2>1, <4>1
    <3>2. CASE ~scheduled[s]
      BY <1>2, <2>1, <2>2, <3>2
    <3> QED
      BY <3>1, <3>2
  <2>4. n \in Nat /\ offered' = [offered EXCEPT ![s] = n]
    BY <2>2
  <2> HIDE DEF n
  <2> QED
    BY <2>2, <2>3, <2>4
<1>4. ASSUME NEW s \in Subscriptions, Close(s) PROVE BuffersInv'
  BY <1>1, <1>4 DEF Close, historyVars
<1>5. ASSUME NEW w \in Workers, Take(w) \/ SkipTurn(w) \/ CallRaises(w) PROVE BuffersInv'
  BY <1>5 DEF Take, SkipTurn, CallRaises, bufferVars, historyVars
<1>6. ASSUME NEW w \in Workers, BeginCall(w) PROVE BuffersInv'
  <2> DEFINE s == holds[w]
  <2>1. CASE s \in Subscriptions
    <3>1. pending[s] \in Seq(Nat) /\ pending[s] # <<>> /\ delivered[s] \in Seq(Nat)
      BY <1>6, <2>1 DEF BeginCall
    <3>2. Tail(pending[s]) \in Seq(Nat) /\ Head(pending[s]) \in Nat
      BY <1>1, <3>1
    <3>3. Append(delivered[s], Head(pending[s])) \in Seq(Nat)
      BY <3>1, <3>2
    <3> HIDE DEF s
    <3> QED
      BY <1>6, <2>1, <3>2, <3>3 DEF BeginCall, s
  <2>2. CASE s \notin Subscriptions
    BY <1>6, <2>2 DEF BeginCall
  <2> QED
    BY <2>1, <2>2
<1>7. ASSUME NEW w \in Workers, EndCall(w) PROVE BuffersInv'
  <2> DEFINE s == holds[w]
  <2>1. UNCHANGED <<offered, delivered>>
    BY <1>7 DEF EndCall, historyVars
  <2>2. dropped' \in [Subscriptions -> Nat] /\ pending' \in [Subscriptions -> Seq(Nat)]
    <3>1. CASE UNCHANGED <<pending, dropped>>
      BY <3>1
    <3>2. CASE Schedule(s, pending[s], 0)
      <4>1. CASE s \in Subscriptions
        BY <1>2, <3>2, <4>1
      <4>2. CASE s \notin Subscriptions
        BY <3>2, <4>2 DEF Schedule
      <4> QED
        BY <4>1, <4>2
    <3> QED
      BY <1>7, <3>1, <3>2, Zenon DEF EndCall
  <2> QED
    BY <2>1, <2>2
<1>8. CASE UNCHANGED dispatchVars
  BY <1>8 DEF dispatchVars, bufferVars, historyVars
<1> QED
  BY <1>3, <1>4, <1>5, <1>6, <1>7, <1>8 DEF DispatchNext

LEMMA OneAdvances ==
    ASSUME one \in Subscriptions, BuffersInv, [DispatchNext]_dispatchVars
    PROVE  OneMoves
<1> USE DEF BuffersInv
<1>1. ASSUME NEW s \in Subscriptions, Offer(s) PROVE OneMoves
  <2>1. CASE s = one
    BY <1>1, <2>1, OfferSends DEF OneMoves, One!Next
  <2>2. CASE s # one
    BY <1>1, <2>2 DEF Offer, Schedule, OneMoves, OneUnchanged
  <2> QED
    BY <2>1, <2>2
<1>2. ASSUME NEW s \in Subscriptions, Close(s) PROVE OneMoves
  <2>1. CASE s = one
    <3>1. UNCHANGED <<offered, delivered>> /\ pending'[one] = <<>> /\ dropped'[one] = dropped[one] + Len(pending[one])
      BY <1>2, <2>1 DEF Close, historyVars
    <3> QED
      BY <3>1, LosesAll DEF OneMoves, One!Next
  <2>2. CASE s # one
    BY <1>2, <2>2 DEF Close, historyVars, OneMoves, OneUnchanged
  <2> QED
    BY <2>1, <2>2
<1>3. ASSUME NEW w \in Workers, Take(w) \/ SkipTurn(w) \/ CallRaises(w) PROVE OneMoves
  BY <1>3 DEF Take, SkipTurn, CallRaises, bufferVars, historyVars, OneMoves, OneUnchanged
<1>4. ASSUME NEW w \in Workers, BeginCall(w) PROVE OneMoves
  <2>1. CASE holds[w] = one
    <3>1. /\ UNCHANGED <<offered, dropped>> /\ pending[one] # <<>> /\ pending'[one] = Tail(pending[one])
          /\ delivered'[one] = Append(delivered[one], Head(pending[one]))
      BY <1>4, <2>1 DEF BeginCall
    <3> QED
      BY <3>1, CallTakes DEF OneMoves, One!Next
  <2>2. CASE holds[w] # one
    BY <1>4, <2>2 DEF BeginCall, OneMoves, OneUnchanged
  <2> QED
    BY <2>1, <2>2
<1>5. ASSUME NEW w \in Workers, EndCall(w) PROVE OneMoves
  <2>0. UNCHANGED <<offered, delivered>>
    BY <1>5 DEF EndCall, historyVars
  <2>1. CASE UNCHANGED <<pending, dropped>>
    BY <2>0, <2>1 DEF OneMoves, OneUnchanged
  <2>2. CASE Schedule(holds[w], pending[holds[w]], 0) /\ holds[w] # one
    BY <2>0, <2>2 DEF Schedule, OneMoves, OneUnchanged
  <2>3. CASE Schedule(holds[w], pending[holds[w]], 0) /\ holds[w] = one
    <3> DEFINE l == Len(pending[one])
    <3>1. l \in Nat /\ dropped[one] \in Nat
      OBVIOUS
    <3>2. CASE Len(queue) < QueueMax
      <4>1. pending'[one] = pending[one] /\ dropped'[one] = dropped[one] + 0
        BY <2>3, <3>2 DEF Schedule
      <4> QED
        BY <2>0, <3>1, <4>1 DEF OneMoves, OneUnchanged
    <3>3. CASE ~(Len(queue) < QueueMax)
      <4>1. pending'[one] = <<>> /\ dropped'[one] = dropped[one] + 0 + l
        BY <2>3, <3>3 DEF Schedule
      <4>2. dropped'[one] = dropped[one] + l
        <5> HIDE DEF l
        <5> QED
          BY <3>1, <4>1
      <4> QED
        BY <2>0, <4>1, <4>2, LosesAll DEF OneMoves, One!Next
    <3> QED
      BY <3>2, <3>3
  <2> QED
    BY <1>5, <2>1, <2>2, <2>3, Zenon DEF EndCall
<1>6. CASE UNCHANGED dispatchVars
  BY <1>6 DEF dispatchVars, bufferVars, historyVars, OneMoves, OneUnchanged
<1> QED
  BY <1>1, <1>2, <1>3, <1>4, <1>5, <1>6 DEF DispatchNext

(* The buffer of a subscription implements LossyQueue, for any             *)
(* subscription among any others, however many workers serve them and      *)
(* whatever the capacities: it loses events only by counting them, and     *)
(* calls back with the rest once each and in order (close, _offer,         *)
(* _deliver).                                                              *)
THEOREM SubscriptionImplemented ==
    ASSUME one \in Subscriptions
    PROVE  DispatchSpec => One!Spec
<1>1. DispatchInit => One!Init /\ BuffersInv
  <2> SUFFICES ASSUME DispatchInit PROVE One!Init /\ BuffersInv
    OBVIOUS
  <2>1. <<>> \in Seq(Nat)
    OBVIOUS
  <2> QED
    BY <2>1 DEF DispatchInit, One!Init, BuffersInv
<1>2. BuffersInv /\ [DispatchNext]_dispatchVars => [One!Next]_(One!vars) /\ BuffersInv'
  BY BuffersTyped, OneAdvances DEF OneMoves, OneUnchanged, One!vars
<1> QED
  BY <1>1, <1>2, PTL DEF DispatchSpec, One!Spec

-----------------------------------------------------------------------------
(* The session record: the facts of a session                              *)

Shot == [stamp : Nat \ {0}, kind : {"ok", "paused", "failed"}, rank : Nat, live : Nat, seen : Nat, value : Nat,
         warming : BOOLEAN, judged : BOOLEAN, reset : BOOLEAN, alive : BOOLEAN]

\* Samples as they are published.
Shots == {s \in Shot : s.seen <= s.live}

At(t, C) == {i \in 1..Len(t) : t[i] \in C}

\* One sample more.
Longer(t, s, u) == u = Append(t, s)

\* A record with one sample more: the old ones in their places, the new one last.
LEMMA AppendIs ==
    ASSUME NEW t \in Seq(Shots), NEW s \in Shots, NEW u, Longer(t, s, u)
    PROVE  /\ u \in Seq(Shots) /\ Len(t) \in Nat /\ Len(u) = Len(t) + 1 /\ u[Len(t) + 1] = s
           /\ \A i \in 1..Len(t) : u[i] = t[i] /\ t[i] \in Shots
           /\ DOMAIN t = 1..Len(t) /\ DOMAIN u = 1..Len(t) + 1 /\ 1..Len(t) + 1 = 1..Len(t) \cup {Len(t) + 1}
<1>1. u \in Seq(Shots) /\ Len(t) \in Nat /\ Len(u) = Len(t) + 1 /\ u[Len(t) + 1] = s
  BY DEF Longer
<1>2. \A i \in 1..Len(t) : u[i] = t[i] /\ t[i] \in Shots
  BY DEF Longer
<1>3. DOMAIN t = 1..Len(t) /\ DOMAIN u = 1..Len(t) + 1
  BY DEF Longer
<1>4. \A n \in Nat : 1..n + 1 = 1..n \cup {n + 1}
  OBVIOUS
<1> QED
  BY <1>1, <1>2, <1>3, <1>4

\* The positions in a sequence are finitely many.
LEMMA PlacesFinite == ASSUME NEW n \in Nat, NEW S, S \subseteq 1..n PROVE IsFiniteSet(S) /\ S \subseteq Nat
<1>1. IsFiniteSet(1..n)
  BY FS_Interval
<1>2. S \in SUBSET (1..n) /\ S \subseteq Nat
  OBVIOUS
<1> QED
  BY <1>1, <1>2, FS_Subset

\* One more place.
LEMMA AddPlace ==
    ASSUME NEW n \in Nat, NEW S, S \subseteq 1..n
    PROVE  /\ S \cup {n + 1} \subseteq 1..n + 1 /\ n + 1 \notin S /\ Cardinality(S) \in Nat
           /\ Cardinality(S \cup {n + 1}) = Cardinality(S) + 1
<1>1. IsFiniteSet(S)
  BY PlacesFinite
<1>2. n + 1 \notin S /\ S \cup {n + 1} \subseteq 1..n + 1
  OBVIOUS
<1>3. Cardinality(S) \in Nat
  BY <1>1, FS_CardinalityType
<1>4. Cardinality(S \cup {n + 1}) = IF n + 1 \in S THEN Cardinality(S) ELSE Cardinality(S) + 1
  BY <1>1, FS_AddElement, Zenon
<1> QED
  BY <1>2, <1>3, <1>4

\* What one more sample counts.
LEMMA CountAppend ==
    ASSUME NEW t \in Seq(Shots), NEW s \in Shots, NEW u, Longer(t, s, u), NEW C
    PROVE  /\ Cardinality(At(t, C)) \in Nat
           /\ Cardinality(At(u, C)) = Cardinality(At(t, C)) + (IF s \in C THEN 1 ELSE 0)
<1>10. PICK n \in Nat : n = Len(t)
  OBVIOUS
<1>2. /\ Len(u) = n + 1 /\ u[n + 1] = s
      /\ (\A i \in 1..n : u[i] = t[i]) /\ 1..n + 1 = 1..n \cup {n + 1}
  BY <1>10, AppendIs
<1>3. At(t, C) = {i \in 1..n : t[i] \in C} /\ At(u, C) = {i \in 1..n + 1 : u[i] \in C}
  BY <1>2, <1>10 DEF At
<1>4. ASSUME s \in C PROVE At(u, C) = At(t, C) \cup {n + 1}
  BY <1>2, <1>3, <1>4
<1>5. ASSUME s \notin C PROVE At(u, C) = At(t, C)
  BY <1>2, <1>3, <1>5
<1>6. At(t, C) \subseteq 1..n
  BY <1>3
<1>7. Cardinality(At(t, C)) \in Nat /\ Cardinality(At(t, C) \cup {n + 1}) = Cardinality(At(t, C)) + 1
  BY <1>6, AddPlace
<1>8. CASE s \in C
  <2>1. Cardinality(At(u, C)) = Cardinality(At(t, C)) + 1
    BY <1>4, <1>7, <1>8
  <2> QED
    BY <1>7, <1>8, <2>1
<1>9. CASE s \notin C
  <2>1. Cardinality(At(u, C)) = Cardinality(At(t, C))
    BY <1>5, <1>9
  <2> QED
    BY <1>7, <1>9, <2>1
<1> QED
  BY <1>8, <1>9

\* The greatest of a finite set of numbers.
LEMMA MaxIs ==
    ASSUME NEW S, S \subseteq Nat, IsFiniteSet(S), S # {}
    PROVE  Max(S) \in S /\ \A n \in S : n <= Max(S)
<1>1. PICK m \in S : \A n \in S : n <= m
  BY HasGreatest
<1>2. \A n \in S : m >= n
  BY <1>1
<1>3. Max(S) \in S /\ \A n \in S : Max(S) >= n
  <2>1. \E x \in S : \A y \in S : x >= y
    BY <1>2
  <2> QED
    BY <2>1 DEF Max
<1> QED
  BY <1>3

\* A member no other exceeds is the greatest.
LEMMA MaxOf ==
    ASSUME NEW S, S \subseteq Nat, NEW m \in S, \A n \in S : n <= m
    PROVE  Max(S) = m
<1>1. m \in S /\ \A y \in S : m >= y
  OBVIOUS
<1>2. Max(S) \in S /\ \A y \in S : Max(S) >= y
  BY <1>1 DEF Max
<1>3. Max(S) <= m /\ m <= Max(S) /\ Max(S) \in Nat /\ m \in Nat
  BY <1>1, <1>2
<1> QED
  BY <1>3

\* The greater of two.
LEMMA MaxPair == ASSUME NEW x \in Int, NEW y \in Int PROVE Max({x, y}) = IF x >= y THEN x ELSE y
<1> DEFINE m == IF x >= y THEN x ELSE y
<1>1. m \in {x, y} /\ \A z \in {x, y} : m >= z
  OBVIOUS
<1>2. Max({x, y}) \in {x, y} /\ \A z \in {x, y} : Max({x, y}) >= z
  BY <1>1 DEF Max
<1> QED
  BY <1>2

\* The lesser of two.
LEMMA MinPair == ASSUME NEW x \in Int, NEW y \in Int PROVE Min({x, y}) = IF x <= y THEN x ELSE y
<1> DEFINE m == IF x <= y THEN x ELSE y
<1>1. m \in {x, y} /\ \A z \in {x, y} : m <= z
  OBVIOUS
<1>2. Min({x, y}) \in {x, y} /\ \A z \in {x, y} : Min({x, y}) <= z
  BY <1>1 DEF Min
<1> QED
  BY <1>2

\* m is the most of S, and 0 if there is none.
MostIs(m, S) == m \in Nat /\ (m = 0 \/ m \in S) /\ \A n \in S : n <= m

\* Most is the greatest, or zero of nothing.
LEMMA MostOf == ASSUME NEW S, S \subseteq Nat, NEW m, MostIs(m, S) PROVE Most(S) = m
<1>1. m \in S \cup {0} /\ S \cup {0} \subseteq Nat /\ \A n \in S \cup {0} : n <= m
  BY DEF MostIs
<1> QED
  BY <1>1, MaxOf DEF Most

-----------------------------------------------------------------------------
(* What each step of the publisher's count does to the facts               *)

Signals == [open : Nat, last : Nat, rank : Nat]

\* The sample before, if it was collected.
Lately == {<<>>} \cup {<<s>> : s \in Shots}

FactsSet ==
    [taken : Nat, collected : Nat, measured : Nat, paused : Nat, failed : Nat,
     first : Nat, last : Nat, peak : Nat, peakAt : Nat, worst : Nat, worstAt : Nat,
     episodes : Nat, escalations : Nat, seconds : Nat, signal : Signals,
     previous : Lately, evaluated : Nat, afterWarmup : Nat, firstEvaluated : Nat,
     judged : BOOLEAN, covered : Nat, full : Nat, partial : Nat, unavailable : Nat]

\* The fields of the facts are numbers.
LEMMA NumbersAre ==
    ASSUME NEW f \in FactsSet
    PROVE  /\ f.taken \in Nat
           /\ f.collected \in Nat
           /\ f.measured \in Nat
           /\ f.failed \in Nat
           /\ f.paused \in Nat
           /\ f.first \in Nat
           /\ f.last \in Nat
           /\ f.peak \in Nat
           /\ f.peakAt \in Nat
           /\ f.worst \in Nat
           /\ f.worstAt \in Nat
           /\ f.episodes \in Nat
           /\ f.escalations \in Nat
           /\ f.seconds \in Nat
           /\ f.evaluated \in Nat
           /\ f.afterWarmup \in Nat
           /\ f.firstEvaluated \in Nat
           /\ f.covered \in Nat
           /\ f.full \in Nat
           /\ f.partial \in Nat
           /\ f.unavailable \in Nat
           /\ f.signal \in Signals /\ f.previous \in Lately /\ f.judged \in BOOLEAN
  BY DEF FactsSet

\* The fields that say how samples were counted, how far, and what was measured.
SameCounts(f, g) ==
    /\ g.taken = f.taken /\ g.collected = f.collected /\ g.failed = f.failed
    /\ g.first = f.first /\ g.last = f.last /\ g.previous = f.previous

SameCoverage(f, g) == g.measured = f.measured /\ g.full = f.full /\ g.partial = f.partial

SameSignal(f, g) ==
    /\ g.episodes = f.episodes /\ g.escalations = f.escalations /\ g.seconds = f.seconds
    /\ g.signal = f.signal /\ g.worst = f.worst

SameElapsed(f, g) == g.evaluated = f.evaluated /\ g.afterWarmup = f.afterWarmup

\* The time between two stamps, if the clock went on.
Lapse(from, to) == Max({0, to - from})

\* What every sample changes.
TakenStep(f, s, g) ==
    /\ g.taken = f.taken + 1
    /\ g.first = IF f.taken = 0 \/ s.stamp < f.first THEN s.stamp ELSE f.first
    /\ g.last = IF f.taken = 0 \/ s.stamp > f.last THEN s.stamp ELSE f.last

\* What a sample without evidence leaves alone.
RestStep(f, g) ==
    /\ g.collected = f.collected /\ g.peak = f.peak
    /\ SameCoverage(f, g) /\ SameSignal(f, g) /\ SameElapsed(f, g) /\ g.previous = <<>>

CollectedStep(f, s, g) ==
    /\ g.collected = f.collected + 1 /\ g.failed = f.failed /\ g.previous = <<s>>
    /\ g.measured = f.measured + (IF s.live > 0 THEN 1 ELSE 0)
    /\ g.full = f.full + (IF s.live > 0 /\ ~Partial(s) THEN 1 ELSE 0)
    /\ g.partial = f.partial + (IF s.live > 0 /\ Partial(s) THEN 1 ELSE 0)
    /\ g.peak = IF MeasuredMetric(s) /\ s.value > f.peak THEN s.value ELSE f.peak

\* What a collected sample does to the signal.
AlertStep(f, s, g) ==
    /\ s.rank = 0 =>
          /\ g.episodes = f.episodes /\ g.escalations = f.escalations /\ g.worst = f.worst
          /\ g.seconds = f.seconds + Lasted(f.signal) /\ g.signal = NoSignal
    /\ s.rank > 0 =>
          /\ g.episodes = f.episodes + (IF f.signal.open = 0 THEN 1 ELSE 0)
          /\ g.escalations = f.escalations + (IF f.signal.open # 0 /\ s.rank > f.signal.rank THEN 1 ELSE 0)
          /\ g.worst = (IF s.rank > f.worst THEN s.rank ELSE f.worst)
          /\ g.seconds = f.seconds
          /\ g.signal.open = (IF f.signal.open = 0 THEN s.stamp ELSE f.signal.open)
          /\ g.signal.last = s.stamp /\ g.signal.rank = s.rank

TimeStep(f, s, p, g) ==
    /\ p = <<>> \/ s.reset => SameElapsed(f, g)
    /\ p # <<>> /\ ~s.reset =>
          /\ g.evaluated = f.evaluated + (IF s.judged THEN Lapse(p[1].stamp, s.stamp) ELSE 0)
          /\ g.afterWarmup = f.afterWarmup
                + (IF s.warming \/ p[1].warming THEN 0 ELSE Lapse(p[1].stamp, s.stamp))

\* Time that passed between two stamps, none if the clock was set back.
LEMMA LapseIs ==
    ASSUME NEW from \in Nat, NEW to \in Nat
    PROVE  Lapse(from, to) \in Nat /\ Lapse(from, to) = IF to >= from THEN to - from ELSE 0
<1>1. Max({0, to - from}) = IF 0 >= to - from THEN 0 ELSE to - from
  BY MaxPair
<1> QED
  BY <1>1 DEF Lapse

\* The fields of a sample.
LEMMA ShotIs ==
    ASSUME NEW s \in Shots
    PROVE  /\ s.stamp \in Nat /\ s.stamp > 0 /\ s.rank \in Nat /\ s.live \in Nat /\ s.seen \in Nat /\ s.value \in Nat
           /\ s.kind \in {"ok", "paused", "failed"} /\ s.seen <= s.live
           /\ s.warming \in BOOLEAN /\ s.judged \in BOOLEAN /\ s.reset \in BOOLEAN /\ s.alive \in BOOLEAN
  BY DEF Shots, Shot

\* How long the open signal has lasted.
LEMMA LastedIs ==
    ASSUME NEW signal \in Signals
    PROVE  /\ Lasted(signal) \in Nat
           /\ Lasted(signal) = IF signal.last >= signal.open THEN signal.last - signal.open ELSE 0
<1>1. signal.last \in Nat /\ signal.open \in Nat
  BY DEF Signals
<1>2. Max({0, signal.last - signal.open}) = IF 0 >= signal.last - signal.open THEN 0 ELSE signal.last - signal.open
  BY <1>1, MaxPair
<1> QED
  BY <1>1, <1>2 DEF Lasted

\* _observe_coverage counts a measured sample as full or partial, and nothing else.
LEMMA CoverageStep ==
    ASSUME NEW f \in FactsSet, NEW s \in Shots, NEW g, g = ObserveCoverage(f, s)
    PROVE  /\ g \in FactsSet /\ SameCounts(f, g) /\ SameSignal(f, g) /\ SameElapsed(f, g) /\ g.peak = f.peak
           /\ g.measured = f.measured + (IF s.live > 0 THEN 1 ELSE 0)
           /\ g.full = f.full + (IF s.live > 0 /\ ~Partial(s) THEN 1 ELSE 0)
           /\ g.partial = f.partial + (IF s.live > 0 /\ Partial(s) THEN 1 ELSE 0)
<1>1. s.live \in Nat /\ s.seen \in Nat /\ s.seen <= s.live
  BY ShotIs
<1>2. CASE s.live = 0
  BY <1>1, <1>2 DEF ObserveCoverage, FactsSet, SameCounts, SameSignal, SameElapsed
<1>3. CASE s.live # 0
  <2> DEFINE full == IF s.seen = s.live THEN 1 ELSE 0
             partial == IF Partial(s) THEN 1 ELSE 0
             none == IF s.seen = 0 THEN 1 ELSE 0
  <2>1. g = [f EXCEPT !.covered = @ + 1, !.measured = @ + 1, !.full = @ + full, !.partial = @ + partial,
                      !.unavailable = @ + none]
    BY <1>3 DEF ObserveCoverage
  <2>2. full \in Nat /\ partial \in Nat /\ none \in Nat
    OBVIOUS
  <2> HIDE DEF full, partial, none
  <2>3. g \in FactsSet
    <3> DEFINE v1 == f.covered + 1
               v2 == f.measured + 1
               v3 == f.full + full
               v4 == f.partial + partial
               v5 == f.unavailable + none
               f1 == [f EXCEPT !.covered = v1]
               f2 == [f1 EXCEPT !.measured = v2]
               f3 == [f2 EXCEPT !.full = v3]
               f4 == [f3 EXCEPT !.partial = v4]
               f5 == [f4 EXCEPT !.unavailable = v5]
    <3>1. g = f5
      BY <2>1
    <3>0. v1 \in Nat /\ v2 \in Nat /\ v3 \in Nat /\ v4 \in Nat /\ v5 \in Nat
      BY NumbersAre, <2>2
    <3> HIDE DEF v1, v2, v3, v4, v5
    <3>2. f1 \in FactsSet
      BY <3>0 DEF FactsSet
    <3>3. f2 \in FactsSet
      <4> HIDE DEF f1
      <4> QED
        BY <3>2, <3>0 DEF FactsSet
    <3>4. f3 \in FactsSet
      <4> HIDE DEF f2
      <4> QED
        BY <3>3, <3>0 DEF FactsSet
    <3>5. f4 \in FactsSet
      <4> HIDE DEF f3
      <4> QED
        BY <3>4, <3>0 DEF FactsSet
    <3>6. f5 \in FactsSet
      <4> HIDE DEF f4
      <4> QED
        BY <3>5, <3>0 DEF FactsSet
    <3> HIDE DEF f5
    <3> QED
      BY <3>1, <3>6
  <2>4. SameCounts(f, g) /\ SameSignal(f, g) /\ SameElapsed(f, g) /\ g.peak = f.peak
    BY <2>1 DEF FactsSet, SameCounts, SameSignal, SameElapsed
  <2>5. g.measured = f.measured + 1 /\ g.full = f.full + full /\ g.partial = f.partial + partial
    BY <2>1 DEF FactsSet
  <2> QED
    BY <1>1, <1>3, <2>3, <2>4, <2>5 DEF Partial, full, partial
<1> QED
  BY <1>2, <1>3

\* _observe_peak keeps the greater value, and nothing else.
LEMMA PeakStep ==
    ASSUME NEW f \in FactsSet, NEW s \in Shots, NEW g, g = ObservePeak(f, s)
    PROVE  /\ g \in FactsSet /\ SameCounts(f, g) /\ SameCoverage(f, g) /\ SameSignal(f, g) /\ SameElapsed(f, g)
           /\ g.peak = IF MeasuredMetric(s) /\ s.value > f.peak THEN s.value ELSE f.peak
<1>1. s.value \in Nat /\ s.stamp \in Nat
  BY ShotIs
<1>2. CASE MeasuredMetric(s) /\ s.value > f.peak
  BY <1>1, <1>2 DEF ObservePeak, FactsSet, SameCounts, SameCoverage, SameSignal, SameElapsed
<1>3. CASE ~(MeasuredMetric(s) /\ s.value > f.peak)
  BY <1>3 DEF ObservePeak, SameCounts, SameCoverage, SameSignal, SameElapsed
<1> QED
  BY <1>2, <1>3

\* _observe_signal opens, raises, continues or closes the signal, and nothing else.
LEMMA SignalStep ==
    ASSUME NEW f \in FactsSet, NEW s \in Shots, NEW g, g = ObserveSignal(f, s)
    PROVE  /\ g \in FactsSet /\ SameCounts(f, g) /\ SameCoverage(f, g) /\ SameElapsed(f, g) /\ g.peak = f.peak
           /\ AlertStep(f, s, g)
<1>1. s.rank \in Nat /\ s.stamp \in Nat
  BY ShotIs
<1>2. f.signal \in Signals /\ f.worst \in Nat
  BY DEF FactsSet
<1>3. CASE s.rank = 0
  <2>1. g = [f EXCEPT !.seconds = @ + Lasted(f.signal), !.signal = NoSignal]
    BY <1>3 DEF ObserveSignal
  <2>2. Lasted(f.signal) \in Nat /\ NoSignal \in Signals
    BY <1>2, LastedIs DEF NoSignal, Signals
  <2> DEFINE lasted == Lasted(f.signal)
             none == NoSignal
  <2>6. g = [f EXCEPT !.seconds = @ + lasted, !.signal = none] /\ lasted \in Nat /\ none \in Signals
    BY <2>1, <2>2
  <2> HIDE DEF lasted, none
  <2>7. g \in FactsSet
    <3> DEFINE v1 == f.seconds + lasted
               v2 == none
               f1 == [f EXCEPT !.seconds = v1]
               f2 == [f1 EXCEPT !.signal = v2]
    <3>1. g = f2
      BY <2>6
    <3>0. v1 \in Nat /\ v2 \in Signals
      BY NumbersAre, <2>6
    <3> HIDE DEF v1, v2
    <3>2. f1 \in FactsSet
      BY <3>0 DEF FactsSet
    <3>3. f2 \in FactsSet
      <4> HIDE DEF f1
      <4> QED
        BY <3>2, <3>0 DEF FactsSet
    <3> HIDE DEF f2
    <3> QED
      BY <3>1, <3>3
  <2>3. SameCounts(f, g) /\ SameCoverage(f, g) /\ SameElapsed(f, g) /\ g.peak = f.peak
    BY <2>1 DEF FactsSet, SameCounts, SameCoverage, SameElapsed
  <2>4. /\ g.episodes = f.episodes /\ g.escalations = f.escalations /\ g.worst = f.worst
        /\ g.seconds = f.seconds + Lasted(f.signal) /\ g.signal = NoSignal
    BY <2>1 DEF FactsSet
  <2> QED
    BY <1>3, <2>3, <2>4, <2>7 DEF AlertStep
<1>4. CASE s.rank > 0
  <2> DEFINE signal == [open |-> IF f.signal.open = 0 THEN s.stamp ELSE f.signal.open, last |-> s.stamp, rank |-> s.rank]
             worst == Max({f.worst, s.rank})
             started == IF f.signal.open = 0 THEN 1 ELSE 0
             raised == IF f.signal.open # 0 /\ s.rank > f.signal.rank THEN 1 ELSE 0
             when == IF s.rank > f.worst THEN s.stamp ELSE f.worstAt
  <2>1. g = [f EXCEPT !.episodes = @ + started, !.escalations = @ + raised, !.signal = signal,
                      !.worstAt = when, !.worst = worst]
    BY <1>4 DEF ObserveSignal
  <2>2. signal \in Signals
    BY <1>1, <1>2 DEF Signals
  <2>3. worst \in Nat /\ worst = IF s.rank > f.worst THEN s.rank ELSE f.worst
    BY <1>1, <1>2, MaxPair
  <2>4. /\ signal.open = (IF f.signal.open = 0 THEN s.stamp ELSE f.signal.open)
        /\ signal.last = s.stamp /\ signal.rank = s.rank
    OBVIOUS
  <2>5. started \in Nat /\ raised \in Nat /\ when \in Nat
    BY <1>1 DEF FactsSet
  <2> HIDE DEF signal, worst, started, raised, when
  <2>6. g \in FactsSet
    <3> DEFINE v1 == f.episodes + started
               v2 == f.escalations + raised
               v3 == signal
               v4 == when
               v5 == worst
               f1 == [f EXCEPT !.episodes = v1]
               f2 == [f1 EXCEPT !.escalations = v2]
               f3 == [f2 EXCEPT !.signal = v3]
               f4 == [f3 EXCEPT !.worstAt = v4]
               f5 == [f4 EXCEPT !.worst = v5]
    <3>1. g = f5
      BY <2>1
    <3>0. v1 \in Nat /\ v2 \in Nat /\ v3 \in Signals /\ v4 \in Nat /\ v5 \in Nat
      BY NumbersAre, <2>2, <2>3, <2>5
    <3> HIDE DEF v1, v2, v3, v4, v5
    <3>2. f1 \in FactsSet
      BY <3>0 DEF FactsSet
    <3>3. f2 \in FactsSet
      <4> HIDE DEF f1
      <4> QED
        BY <3>2, <3>0 DEF FactsSet
    <3>4. f3 \in FactsSet
      <4> HIDE DEF f2
      <4> QED
        BY <3>3, <3>0 DEF FactsSet
    <3>5. f4 \in FactsSet
      <4> HIDE DEF f3
      <4> QED
        BY <3>4, <3>0 DEF FactsSet
    <3>6. f5 \in FactsSet
      <4> HIDE DEF f4
      <4> QED
        BY <3>5, <3>0 DEF FactsSet
    <3> HIDE DEF f5
    <3> QED
      BY <3>1, <3>6
  <2>7. SameCounts(f, g) /\ SameCoverage(f, g) /\ SameElapsed(f, g) /\ g.peak = f.peak
    BY <2>1 DEF FactsSet, SameCounts, SameCoverage, SameElapsed
  <2>8. /\ g.episodes = f.episodes + started /\ g.escalations = f.escalations + raised
        /\ g.seconds = f.seconds /\ g.signal = signal /\ g.worst = worst
    BY <2>1 DEF FactsSet
  <2> QED
    BY <1>4, <2>3, <2>4, <2>6, <2>7, <2>8 DEF started, raised, AlertStep
<1> QED
  BY <1>1, <1>3, <1>4

\* _observe_elapsed adds the time since the last collected sample, and nothing else.
LEMMA ElapsedStep ==
    ASSUME NEW f \in FactsSet, NEW s \in Shots, NEW p \in Lately, NEW g, g = ObserveElapsed(f, s, p)
    PROVE  /\ g \in FactsSet /\ SameCounts(f, g) /\ SameCoverage(f, g) /\ SameSignal(f, g) /\ g.peak = f.peak
           /\ TimeStep(f, s, p, g)
<1>1. CASE p = <<>> \/ s.reset
  BY <1>1 DEF ObserveElapsed, TimeStep, SameCounts, SameCoverage, SameSignal, SameElapsed
<1>2. CASE p # <<>> /\ ~s.reset
  <2>1. PICK q \in Shots : p = <<q>>
    BY <1>2 DEF Lately
  <2>2. q.stamp \in Nat /\ s.stamp \in Nat /\ p[1] = q
    BY <2>1, ShotIs
  <2> DEFINE gap == Lapse(q.stamp, s.stamp)
             warm == IF s.warming \/ q.warming THEN 0 ELSE gap
             judged == IF s.judged THEN gap ELSE 0
             from == IF s.judged /\ f.firstEvaluated = 0 THEN q.stamp ELSE f.firstEvaluated
  <2>3. gap \in Nat /\ warm \in Nat /\ judged \in Nat
    BY <2>2, LapseIs
  <2>7. from \in Nat
    BY <2>2 DEF FactsSet
  <2>4. g = [f EXCEPT !.afterWarmup = @ + warm, !.evaluated = @ + judged, !.firstEvaluated = from]
    BY <1>2, <2>2 DEF ObserveElapsed, Lapse
  <2> HIDE DEF gap, warm, judged, from
  <2>8. g \in FactsSet
    <3> DEFINE v1 == f.afterWarmup + warm
               v2 == f.evaluated + judged
               v3 == from
               f1 == [f EXCEPT !.afterWarmup = v1]
               f2 == [f1 EXCEPT !.evaluated = v2]
               f3 == [f2 EXCEPT !.firstEvaluated = v3]
    <3>1. g = f3
      BY <2>4
    <3>0. v1 \in Nat /\ v2 \in Nat /\ v3 \in Nat
      BY NumbersAre, <2>3, <2>7
    <3> HIDE DEF v1, v2, v3
    <3>2. f1 \in FactsSet
      BY <3>0 DEF FactsSet
    <3>3. f2 \in FactsSet
      <4> HIDE DEF f1
      <4> QED
        BY <3>2, <3>0 DEF FactsSet
    <3>4. f3 \in FactsSet
      <4> HIDE DEF f2
      <4> QED
        BY <3>3, <3>0 DEF FactsSet
    <3> HIDE DEF f3
    <3> QED
      BY <3>1, <3>4
  <2>5. SameCounts(f, g) /\ SameCoverage(f, g) /\ SameSignal(f, g) /\ g.peak = f.peak
    BY <2>4 DEF FactsSet, SameCounts, SameCoverage, SameSignal
  <2>6. g.evaluated = f.evaluated + judged /\ g.afterWarmup = f.afterWarmup + warm
    BY <2>4 DEF FactsSet
  <2> QED
    BY <1>2, <2>2, <2>5, <2>6, <2>8 DEF warm, judged, gap, TimeStep
<1> QED
  BY <1>1, <1>2

\* observe: every sample is taken, a failed one and a paused one only counted, a collected one
\* observed in all four ways (SessionFacts.observe).
LEMMA FactsStep ==
    ASSUME NEW f \in FactsSet, NEW s \in Shots, NEW g, g = ObserveFacts(f, s)
    PROVE  /\ g \in FactsSet /\ TakenStep(f, s, g)
           /\ s.kind = "failed" => g.failed = f.failed + 1 /\ RestStep(f, g)
           /\ s.kind = "paused" => g.failed = f.failed /\ RestStep(f, g)
           /\ s.kind = "ok" => CollectedStep(f, s, g) /\ AlertStep(f, s, g) /\ TimeStep(f, s, f.previous, g)
<1> DEFINE taken == f.taken + 1
           first == IF f.taken = 0 THEN s.stamp ELSE Min({f.first, s.stamp})
           last == IF f.taken = 0 THEN s.stamp ELSE Max({f.last, s.stamp})
           a == [f EXCEPT !.taken = taken]
           b == [a EXCEPT !.first = first]
           h == [b EXCEPT !.last = last]
<1>1. s.stamp \in Nat /\ f.first \in Nat /\ f.last \in Nat /\ f.taken \in Nat
  BY ShotIs, NumbersAre
<1>2. /\ taken \in Nat /\ first \in Nat /\ last \in Nat /\ taken = f.taken + 1
      /\ first = (IF f.taken = 0 \/ s.stamp < f.first THEN s.stamp ELSE f.first)
      /\ last = IF f.taken = 0 \/ s.stamp > f.last THEN s.stamp ELSE f.last
  BY <1>1, MinPair, MaxPair
<1>3. g = CASE s.kind = "failed" -> [h EXCEPT !.failed = @ + 1, !.previous = <<>>]
            [] s.kind = "paused" -> [h EXCEPT !.paused = @ + 1, !.previous = <<>>]
            [] OTHER -> ObserveCollected(h, s)
  BY DEF ObserveFacts
<1> HIDE DEF taken, first, last
<1>4. a \in FactsSet
  BY <1>2 DEF FactsSet
<1>5. b \in FactsSet
  <2> HIDE DEF a
  <2> QED
    BY <1>2, <1>4 DEF FactsSet
<1>6. h \in FactsSet
  <2> HIDE DEF b
  <2> QED
    BY <1>2, <1>5 DEF FactsSet
<1>7. /\ h.taken = taken /\ h.first = first /\ h.last = last /\ h.previous = f.previous
      /\ h.collected = f.collected /\ h.failed = f.failed /\ h.peak = f.peak
      /\ SameCoverage(f, h) /\ SameSignal(f, h) /\ SameElapsed(f, h)
  BY DEF FactsSet, SameCoverage, SameSignal, SameElapsed
<1> HIDE DEF h
<1>8. h.taken \in Nat /\ h.failed \in Nat /\ h.paused \in Nat /\ h.collected \in Nat /\ h.judged \in BOOLEAN
  BY <1>6, NumbersAre
<1>9. ASSUME s.kind = "failed"
      PROVE  g \in FactsSet /\ TakenStep(f, s, g) /\ g.failed = f.failed + 1 /\ RestStep(f, g)
  <2> DEFINE failed == h.failed + 1
             x == [h EXCEPT !.failed = failed]
             y == [x EXCEPT !.previous = <<>>]
  <2>1. g = y /\ failed \in Nat /\ <<>> \in Lately
    BY <1>3, <1>8, <1>9 DEF Lately
  <2>2. failed = f.failed + 1
    BY <1>7
  <2> HIDE DEF failed
  <2>3. x \in FactsSet
    BY <1>6, <2>1 DEF FactsSet
  <2>4. y \in FactsSet
    <3> HIDE DEF x
    <3> QED
      BY <2>1, <2>3 DEF FactsSet
  <2>5. /\ y.failed = failed /\ y.taken = h.taken /\ y.first = h.first /\ y.last = h.last
        /\ y.collected = h.collected /\ y.peak = h.peak /\ y.previous = <<>>
        /\ SameCoverage(h, y) /\ SameSignal(h, y) /\ SameElapsed(h, y)
    BY <1>6 DEF FactsSet, SameCoverage, SameSignal, SameElapsed
  <2> HIDE DEF y
  <2> QED
    BY <1>2, <1>7, <2>1, <2>2, <2>4, <2>5 DEF TakenStep, RestStep, SameCoverage, SameSignal, SameElapsed
<1>10. ASSUME s.kind = "paused"
       PROVE  g \in FactsSet /\ TakenStep(f, s, g) /\ g.failed = f.failed /\ RestStep(f, g)
  <2> DEFINE paused == h.paused + 1
             x == [h EXCEPT !.paused = paused]
             y == [x EXCEPT !.previous = <<>>]
  <2>1. g = y /\ paused \in Nat /\ <<>> \in Lately
    BY <1>3, <1>8, <1>10 DEF Lately
  <2> HIDE DEF paused
  <2>3. x \in FactsSet
    BY <1>6, <2>1 DEF FactsSet
  <2>4. y \in FactsSet
    <3> HIDE DEF x
    <3> QED
      BY <2>1, <2>3 DEF FactsSet
  <2>5. /\ y.failed = h.failed /\ y.taken = h.taken /\ y.first = h.first /\ y.last = h.last
        /\ y.collected = h.collected /\ y.peak = h.peak /\ y.previous = <<>>
        /\ SameCoverage(h, y) /\ SameSignal(h, y) /\ SameElapsed(h, y)
    BY <1>6 DEF FactsSet, SameCoverage, SameSignal, SameElapsed
  <2> HIDE DEF y
  <2> QED
    BY <1>2, <1>7, <2>1, <2>4, <2>5 DEF TakenStep, RestStep, SameCoverage, SameSignal, SameElapsed
<1>11. ASSUME s.kind = "ok"
       PROVE  /\ g \in FactsSet /\ TakenStep(f, s, g)
              /\ CollectedStep(f, s, g) /\ AlertStep(f, s, g) /\ TimeStep(f, s, f.previous, g)
  <2> DEFINE collected == h.collected + 1
             judged == h.judged \/ s.judged
             x == [h EXCEPT !.collected = collected]
             y == [x EXCEPT !.judged = judged]
             z == [y EXCEPT !.previous = <<s>>]
             c == ObserveCoverage(z, s)
             p == ObservePeak(c, s)
             q == ObserveSignal(p, s)
  <2>1. g = ObserveElapsed(q, s, h.previous) /\ collected \in Nat /\ <<s>> \in Lately
    BY <1>3, <1>8, <1>11 DEF Lately, ObserveCollected
  <2>2. judged \in BOOLEAN
    OBVIOUS
  <2>3. collected = f.collected + 1
    BY <1>7
  <2> HIDE DEF collected, judged
  <2>4. x \in FactsSet
    BY <1>6, <2>1 DEF FactsSet
  <2>5. y \in FactsSet
    <3> HIDE DEF x
    <3> QED
      BY <2>2, <2>4 DEF FactsSet
  <2>6. z \in FactsSet
    <3> HIDE DEF y
    <3> QED
      BY <2>1, <2>5 DEF FactsSet
  <2>7. /\ z.failed = h.failed /\ z.taken = h.taken /\ z.first = h.first /\ z.last = h.last
        /\ z.collected = collected /\ z.peak = h.peak /\ z.previous = <<s>>
        /\ SameCoverage(h, z) /\ SameSignal(h, z) /\ SameElapsed(h, z)
    BY <1>6 DEF FactsSet, SameCoverage, SameSignal, SameElapsed
  <2> HIDE DEF z
  <2>8. /\ c \in FactsSet /\ SameCounts(z, c) /\ SameSignal(z, c) /\ SameElapsed(z, c) /\ c.peak = z.peak
        /\ c.measured = z.measured + (IF s.live > 0 THEN 1 ELSE 0)
        /\ c.full = z.full + (IF s.live > 0 /\ ~Partial(s) THEN 1 ELSE 0)
        /\ c.partial = z.partial + (IF s.live > 0 /\ Partial(s) THEN 1 ELSE 0)
    BY <2>6, CoverageStep
  <2> HIDE DEF c
  <2>9. /\ p \in FactsSet /\ SameCounts(c, p) /\ SameCoverage(c, p) /\ SameSignal(c, p) /\ SameElapsed(c, p)
        /\ p.peak = IF MeasuredMetric(s) /\ s.value > c.peak THEN s.value ELSE c.peak
    BY <2>8, PeakStep
  <2> HIDE DEF p
  <2>10. /\ q \in FactsSet /\ SameCounts(p, q) /\ SameCoverage(p, q) /\ SameElapsed(p, q) /\ q.peak = p.peak
         /\ AlertStep(p, s, q)
    BY <2>9, SignalStep
  <2> HIDE DEF q
  <2>11. /\ g \in FactsSet /\ SameCounts(q, g) /\ SameCoverage(q, g) /\ SameSignal(q, g) /\ g.peak = q.peak
         /\ TimeStep(q, s, h.previous, g)
    BY <1>6, <2>1, <2>10, NumbersAre, ElapsedStep
  <2>12. TakenStep(f, s, g)
    BY <1>2, <1>7, <2>7, <2>8, <2>9, <2>10, <2>11 DEF TakenStep, SameCounts
  <2>13. CollectedStep(f, s, g)
    BY <1>7, <2>3, <2>7, <2>8, <2>9, <2>10, <2>11 DEF CollectedStep, SameCounts, SameCoverage
  <2>14. AlertStep(f, s, g)
    BY <1>7, <2>7, <2>8, <2>9, <2>10, <2>11 DEF AlertStep, SameSignal
  <2>15. TimeStep(f, s, f.previous, g)
    BY <1>7, <2>7, <2>8, <2>9, <2>10, <2>11 DEF TimeStep, SameElapsed
  <2> QED
    BY <2>11, <2>12, <2>13, <2>14, <2>15
<1>12. s.kind \in {"ok", "paused", "failed"}
  BY ShotIs
<1> QED
  BY <1>9, <1>10, <1>11, <1>12

-----------------------------------------------------------------------------
(* The counts, the ends and the peak                                       *)

Collected == {s \in Shots : s.kind = "ok"}
LiveShots == {s \in Shots : s.kind = "ok" /\ s.live > 0}
Whole == {s \in LiveShots : ~Partial(s)}
Lossy == {s \in LiveShots : Partial(s)}
Failed == {s \in Shots : s.kind = "failed"}

CountsInv(t, f) ==
    /\ f.taken = Len(t)
    /\ f.collected = Cardinality(At(t, Collected)) /\ f.failed = Cardinality(At(t, Failed))
    /\ f.measured = Cardinality(At(t, LiveShots))
    /\ f.full = Cardinality(At(t, Whole)) /\ f.partial = Cardinality(At(t, Lossy))
    /\ f.measured = f.full + f.partial

EndsInv(t, f) ==
    t # <<>> => /\ \E i \in 1..Len(t) : f.first = t[i].stamp
                /\ \E i \in 1..Len(t) : f.last = t[i].stamp
                /\ \A i \in 1..Len(t) : f.first <= t[i].stamp /\ t[i].stamp <= f.last

PeakInv(t, f) == MostIs(f.peak, {t[i].value : i \in {i \in 1..Len(t) : MeasuredMetric(t[i])}})

\* Observing a sample keeps the counts.
LEMMA CountsKept ==
    ASSUME NEW t \in Seq(Shots), NEW s \in Shots, NEW u, Longer(t, s, u),
           NEW f \in FactsSet, NEW g, g = ObserveFacts(f, s), CountsInv(t, f)
    PROVE  CountsInv(u, g)
<1>1. Len(u) = Len(t) + 1 /\ TakenStep(f, s, g)
  BY AppendIs, FactsStep
<1> DEFINE Counted(C) ==
             /\ Cardinality(At(t, C)) \in Nat
             /\ s \in C => Cardinality(At(u, C)) = Cardinality(At(t, C)) + 1
             /\ s \notin C => Cardinality(At(u, C)) = Cardinality(At(t, C))
<1>2. Counted(Collected) /\ Counted(LiveShots) /\ Counted(Whole) /\ Counted(Lossy) /\ Counted(Failed)
  <2>1. ASSUME NEW C PROVE Counted(C)
    <3>1. /\ Cardinality(At(t, C)) \in Nat
          /\ Cardinality(At(u, C)) = Cardinality(At(t, C)) + (IF s \in C THEN 1 ELSE 0)
      BY CountAppend
    <3> QED
      BY <3>1
  <2> HIDE DEF Counted
  <2> QED
    BY <2>1
<1>8. f.measured \in Nat /\ f.full \in Nat /\ f.partial \in Nat
  BY NumbersAre
<1>3. g.taken = Len(u)
  BY <1>1 DEF TakenStep, CountsInv
<1>4. s.kind \in {"ok", "paused", "failed"} /\ s.live \in Nat
  BY ShotIs
<1>5. CASE s.kind = "failed"
  <2>1. s \in Failed /\ s \notin Collected /\ s \notin LiveShots /\ s \notin Whole /\ s \notin Lossy
    BY <1>5 DEF Failed, Collected, LiveShots, Whole, Lossy
  <2>2. g.failed = f.failed + 1 /\ RestStep(f, g)
    BY <1>5, FactsStep
  <2> QED
    BY <1>2, <1>3, <2>1, <2>2 DEF CountsInv, RestStep, SameCoverage
<1>6. CASE s.kind = "paused"
  <2>1. s \notin Failed /\ s \notin Collected /\ s \notin LiveShots /\ s \notin Whole /\ s \notin Lossy
    BY <1>6 DEF Failed, Collected, LiveShots, Whole, Lossy
  <2>2. g.failed = f.failed /\ RestStep(f, g)
    BY <1>6, FactsStep
  <2> QED
    BY <1>2, <1>3, <2>1, <2>2 DEF CountsInv, RestStep, SameCoverage
<1>7. CASE s.kind = "ok"
  <2>1. s \notin Failed /\ s \in Collected /\ (s \in LiveShots <=> s.live > 0)
    BY <1>7 DEF Failed, Collected, LiveShots
  <2>2. (s \in Whole <=> s.live > 0 /\ ~Partial(s)) /\ (s \in Lossy <=> s.live > 0 /\ Partial(s))
    BY <2>1 DEF Whole, Lossy
  <2>3. CollectedStep(f, s, g)
    BY <1>7, FactsStep
  <2>4. g.failed = Cardinality(At(u, Failed)) /\ g.collected = Cardinality(At(u, Collected))
    BY <1>2, <2>1, <2>3 DEF CountsInv, CollectedStep
  <2>5. CASE s.live > 0
    <3>1. s \in LiveShots /\ g.measured = f.measured + 1
      BY <2>1, <2>3, <2>5 DEF CollectedStep
    <3>2. CASE Partial(s)
      <4>1. s \notin Whole /\ s \in Lossy /\ g.full = f.full /\ g.partial = f.partial + 1
        BY <1>8, <2>2, <2>3, <2>5, <3>2 DEF CollectedStep
      <4> QED
        BY <1>2, <1>3, <1>8, <2>4, <3>1, <4>1 DEF CountsInv
    <3>3. CASE ~Partial(s)
      <4>1. s \in Whole /\ s \notin Lossy /\ g.full = f.full + 1 /\ g.partial = f.partial
        BY <1>8, <2>2, <2>3, <2>5, <3>3 DEF CollectedStep
      <4> QED
        BY <1>2, <1>3, <1>8, <2>4, <3>1, <4>1 DEF CountsInv
    <3> QED
      BY <3>2, <3>3
  <2>6. CASE ~(s.live > 0)
    <3>1. /\ s \notin LiveShots /\ s \notin Whole /\ s \notin Lossy
          /\ g.measured = f.measured /\ g.full = f.full /\ g.partial = f.partial
      BY <1>8, <2>1, <2>2, <2>3, <2>6 DEF CollectedStep
    <3> QED
      BY <1>2, <1>3, <2>4, <3>1 DEF CountsInv
  <2> QED
    BY <2>5, <2>6
<1> QED
  BY <1>4, <1>5, <1>6, <1>7

\* Observing a sample keeps the first and the last stamp.
LEMMA EndsKept ==
    ASSUME NEW t \in Seq(Shots), NEW s \in Shots, NEW u, Longer(t, s, u),
           NEW f \in FactsSet, NEW g, g = ObserveFacts(f, s), CountsInv(t, f), EndsInv(t, f)
    PROVE  EndsInv(u, g)
<1> DEFINE n == Len(t)
<1>1. /\ n \in Nat /\ Len(u) = n + 1 /\ u[n + 1] = s /\ 1..n + 1 = 1..n \cup {n + 1}
      /\ \A i \in 1..n : u[i] = t[i] /\ t[i].stamp \in Nat
  BY AppendIs, ShotIs
<1>2. TakenStep(f, s, g) /\ f.first \in Nat /\ f.last \in Nat /\ s.stamp \in Nat /\ f.taken = n
  BY FactsStep, NumbersAre, ShotIs DEF CountsInv
<1>3. CASE n = 0
  <2>1. g.first = s.stamp /\ g.last = s.stamp
    BY <1>2, <1>3 DEF TakenStep
  <2>2. 1..Len(u) = {1} /\ u[1] = s
    BY <1>1, <1>3
  <2> QED
    BY <1>2, <2>1, <2>2 DEF EndsInv
<1>4. CASE n # 0
  <2>1. t # <<>>
    BY <1>4
  <2>2. PICK i \in 1..n, j \in 1..n : f.first = t[i].stamp /\ f.last = t[j].stamp
    BY <2>1 DEF EndsInv
  <2>3. \A k \in 1..n : f.first <= t[k].stamp /\ t[k].stamp <= f.last
    BY <2>1 DEF EndsInv
  <2> HIDE DEF n
  <2>4. /\ g.first = IF s.stamp < f.first THEN s.stamp ELSE f.first
        /\ g.last = IF s.stamp > f.last THEN s.stamp ELSE f.last
    BY <1>2, <1>4 DEF TakenStep
  <2>5. \E k \in 1..n + 1 : g.first = u[k].stamp
    BY <1>1, <2>2, <2>4
  <2>6. \E k \in 1..n + 1 : g.last = u[k].stamp
    BY <1>1, <2>2, <2>4
  <2>7. \A k \in 1..n + 1 : g.first <= u[k].stamp /\ u[k].stamp <= g.last
    <3> SUFFICES ASSUME NEW k \in 1..n + 1 PROVE g.first <= u[k].stamp /\ u[k].stamp <= g.last
      OBVIOUS
    <3>1. CASE k = n + 1
      BY <1>1, <1>2, <2>2, <2>4, <3>1
    <3>2. CASE k \in 1..n
      <4>1. u[k] = t[k] /\ t[k].stamp \in Nat /\ f.first <= t[k].stamp /\ t[k].stamp <= f.last
        BY <1>1, <2>3, <3>2
      <4> QED
        BY <1>2, <2>4, <4>1
    <3> QED
      BY <1>1, <3>1, <3>2
  <2> QED
    BY <1>1, <2>5, <2>6, <2>7 DEF EndsInv
<1> QED
  BY <1>3, <1>4

\* One more value, and the most of them.
LEMMA MostMore ==
    ASSUME NEW m, NEW S, MostIs(m, S), NEW v \in Nat, S \subseteq Nat
    PROVE  MostIs(IF v > m THEN v ELSE m, S \cup {v})
  BY DEF MostIs

\* Observing a sample keeps the peak.
LEMMA PeakKept ==
    ASSUME NEW t \in Seq(Shots), NEW s \in Shots, NEW u, Longer(t, s, u),
           NEW f \in FactsSet, NEW g, g = ObserveFacts(f, s), PeakInv(t, f)
    PROVE  PeakInv(u, g)
<1> DEFINE n == Len(t)
           S == {t[i].value : i \in {i \in 1..n : MeasuredMetric(t[i])}}
           T == {u[i].value : i \in {i \in 1..n + 1 : MeasuredMetric(u[i])}}
<1>1. /\ n \in Nat /\ Len(u) = n + 1 /\ u[n + 1] = s /\ 1..n + 1 = 1..n \cup {n + 1}
      /\ \A i \in 1..n : u[i] = t[i] /\ t[i] \in Shots
  BY AppendIs
<1>2. S \subseteq Nat /\ s.value \in Nat
  BY <1>1, ShotIs
<1>3. MostIs(f.peak, S)
  BY DEF PeakInv
<1>4. CASE MeasuredMetric(s)
  <2>1. s.kind = "ok"
    BY <1>4 DEF MeasuredMetric, Measured
  <2>2. g.peak = IF s.value > f.peak THEN s.value ELSE f.peak
    BY <1>4, <2>1, FactsStep DEF CollectedStep
  <2>3. T = S \cup {s.value}
    BY <1>1, <1>4
  <2> HIDE DEF S, T
  <2>4. MostIs(g.peak, T)
    BY <1>2, <1>3, <2>2, <2>3, MostMore
  <2> QED
    BY <1>1, <2>4 DEF PeakInv, T
<1>5. CASE ~MeasuredMetric(s)
  <2>1. g.peak = f.peak
    <3>1. s.kind \in {"ok", "paused", "failed"}
      BY ShotIs
    <3> QED
      BY <1>5, <3>1, FactsStep DEF CollectedStep, RestStep
  <2>2. T = S
    BY <1>1, <1>5
  <2> HIDE DEF S, T
  <2>3. MostIs(g.peak, T)
    BY <1>3, <2>1, <2>2
  <2> QED
    BY <1>1, <2>3 DEF PeakInv, T
<1> QED
  BY <1>4, <1>5

-----------------------------------------------------------------------------
(* The signal                                                              *)

\* The samples whose signal counts.
LEMMA OkIs ==
    ASSUME NEW t \in Seq(Shots)
    PROVE  /\ SignalSamples(t) = {i \in 1..Len(t) : t[i].kind = "ok"} /\ Len(t) \in Nat
           /\ IsFiniteSet(SignalSamples(t)) /\ SignalSamples(t) \subseteq Nat
           /\ \A i \in SignalSamples(t) : i \in 1..Len(t) /\ t[i] \in Shots /\ t[i].rank \in Nat /\ t[i].stamp \in Nat
                                          /\ t[i].stamp > 0
<1>1. SignalSamples(t) = {i \in 1..Len(t) : t[i].kind = "ok"} /\ Len(t) \in Nat
  BY DEF SignalSamples
<1>2. SignalSamples(t) \subseteq 1..Len(t)
  BY <1>1
<1>3. IsFiniteSet(SignalSamples(t)) /\ SignalSamples(t) \subseteq Nat
  BY <1>1, <1>2, PlacesFinite
<1>4. \A i \in 1..Len(t) : t[i] \in Shots
  OBVIOUS
<1> QED
  BY <1>1, <1>2, <1>3, <1>4, ShotIs

\* k is the last collected sample before i.
Prior(t, k, i) == k \in SignalSamples(t) /\ k < i /\ \A j \in SignalSamples(t) : j < i => j <= k

\* Before the first of them there is no signal.
LEMMA BeforeNone ==
    ASSUME NEW t, NEW i, \A j \in SignalSamples(t) : ~(j < i)
    PROVE  Before(t, i) = 0
  BY DEF Before

\* The signal before a sample is that of the last one that counts.
LEMMA BeforeIs ==
    ASSUME NEW t \in Seq(Shots), NEW i \in Nat, NEW k, Prior(t, k, i)
    PROVE  Before(t, i) = t[k].rank
<1> DEFINE earlier == {j \in SignalSamples(t) : j < i}
<1>1. earlier \subseteq Nat /\ k \in earlier /\ \A j \in earlier : j <= k
  BY OkIs DEF Prior
<1> HIDE DEF earlier
<1>2. Max(earlier) = k
  BY <1>1, MaxOf
<1> QED
  BY <1>1, <1>2 DEF Before, earlier

\* If one counts before a sample, there is a last one that does.
LEMMA HasPrior ==
    ASSUME NEW t \in Seq(Shots), NEW i \in Nat, \E j \in SignalSamples(t) : j < i
    PROVE  \E k : Prior(t, k, i)
<1> DEFINE earlier == {j \in SignalSamples(t) : j < i}
<1>1. earlier \subseteq Nat /\ earlier # {} /\ IsFiniteSet(earlier)
  BY OkIs, FS_Subset
<1>2. PICK k \in earlier : \A j \in earlier : j <= k
  <2> HIDE DEF earlier
  <2> QED
    BY <1>1, HasGreatest
<1> QED
  BY <1>2 DEF Prior

\* The signal before is a rank.
LEMMA BeforeType ==
    ASSUME NEW t \in Seq(Shots), NEW i \in Nat
    PROVE  Before(t, i) \in Nat
<1>1. CASE \E j \in SignalSamples(t) : j < i
  <2>1. PICK k : Prior(t, k, i)
    BY <1>1, HasPrior
  <2>2. Before(t, i) = t[k].rank /\ k \in SignalSamples(t)
    BY <2>1, BeforeIs DEF Prior
  <2> QED
    BY <2>2, OkIs
<1>2. CASE ~\E j \in SignalSamples(t) : j < i
  BY <1>2, BeforeNone
<1> QED
  BY <1>1, <1>2

\* One sample more counts if it was collected.
LEMMA OkAppend ==
    ASSUME NEW t \in Seq(Shots), NEW s \in Shots, NEW u, Longer(t, s, u)
    PROVE  /\ u \in Seq(Shots)
           /\ s.kind = "ok" => SignalSamples(u) = SignalSamples(t) \cup {Len(t) + 1}
           /\ s.kind # "ok" => SignalSamples(u) = SignalSamples(t)
           /\ \A i \in SignalSamples(t) : u[i] = t[i]
           /\ u[Len(t) + 1] = s
<1>1. PICK n \in Nat : n = Len(t)
  OBVIOUS
<1>2. /\ u \in Seq(Shots) /\ Len(u) = n + 1 /\ u[n + 1] = s
      /\ (\A i \in 1..n : u[i] = t[i]) /\ 1..n + 1 = 1..n \cup {n + 1}
  BY <1>1, AppendIs
<1>3. /\ SignalSamples(t) = {i \in 1..n : t[i].kind = "ok"}
      /\ SignalSamples(u) = {i \in 1..n + 1 : u[i].kind = "ok"}
  BY <1>1, <1>2, OkIs
<1>4. ASSUME s.kind = "ok" PROVE SignalSamples(u) = SignalSamples(t) \cup {n + 1}
  BY <1>2, <1>3, <1>4
<1>5. ASSUME s.kind # "ok" PROVE SignalSamples(u) = SignalSamples(t)
  BY <1>2, <1>3, <1>5
<1> QED
  BY <1>1, <1>2, <1>3, <1>4, <1>5

\* A sample changes nothing before it, and is before the next one.
LEMMA BeforeAppend ==
    ASSUME NEW t \in Seq(Shots), NEW s \in Shots, NEW u, Longer(t, s, u)
    PROVE  /\ \A i \in 1..Len(t) + 1 : Before(u, i) = Before(t, i)
           /\ Before(u, Len(t) + 2) = IF s.kind = "ok" THEN s.rank ELSE Before(t, Len(t) + 1)
<1>1. PICK n \in Nat : n = Len(t)
  OBVIOUS
<1>2. SignalSamples(t) \subseteq 1..n /\ u \in Seq(Shots) /\ \A i \in SignalSamples(t) : u[i] = t[i]
  BY <1>1, OkIs, OkAppend
<1>3. /\ s.kind = "ok" => SignalSamples(u) = SignalSamples(t) \cup {n + 1}
      /\ s.kind # "ok" => SignalSamples(u) = SignalSamples(t)
      /\ u[n + 1] = s
  BY <1>1, OkAppend
<1>4. ASSUME NEW i \in 1..n + 1 PROVE Before(u, i) = Before(t, i)
  <2>1. {j \in SignalSamples(u) : j < i} = {j \in SignalSamples(t) : j < i}
    BY <1>2, <1>3
  <2> DEFINE earlier == {j \in SignalSamples(t) : j < i}
  <2>2. CASE earlier = {}
    <3>1. (\A j \in SignalSamples(t) : ~(j < i)) /\ \A j \in SignalSamples(u) : ~(j < i)
      BY <2>1, <2>2
    <3> QED
      BY <3>1, BeforeNone
  <2>3. CASE earlier # {}
    <3>1. \E j \in SignalSamples(t) : j < i
      BY <2>3
    <3>2. PICK k : Prior(t, k, i)
      BY <3>1, HasPrior
    <3>3. Prior(u, k, i)
      BY <1>2, <1>3, <3>2 DEF Prior
    <3>4. Before(t, i) = t[k].rank
      BY <3>2, BeforeIs
    <3>5. Before(u, i) = u[k].rank
      BY <1>2, <3>3, BeforeIs
    <3> QED
      BY <1>2, <3>2, <3>4, <3>5 DEF Prior
  <2> QED
    BY <2>2, <2>3
<1>5. ASSUME s.kind = "ok" PROVE Before(u, n + 2) = s.rank
  <2>1. Prior(u, n + 1, n + 2)
    BY <1>2, <1>3, <1>5 DEF Prior
  <2> QED
    BY <1>2, <1>3, <2>1, BeforeIs
<1>6. ASSUME s.kind # "ok" PROVE Before(u, n + 2) = Before(t, n + 1)
  <2>1. \A j \in SignalSamples(u) : j < n + 2 <=> j < n + 1
    BY <1>2, <1>3, <1>6
  <2>2. {j \in SignalSamples(u) : j < n + 2} = {j \in SignalSamples(u) : j < n + 1}
    BY <2>1
  <2>3. Before(u, n + 2) = Before(u, n + 1)
    BY <2>2 DEF Before
  <2>4. Before(u, n + 1) = Before(t, n + 1)
    BY <1>4
  <2> QED
    BY <2>3, <2>4
<1> QED
  BY <1>1, <1>4, <1>5, <1>6

\* Where a signal was raised from clear, and where it was strengthened.
Opens(t) == {i \in SignalSamples(t) : t[i].rank > 0 /\ Before(t, i) = 0}
Strengthens(t) == {i \in SignalSamples(t) : t[i].rank > Before(t, i) /\ Before(t, i) # 0}

\* Every collected sample from i on has the signal.
Sounding(t, i) == \A k \in SignalSamples(t) : k >= i => t[k].rank > 0

\* One sample more opens an episode if there was no signal.
LEMMA OpensAppend ==
    ASSUME NEW t \in Seq(Shots), NEW s \in Shots, NEW u, Longer(t, s, u)
    PROVE  Opens(u) = IF s.kind = "ok" /\ s.rank > 0 /\ Before(t, Len(t) + 1) = 0
                      THEN Opens(t) \cup {Len(t) + 1} ELSE Opens(t)
<1>1. PICK n \in Nat : n = Len(t)
  OBVIOUS
<1>2. /\ SignalSamples(t) \subseteq 1..n /\ (\A i \in SignalSamples(t) : u[i] = t[i])
      /\ \A i \in 1..n + 1 : Before(u, i) = Before(t, i)
  BY <1>1, OkIs, OkAppend, BeforeAppend
<1>3. /\ s.kind = "ok" => SignalSamples(u) = SignalSamples(t) \cup {n + 1}
      /\ s.kind # "ok" => SignalSamples(u) = SignalSamples(t)
      /\ u[n + 1] = s
  BY <1>1, OkAppend
<1>4. CASE s.kind # "ok"
  <2>1. SignalSamples(u) = SignalSamples(t)
    BY <1>3, <1>4
  <2>2. Opens(u) = Opens(t)
    BY <1>2, <2>1 DEF Opens
  <2> QED
    BY <1>4, <2>2
<1>5. CASE s.kind = "ok"
  <2>1. SignalSamples(u) = SignalSamples(t) \cup {n + 1}
    BY <1>3, <1>5
  <2>2. \A i \in SignalSamples(t) : i \in Opens(u) <=> i \in Opens(t)
    BY <1>2, <2>1 DEF Opens
  <2>3. n + 1 \in Opens(u) <=> s.rank > 0 /\ Before(t, n + 1) = 0
    BY <1>2, <1>3, <2>1 DEF Opens
  <2>4. Opens(u) \subseteq SignalSamples(t) \cup {n + 1} /\ Opens(t) \subseteq SignalSamples(t)
    BY <2>1 DEF Opens
  <2>5. n + 1 \notin Opens(t)
    BY <1>2, <2>4
  <2>6. CASE s.rank > 0 /\ Before(t, n + 1) = 0
    BY <1>1, <1>5, <2>2, <2>3, <2>4, <2>6
  <2>7. CASE ~(s.rank > 0 /\ Before(t, n + 1) = 0)
    <3>1. Opens(u) = Opens(t)
      BY <2>2, <2>3, <2>4, <2>5, <2>7
    <3> QED
      BY <1>1, <2>7, <3>1
  <2> QED
    BY <2>6, <2>7
<1> QED
  BY <1>4, <1>5

\* One sample more escalates if there was a weaker signal.
LEMMA StrengthensAppend ==
    ASSUME NEW t \in Seq(Shots), NEW s \in Shots, NEW u, Longer(t, s, u)
    PROVE  Strengthens(u) = IF s.kind = "ok" /\ s.rank > Before(t, Len(t) + 1) /\ Before(t, Len(t) + 1) # 0
                       THEN Strengthens(t) \cup {Len(t) + 1} ELSE Strengthens(t)
<1>1. PICK n \in Nat : n = Len(t)
  OBVIOUS
<1>2. /\ SignalSamples(t) \subseteq 1..n /\ (\A i \in SignalSamples(t) : u[i] = t[i])
      /\ \A i \in 1..n + 1 : Before(u, i) = Before(t, i)
  BY <1>1, OkIs, OkAppend, BeforeAppend
<1>3. /\ s.kind = "ok" => SignalSamples(u) = SignalSamples(t) \cup {n + 1}
      /\ s.kind # "ok" => SignalSamples(u) = SignalSamples(t)
      /\ u[n + 1] = s
  BY <1>1, OkAppend
<1>4. CASE s.kind # "ok"
  <2>1. SignalSamples(u) = SignalSamples(t)
    BY <1>3, <1>4
  <2>2. Strengthens(u) = Strengthens(t)
    BY <1>2, <2>1 DEF Strengthens
  <2> QED
    BY <1>4, <2>2
<1>5. CASE s.kind = "ok"
  <2>1. SignalSamples(u) = SignalSamples(t) \cup {n + 1}
    BY <1>3, <1>5
  <2>2. \A i \in SignalSamples(t) : i \in Strengthens(u) <=> i \in Strengthens(t)
    BY <1>2, <2>1 DEF Strengthens
  <2>3. n + 1 \in Strengthens(u) <=> s.rank > Before(t, n + 1) /\ Before(t, n + 1) # 0
    BY <1>2, <1>3, <2>1 DEF Strengthens
  <2>4. Strengthens(u) \subseteq SignalSamples(t) \cup {n + 1} /\ Strengthens(t) \subseteq SignalSamples(t)
    BY <2>1 DEF Strengthens
  <2>5. n + 1 \notin Strengthens(t)
    BY <1>2, <2>4
  <2>6. CASE s.rank > Before(t, n + 1) /\ Before(t, n + 1) # 0
    BY <1>1, <1>5, <2>2, <2>3, <2>4, <2>6
  <2>7. CASE ~(s.rank > Before(t, n + 1) /\ Before(t, n + 1) # 0)
    <3>1. Strengthens(u) = Strengthens(t)
      BY <2>2, <2>3, <2>4, <2>5, <2>7
    <3> QED
      BY <1>1, <2>7, <3>1
  <2> QED
    BY <2>6, <2>7
<1> QED
  BY <1>4, <1>5

\* The samples of an episode: it starts with its first, and has a last.
LEMMA RunIs ==
    ASSUME NEW t \in Seq(Shots), NEW i \in SignalSamples(t), t[i].rank > 0
    PROVE  /\ i \in Run(t, i) /\ Run(t, i) \subseteq SignalSamples(t) /\ IsFiniteSet(Run(t, i))
           /\ \A j \in Run(t, i) : j >= i /\ t[j].rank > 0
           /\ Max(Run(t, i)) \in Run(t, i) /\ \A j \in Run(t, i) : j <= Max(Run(t, i))
<1>1. i \in 1..Len(t) /\ SignalSamples(t) \subseteq Nat /\ IsFiniteSet(SignalSamples(t))
  BY OkIs
<1>2. i \in Run(t, i) /\ Run(t, i) \subseteq SignalSamples(t)
  BY <1>1 DEF Run
<1>3. \A j \in Run(t, i) : j >= i /\ t[j].rank > 0
  BY <1>1 DEF Run
<1>4. IsFiniteSet(Run(t, i)) /\ Run(t, i) \subseteq Nat /\ Run(t, i) # {}
  BY <1>1, <1>2, FS_Subset
<1>5. Max(Run(t, i)) \in Run(t, i) /\ \A j \in Run(t, i) : j <= Max(Run(t, i))
  BY <1>4, MaxIs
<1> QED
  BY <1>2, <1>3, <1>4, <1>5

\* An episode that has not ended goes on to the last sample.
LEMMA RunSounding ==
    ASSUME NEW t \in Seq(Shots), NEW i \in SignalSamples(t), Sounding(t, i)
    PROVE  Run(t, i) = {j \in SignalSamples(t) : j >= i}
<1>1. SignalSamples(t) \subseteq Nat
  BY OkIs
<1> QED
  BY <1>1 DEF Run, Sounding

\* Only the run that reaches to the end can become longer.
LEMMA RunAppend ==
    ASSUME NEW t \in Seq(Shots), NEW s \in Shots, NEW u, Longer(t, s, u), NEW i \in SignalSamples(t)
    PROVE  Run(u, i) = IF s.kind = "ok" /\ s.rank > 0 /\ Sounding(t, i)
                       THEN Run(t, i) \cup {Len(t) + 1} ELSE Run(t, i)
<1>1. PICK n \in Nat : n = Len(t)
  OBVIOUS
<1>2. SignalSamples(t) \subseteq 1..n /\ (\A k \in SignalSamples(t) : u[k] = t[k]) /\ i \in 1..n
  BY <1>1, OkIs, OkAppend
<1>3. /\ s.kind = "ok" => SignalSamples(u) = SignalSamples(t) \cup {n + 1}
      /\ s.kind # "ok" => SignalSamples(u) = SignalSamples(t)
      /\ u[n + 1] = s
  BY <1>1, OkAppend
<1>4. CASE s.kind # "ok"
  <2>1. SignalSamples(u) = SignalSamples(t)
    BY <1>3, <1>4
  <2>2. \A j \in SignalSamples(t) : j \in Run(u, i) <=> j \in Run(t, i)
    BY <1>2, <2>1 DEF Run
  <2>3. Run(u, i) \subseteq SignalSamples(t) /\ Run(t, i) \subseteq SignalSamples(t)
    BY <2>1 DEF Run
  <2> QED
    BY <1>4, <2>2, <2>3
<1>5. CASE s.kind = "ok"
  <2>1. SignalSamples(u) = SignalSamples(t) \cup {n + 1}
    BY <1>3, <1>5
  <2>2. \A j \in SignalSamples(t) : j \in Run(u, i) <=> j \in Run(t, i)
    <3> SUFFICES ASSUME NEW j \in SignalSamples(t) PROVE j \in Run(u, i) <=> j \in Run(t, i)
      OBVIOUS
    <3>1. SignalSamples(u) \cap (i..j) = SignalSamples(t) \cap (i..j)
      BY <1>2, <2>1
    <3> QED
      BY <1>2, <2>1, <3>1 DEF Run
  <2>3. n + 1 \in Run(u, i) <=> s.rank > 0 /\ Sounding(t, i)
    <3>1. SignalSamples(u) \cap (i..n + 1) = {k \in SignalSamples(t) : k >= i} \cup {n + 1}
      BY <1>2, <2>1
    <3>2. n + 1 \in Run(u, i) <=> \A k \in SignalSamples(u) \cap (i..n + 1) : u[k].rank > 0
      BY <1>2, <2>1 DEF Run
    <3> QED
      BY <1>2, <1>3, <3>1, <3>2 DEF Sounding
  <2>4. Run(u, i) \subseteq SignalSamples(t) \cup {n + 1} /\ Run(t, i) \subseteq SignalSamples(t)
    BY <2>1 DEF Run
  <2>5. n + 1 \notin Run(t, i)
    BY <1>2, <2>4
  <2>6. CASE s.rank > 0 /\ Sounding(t, i)
    BY <1>1, <1>5, <2>2, <2>3, <2>4, <2>6
  <2>7. CASE ~(s.rank > 0 /\ Sounding(t, i))
    <3>1. Run(u, i) = Run(t, i)
      BY <2>2, <2>3, <2>4, <2>5, <2>7
    <3> QED
      BY <1>1, <2>7, <3>1
  <2> QED
    BY <2>6, <2>7
<1> QED
  BY <1>4, <1>5

\* Only the last episode can be open.
LEMMA OneSounding ==
    ASSUME NEW t \in Seq(Shots), NEW i \in Opens(t), NEW j \in Opens(t), Sounding(t, i), Sounding(t, j)
    PROVE  i = j
<1>1. i \in Nat /\ j \in Nat /\ i \in SignalSamples(t) /\ j \in SignalSamples(t)
  BY OkIs DEF Opens
<1>2. \A a, b \in Opens(t) : Sounding(t, a) => ~(a < b)
  <2> SUFFICES ASSUME NEW a \in Opens(t), NEW b \in Opens(t), Sounding(t, a), a < b PROVE FALSE
    OBVIOUS
  <2>1. a \in SignalSamples(t) /\ b \in Nat /\ Before(t, b) = 0
    BY OkIs DEF Opens
  <2>2. PICK k : Prior(t, k, b)
    BY <2>1, HasPrior
  <2>3. t[k].rank = 0 /\ k \in SignalSamples(t) /\ a <= k
    BY <2>1, <2>2, BeforeIs DEF Prior
  <2>4. k \in Nat /\ a \in Nat
    BY <2>1, <2>3, OkIs
  <2> QED
    BY <2>3, <2>4 DEF Sounding
<1> QED
  BY <1>1, <1>2

\* How long the episode from i on lasted.
HeldFor(t, i) == Lapse(t[i].stamp, t[Max(Run(t, i))].stamp)
Lengths(t) == [i \in Opens(t) |-> HeldFor(t, i)]

\* Every sample with a signal is in an episode.
Reached(t) == \A j \in SignalSamples(t) : t[j].rank > 0 => \E i \in Opens(t) : j \in Run(t, i)

\* The open episode is the one the samples end in.
OpenInv(t, f) ==
    LET now == Before(t, Len(t) + 1) IN
    /\ now = 0 => f.signal = NoSignal
    /\ now > 0 => \E o \in Opens(t) :
                    /\ Sounding(t, o) /\ f.signal.open = t[o].stamp
                    /\ f.signal.last = t[Max(Run(t, o))].stamp /\ f.signal.rank = now

Ranks(t) == {t[i].rank : i \in SignalSamples(t)}

SignalInv(t, f) ==
    /\ f.episodes = Cardinality(Opens(t)) /\ f.escalations = Cardinality(Strengthens(t))
    /\ MostIs(f.worst, Ranks(t))
    /\ Reached(t)
    /\ f.seconds + Lasted(f.signal) = SumOver(Lengths(t))
    /\ OpenInv(t, f)

\* Where episodes open, and how long they lasted.
LEMMA OpensIs ==
    ASSUME NEW t \in Seq(Shots)
    PROVE  /\ Opens(t) \subseteq SignalSamples(t) /\ Strengthens(t) \subseteq SignalSamples(t)
           /\ Opens(t) \subseteq 1..Len(t) /\ Strengthens(t) \subseteq 1..Len(t)
           /\ \A i \in Opens(t) : t[i].rank > 0 /\ Before(t, i) = 0 /\ HeldFor(t, i) \in Nat
                                  /\ Max(Run(t, i)) \in SignalSamples(t)
           /\ Summable(Lengths(t)) /\ DOMAIN Lengths(t) = Opens(t)
<1>1. /\ Opens(t) \subseteq SignalSamples(t) /\ Strengthens(t) \subseteq SignalSamples(t)
      /\ Opens(t) \subseteq 1..Len(t) /\ Strengthens(t) \subseteq 1..Len(t)
  BY OkIs DEF Opens, Strengthens
<1>2. ASSUME NEW i \in Opens(t)
      PROVE  t[i].rank > 0 /\ Before(t, i) = 0 /\ HeldFor(t, i) \in Nat /\ Max(Run(t, i)) \in SignalSamples(t)
  <2>1. i \in SignalSamples(t) /\ t[i].rank > 0 /\ Before(t, i) = 0
    BY DEF Opens
  <2>2. Max(Run(t, i)) \in SignalSamples(t)
    BY <2>1, RunIs
  <2>3. HeldFor(t, i) \in Nat
    BY <2>1, <2>2, OkIs, LapseIs DEF HeldFor
  <2> QED
    BY <2>1, <2>2, <2>3
<1>3. IsFiniteSet(Opens(t)) /\ Opens(t) \subseteq Nat
  BY <1>1, OkIs, PlacesFinite
<1>4. Summable(Lengths(t)) /\ DOMAIN Lengths(t) = Opens(t)
  BY <1>2, <1>3 DEF Summable, Lengths
<1> QED
  BY <1>1, <1>2, <1>4

\* An episode a sample is not part of lasted as long as it had.
LEMMA HeldAppend ==
    ASSUME NEW t \in Seq(Shots), NEW s \in Shots, NEW u, Longer(t, s, u), NEW i \in Opens(t), Run(u, i) = Run(t, i)
    PROVE  HeldFor(u, i) = HeldFor(t, i)
<1>1. i \in SignalSamples(t) /\ Max(Run(t, i)) \in SignalSamples(t)
  BY OpensIs
<1>2. u[i] = t[i] /\ u[Max(Run(t, i))] = t[Max(Run(t, i))]
  BY <1>1, OkAppend
<1> QED
  BY <1>2 DEF HeldFor

\* An open episode stays open unless a sample has no signal.
LEMMA SoundingAppend ==
    ASSUME NEW t \in Seq(Shots), NEW s \in Shots, NEW u, Longer(t, s, u), NEW i \in SignalSamples(t), Sounding(t, i),
           s.kind = "ok" => s.rank > 0
    PROVE  Sounding(u, i)
<1>1. PICK n \in Nat : n = Len(t)
  OBVIOUS
<1>2. /\ s.kind = "ok" => SignalSamples(u) = SignalSamples(t) \cup {n + 1}
      /\ s.kind # "ok" => SignalSamples(u) = SignalSamples(t)
      /\ u[n + 1] = s /\ \A k \in SignalSamples(t) : u[k] = t[k]
  BY <1>1, OkAppend
<1> QED
  BY <1>2 DEF Sounding

\* A signal that sounds to the end is the one of the last sample.
LEMMA SoundingNow ==
    ASSUME NEW t \in Seq(Shots), NEW i \in SignalSamples(t), Sounding(t, i)
    PROVE  Before(t, Len(t) + 1) > 0
<1>1. i \in 1..Len(t) /\ Len(t) + 1 \in Nat /\ SignalSamples(t) \subseteq 1..Len(t)
  BY OkIs
<1>2. PICK k : Prior(t, k, Len(t) + 1)
  BY <1>1, HasPrior
<1>3. Before(t, Len(t) + 1) = t[k].rank
  BY <1>1, <1>2, BeforeIs
<1>4. k \in SignalSamples(t) /\ i <= k
  BY <1>1, <1>2 DEF Prior
<1>5. k >= i
  BY <1>1, <1>4
<1> QED
  BY <1>3, <1>4, <1>5 DEF Sounding

\* A sample without a signal adds to no episode.
LEMMA QuietAppend ==
    ASSUME NEW t \in Seq(Shots), NEW s \in Shots, NEW u, Longer(t, s, u), s.kind # "ok" \/ s.rank = 0
    PROVE  /\ Opens(u) = Opens(t) /\ Strengthens(u) = Strengthens(t)
           /\ \A i \in SignalSamples(t) : Run(u, i) = Run(t, i)
           /\ Lengths(u) = Lengths(t)
           /\ Reached(t) => Reached(u)
<1>1. Len(t) \in Nat /\ Len(t) + 1 \in Nat /\ Before(t, Len(t) + 1) \in Nat /\ s.rank \in Nat
  BY OkIs, BeforeType, ShotIs
<1>2. Opens(u) = Opens(t)
  BY <1>1, OpensAppend
<1>3. Strengthens(u) = Strengthens(t)
  BY <1>1, StrengthensAppend
<1>4. \A i \in SignalSamples(t) : Run(u, i) = Run(t, i)
  BY <1>1, RunAppend
<1>5. \A i \in Opens(t) : HeldFor(u, i) = HeldFor(t, i)
  BY <1>4, OpensIs, HeldAppend
<1>6. Lengths(u) = Lengths(t)
  BY <1>2, <1>5 DEF Lengths
<1>7. ASSUME Reached(t), NEW j \in SignalSamples(u), u[j].rank > 0
      PROVE  \E i \in Opens(u) : j \in Run(u, i)
  <2>1. j \in SignalSamples(t) /\ u[j] = t[j]
    <3>1. /\ s.kind = "ok" => SignalSamples(u) = SignalSamples(t) \cup {Len(t) + 1}
          /\ s.kind # "ok" => SignalSamples(u) = SignalSamples(t)
          /\ u[Len(t) + 1] = s /\ \A k \in SignalSamples(t) : u[k] = t[k]
      BY OkAppend
    <3>2. j # Len(t) + 1 \/ s.kind # "ok"
      BY <1>1, <1>7, <3>1
    <3> QED
      BY <3>1, <3>2
  <2>2. PICK i \in Opens(t) : j \in Run(t, i)
    BY <1>7, <2>1 DEF Reached
  <2> QED
    BY <1>2, <1>4, <2>2, OpensIs
<1> QED
  BY <1>2, <1>3, <1>4, <1>6, <1>7 DEF Reached

\* A sample that shows no signal leaves the facts of the signal true.
LEMMA SignalUnseen ==
    ASSUME NEW t \in Seq(Shots), NEW s \in Shots, NEW u, Longer(t, s, u),
           NEW f \in FactsSet, NEW g, g = ObserveFacts(f, s), SignalInv(t, f), s.kind # "ok"
    PROVE  SignalInv(u, g)
<1>1. SameSignal(f, g)
  <2>1. s.kind \in {"ok", "paused", "failed"}
    BY ShotIs
  <2> QED
    BY <2>1, FactsStep DEF RestStep
<1>2. /\ Opens(u) = Opens(t) /\ Strengthens(u) = Strengthens(t) /\ Lengths(u) = Lengths(t) /\ Reached(u)
      /\ \A i \in SignalSamples(t) : Run(u, i) = Run(t, i)
  BY QuietAppend DEF SignalInv
<1>3. SignalSamples(u) = SignalSamples(t) /\ (\A i \in SignalSamples(t) : u[i] = t[i]) /\ u \in Seq(Shots)
  BY OkAppend
<1>4. Len(u) = Len(t) + 1 /\ Len(t) \in Nat
  BY AppendIs
<1>5. Before(u, Len(u) + 1) = Before(t, Len(t) + 1)
  <2>1. Len(u) + 1 = Len(t) + 2
    BY <1>4
  <2> QED
    BY <2>1, BeforeAppend
<1>6. Ranks(u) = Ranks(t)
  BY <1>3 DEF Ranks
<1>7. OpenInv(u, g)
  <2> DEFINE now == Before(t, Len(t) + 1)
  <2>1. ASSUME now = 0 PROVE g.signal = NoSignal
    BY <1>1, <2>1 DEF OpenInv, SignalInv, SameSignal
  <2>2. ASSUME now > 0
        PROVE  \E o \in Opens(u) : /\ Sounding(u, o) /\ g.signal.open = u[o].stamp
                                   /\ g.signal.last = u[Max(Run(u, o))].stamp /\ g.signal.rank = now
    <3>1. PICK o \in Opens(t) : /\ Sounding(t, o) /\ f.signal.open = t[o].stamp
                                /\ f.signal.last = t[Max(Run(t, o))].stamp /\ f.signal.rank = now
      BY <2>2 DEF OpenInv, SignalInv
    <3>2. o \in SignalSamples(t) /\ Max(Run(t, o)) \in SignalSamples(t)
      BY OpensIs
    <3>3. Sounding(u, o)
      BY <1>3, <3>1 DEF Sounding
    <3>4. u[o] = t[o] /\ u[Max(Run(u, o))] = t[Max(Run(t, o))]
      BY <1>2, <1>3, <3>2
    <3>5. g.signal = f.signal /\ o \in Opens(u)
      BY <1>1, <1>2 DEF SameSignal
    <3> QED
      BY <3>1, <3>3, <3>4, <3>5
  <2> QED
    BY <1>5, <2>1, <2>2 DEF OpenInv
<1>8. g.episodes = f.episodes /\ g.escalations = f.escalations /\ g.seconds = f.seconds /\ g.signal = f.signal /\ g.worst = f.worst
  BY <1>1 DEF SameSignal
<1> QED
  BY <1>2, <1>6, <1>7, <1>8 DEF SignalInv

\* So does one that clears it.
LEMMA SignalClears ==
    ASSUME NEW t \in Seq(Shots), NEW s \in Shots, NEW u, Longer(t, s, u),
           NEW f \in FactsSet, NEW g, g = ObserveFacts(f, s), SignalInv(t, f), s.kind = "ok", s.rank = 0
    PROVE  SignalInv(u, g)
<1>1. /\ g.episodes = f.episodes /\ g.escalations = f.escalations /\ g.worst = f.worst
      /\ g.seconds = f.seconds + Lasted(f.signal) /\ g.signal = NoSignal
  BY FactsStep DEF AlertStep
<1>2. /\ Opens(u) = Opens(t) /\ Strengthens(u) = Strengthens(t) /\ Lengths(u) = Lengths(t) /\ Reached(u)
  BY QuietAppend DEF SignalInv
<1>3. /\ SignalSamples(u) = SignalSamples(t) \cup {Len(t) + 1} /\ u[Len(t) + 1] = s
      /\ \A i \in SignalSamples(t) : u[i] = t[i]
  BY OkAppend
<1>4. Len(u) = Len(t) + 1 /\ Len(t) \in Nat
  BY AppendIs
<1>5. Before(u, Len(u) + 1) = 0
  <2>1. Len(u) + 1 = Len(t) + 2
    BY <1>4
  <2> QED
    BY <2>1, BeforeAppend
<1>6. MostIs(g.worst, Ranks(u))
  <2>1. Ranks(u) = Ranks(t) \cup {0}
    BY <1>3 DEF Ranks
  <2>2. MostIs(f.worst, Ranks(t))
    BY DEF SignalInv
  <2>3. MostIs(f.worst, Ranks(t) \cup {0})
    BY <2>2 DEF MostIs
  <2> QED
    BY <1>1, <2>1, <2>3
<1>7. OpenInv(u, g)
  BY <1>1, <1>5 DEF OpenInv
<1>8. Lasted(NoSignal) = 0
  BY LastedIs DEF NoSignal, Signals
<1>9. g.seconds + Lasted(g.signal) = SumOver(Lengths(u))
  <2>1. f.seconds \in Nat /\ Lasted(f.signal) \in Nat
    BY NumbersAre, LastedIs
  <2>2. f.seconds + Lasted(f.signal) = SumOver(Lengths(t))
    BY DEF SignalInv
  <2>3. g.seconds + Lasted(g.signal) = f.seconds + Lasted(f.signal) + 0
    BY <1>1, <1>8
  <2> QED
    BY <1>2, <2>1, <2>2, <2>3
<1>10. g.episodes = Cardinality(Opens(u)) /\ g.escalations = Cardinality(Strengthens(u))
  BY <1>1, <1>2 DEF SignalInv
<1> QED
  BY <1>2, <1>6, <1>7, <1>9, <1>10 DEF SignalInv

\* The worst of one sample more.
LEMMA WorstAppend ==
    ASSUME NEW t \in Seq(Shots), NEW s \in Shots, NEW u, Longer(t, s, u), s.kind = "ok", NEW w, MostIs(w, Ranks(t))
    PROVE  MostIs(IF s.rank > w THEN s.rank ELSE w, Ranks(u))
<1>1. /\ SignalSamples(u) = SignalSamples(t) \cup {Len(t) + 1} /\ u[Len(t) + 1] = s
      /\ \A i \in SignalSamples(t) : u[i] = t[i]
  BY OkAppend
<1>2. Ranks(u) = Ranks(t) \cup {s.rank}
  BY <1>1 DEF Ranks
<1>3. Ranks(t) \subseteq Nat /\ s.rank \in Nat
  BY OkIs, ShotIs DEF Ranks
<1>4. MostIs(IF s.rank > w THEN s.rank ELSE w, Ranks(t) \cup {s.rank})
  BY <1>3, MostMore
<1> QED
  BY <1>2, <1>4

\* An episode begins.
LEMMA SignalRaised ==
    ASSUME NEW t \in Seq(Shots), NEW s \in Shots, NEW u, Longer(t, s, u),
           NEW f \in FactsSet, NEW g, g = ObserveFacts(f, s), SignalInv(t, f),
           s.kind = "ok", s.rank > 0, Before(t, Len(t) + 1) = 0
    PROVE  SignalInv(u, g)
<1>1. PICK n \in Nat : n = Len(t)
  OBVIOUS
<1> DEFINE a == n + 1
<1>2. f.signal = NoSignal /\ NoSignal.open = 0 /\ NoSignal.rank = 0
  BY DEF SignalInv, OpenInv, NoSignal
<1>3. s.rank \in Nat /\ s.stamp \in Nat /\ f.worst \in Nat /\ f.escalations \in Nat
  BY ShotIs, NumbersAre
<1>4. /\ g.episodes = f.episodes + 1 /\ g.escalations = f.escalations /\ g.seconds = f.seconds
      /\ g.worst = (IF s.rank > f.worst THEN s.rank ELSE f.worst)
      /\ g.signal.open = s.stamp /\ g.signal.last = s.stamp /\ g.signal.rank = s.rank
  <2>1. AlertStep(f, s, g)
    BY FactsStep
  <2> QED
    BY <1>2, <1>3, <2>1 DEF AlertStep
<1>5. /\ SignalSamples(u) = SignalSamples(t) \cup {a} /\ u[a] = s /\ u \in Seq(Shots)
      /\ (\A i \in SignalSamples(t) : u[i] = t[i]) /\ SignalSamples(t) \subseteq 1..n
  BY <1>1, OkAppend, OkIs
<1>6. Opens(u) = Opens(t) \cup {a} /\ Strengthens(u) = Strengthens(t) /\ Opens(t) \subseteq 1..n
  BY <1>1, OpensAppend, StrengthensAppend, OpensIs
<1>7. \A i \in SignalSamples(t) : Run(u, i) = Run(t, i)
  <2>1. \A i \in SignalSamples(t) : ~Sounding(t, i)
    BY SoundingNow
  <2> QED
    BY <2>1, RunAppend
<1>8. Sounding(u, a)
  BY <1>5 DEF Sounding
<1>9. Run(u, a) = {a}
  <2>1. Run(u, a) = {j \in SignalSamples(u) : j >= a}
    BY <1>5, <1>8, RunSounding
  <2> QED
    BY <1>5, <2>1
<1>10. Max(Run(u, a)) = a
  <2>1. {a} \subseteq Nat /\ a \in {a} /\ \A j \in {a} : j <= a
    OBVIOUS
  <2>2. Max({a}) = a
    BY <2>1, MaxOf
  <2> QED
    BY <1>9, <2>2
<1>11. Reached(u)
  <2> SUFFICES ASSUME NEW j \in SignalSamples(u), u[j].rank > 0 PROVE \E i \in Opens(u) : j \in Run(u, i)
    BY DEF Reached
  <2>1. CASE j = a
    BY <1>6, <1>9, <2>1
  <2>2. CASE j # a
    <3>1. j \in SignalSamples(t) /\ t[j].rank > 0
      BY <1>5, <2>2
    <3>2. PICK i \in Opens(t) : j \in Run(t, i)
      BY <3>1 DEF SignalInv, Reached
    <3> QED
      BY <1>6, <1>7, <3>2, OpensIs
  <2> QED
    BY <2>1, <2>2
<1>12. SumOver(Lengths(u)) = SumOver(Lengths(t))
  <2>1. DOMAIN Lengths(t) = DOMAIN Lengths(u) \ {a} /\ a \in DOMAIN Lengths(u)
    BY <1>6 DEF Lengths
  <2>2. \A i \in DOMAIN Lengths(t) : Lengths(t)[i] = Lengths(u)[i]
    <3>1. \A i \in Opens(t) : HeldFor(u, i) = HeldFor(t, i)
      BY <1>7, OpensIs, HeldAppend
    <3> QED
      BY <1>6, <3>1 DEF Lengths
  <2>3. Lengths(u)[a] = 0
    <3>1. HeldFor(u, a) = Lapse(s.stamp, s.stamp)
      BY <1>5, <1>10 DEF HeldFor
    <3>2. Lapse(s.stamp, s.stamp) = 0
      <4>1. Lapse(s.stamp, s.stamp) = IF s.stamp >= s.stamp THEN s.stamp - s.stamp ELSE 0
        BY <1>3, LapseIs
      <4> QED
        BY <1>3, <4>1
    <3> QED
      BY <1>6, <3>1, <3>2 DEF Lengths
  <2>4. SumOver(Lengths(u)) = SumOver(Lengths(t)) + Lengths(u)[a] /\ SumOver(Lengths(t)) \in Int
    BY <1>5, <2>1, <2>2, OpensIs, SumWithout, SumType
  <2> QED
    BY <2>3, <2>4
<1>13. g.seconds + Lasted(g.signal) = SumOver(Lengths(u))
  <2>1. g.signal \in Signals /\ NoSignal \in Signals
    BY FactsStep, NumbersAre, <1>2
  <2>2. Lasted(g.signal) = 0 /\ Lasted(NoSignal) = 0
    BY <1>3, <1>4, <2>1, LastedIs DEF NoSignal
  <2>3. f.seconds + Lasted(f.signal) = SumOver(Lengths(t))
    BY DEF SignalInv
  <2> QED
    BY <1>2, <1>4, <1>12, <2>2, <2>3
<1>14. g.episodes = Cardinality(Opens(u)) /\ g.escalations = Cardinality(Strengthens(u))
  BY <1>4, <1>6, AddPlace DEF SignalInv
<1>15. OpenInv(u, g)
  <2>1. Before(u, Len(u) + 1) = s.rank
    <3>1. Len(u) + 1 = Len(t) + 2
      BY AppendIs
    <3> QED
      BY <3>1, BeforeAppend
  <2>2. a \in Opens(u) /\ u[Max(Run(u, a))] = s
    BY <1>5, <1>6, <1>10
  <2> QED
    BY <1>3, <1>4, <1>5, <1>8, <2>1, <2>2 DEF OpenInv
<1>16. MostIs(g.worst, Ranks(u))
  BY <1>4, WorstAppend DEF SignalInv
<1> QED
  BY <1>11, <1>13, <1>14, <1>15, <1>16 DEF SignalInv

\* An episode goes on.
LEMMA SignalStays ==
    ASSUME NEW t \in Seq(Shots), NEW s \in Shots, NEW u, Longer(t, s, u),
           NEW f \in FactsSet, NEW g, g = ObserveFacts(f, s), SignalInv(t, f),
           s.kind = "ok", s.rank > 0, Before(t, Len(t) + 1) > 0
    PROVE  SignalInv(u, g)
<1>1. PICK n \in Nat : n = Len(t)
  OBVIOUS
<1> DEFINE a == n + 1
           now == Before(t, n + 1)
<1>2. now \in Nat /\ now > 0
  BY <1>1, BeforeType
<1>3. PICK o \in Opens(t) : /\ Sounding(t, o) /\ f.signal.open = t[o].stamp
                            /\ f.signal.last = t[Max(Run(t, o))].stamp /\ f.signal.rank = now
  BY <1>1, <1>2 DEF SignalInv, OpenInv
<1>4. s.rank \in Nat /\ s.stamp \in Nat /\ f.worst \in Nat /\ f.episodes \in Nat /\ f.escalations \in Nat
  BY ShotIs, NumbersAre
<1>5. o \in SignalSamples(t) /\ t[o].stamp \in Nat /\ t[o].stamp > 0 /\ o \in 1..n
  BY <1>1, OpensIs, OkIs
<1>6. /\ g.episodes = f.episodes /\ g.escalations = f.escalations + (IF s.rank > now THEN 1 ELSE 0)
      /\ g.worst = (IF s.rank > f.worst THEN s.rank ELSE f.worst) /\ g.seconds = f.seconds
      /\ g.signal.open = t[o].stamp /\ g.signal.last = s.stamp /\ g.signal.rank = s.rank
  <2>1. AlertStep(f, s, g)
    BY FactsStep
  <2>2. f.signal.open # 0
    BY <1>3, <1>5
  <2> QED
    BY <1>3, <1>4, <2>1, <2>2 DEF AlertStep
<1>7. /\ SignalSamples(u) = SignalSamples(t) \cup {a} /\ u[a] = s /\ u \in Seq(Shots)
      /\ (\A i \in SignalSamples(t) : u[i] = t[i]) /\ SignalSamples(t) \subseteq 1..n
  BY <1>1, OkAppend, OkIs
<1>8. Opens(u) = Opens(t) /\ Strengthens(u) = (IF s.rank > now THEN Strengthens(t) \cup {a} ELSE Strengthens(t))
  BY <1>1, <1>2, OpensAppend, StrengthensAppend
<1>9. Run(u, o) = Run(t, o) \cup {a} /\ Run(t, o) \subseteq 1..n
  <2>1. Run(u, o) = Run(t, o) \cup {a}
    BY <1>1, <1>3, <1>5, RunAppend
  <2>2. Run(t, o) \subseteq SignalSamples(t)
    BY <1>5, OpensIs, RunIs
  <2> QED
    BY <1>7, <2>1, <2>2
<1>10. Max(Run(u, o)) = a
  <2>1. Run(u, o) \subseteq Nat /\ a \in Run(u, o) /\ \A j \in Run(u, o) : j <= a
    BY <1>9
  <2> QED
    BY <2>1, MaxOf
<1>11. \A i \in Opens(t) : i # o => Run(u, i) = Run(t, i)
  <2>1. \A i \in Opens(t) : i # o => ~Sounding(t, i)
    BY <1>3, OneSounding
  <2> QED
    BY <2>1, OpensIs, RunAppend
<1>12. Reached(u)
  <2> SUFFICES ASSUME NEW j \in SignalSamples(u), u[j].rank > 0 PROVE \E i \in Opens(u) : j \in Run(u, i)
    BY DEF Reached
  <2>1. CASE j = a
    BY <1>8, <1>9, <2>1
  <2>2. CASE j # a
    <3>1. j \in SignalSamples(t) /\ t[j].rank > 0
      BY <1>7, <2>2
    <3>2. PICK i \in Opens(t) : j \in Run(t, i)
      BY <3>1 DEF SignalInv, Reached
    <3>3. j \in Run(u, i)
      BY <1>9, <1>11, <3>2
    <3> QED
      BY <1>8, <3>3
  <2> QED
    BY <2>1, <2>2
<1>13. HeldFor(u, o) = Lasted(g.signal) /\ HeldFor(t, o) = Lasted(f.signal)
  <2>1. HeldFor(u, o) = Lapse(t[o].stamp, s.stamp)
    BY <1>5, <1>7, <1>10 DEF HeldFor
  <2>2. HeldFor(t, o) = Lapse(f.signal.open, f.signal.last)
    BY <1>3 DEF HeldFor
  <2> QED
    BY <1>6, <2>1, <2>2 DEF Lasted, Lapse
<1>14. SumOver(Lengths(u)) = SumOver(Lengths(t)) - HeldFor(t, o) + HeldFor(u, o)
  <2> DEFINE rest == [i \in Opens(t) \ {o} |-> HeldFor(t, i)]
  <2>1. DOMAIN rest = DOMAIN Lengths(t) \ {o} /\ DOMAIN rest = DOMAIN Lengths(u) \ {o} /\ o \in DOMAIN Lengths(u)
    BY <1>8 DEF Lengths
  <2>2. \A i \in DOMAIN rest : rest[i] = Lengths(t)[i] /\ rest[i] = Lengths(u)[i]
    <3>1. \A i \in Opens(t) : i # o => HeldFor(u, i) = HeldFor(t, i)
      BY <1>11, HeldAppend
    <3> QED
      BY <1>8, <3>1 DEF Lengths
  <2>3. Summable(Lengths(t)) /\ Summable(Lengths(u)) /\ o \in DOMAIN Lengths(t)
    BY <1>7, OpensIs
  <2> HIDE DEF rest
  <2>4. SumOver(Lengths(t)) = SumOver(rest) + Lengths(t)[o] /\ Summable(rest)
    BY <2>1, <2>2, <2>3, SumWithout
  <2>5. SumOver(Lengths(u)) = SumOver(rest) + Lengths(u)[o]
    BY <2>1, <2>2, <2>3, SumWithout
  <2>6. SumOver(rest) \in Int /\ Lengths(t)[o] = HeldFor(t, o) /\ Lengths(u)[o] = HeldFor(u, o)
    BY <1>8, <2>4, SumType DEF Lengths
  <2>7. HeldFor(t, o) \in Nat /\ HeldFor(u, o) \in Nat
    BY <1>7, <1>8, OpensIs
  <2> QED
    BY <2>4, <2>5, <2>6, <2>7
<1>15. g.seconds + Lasted(g.signal) = SumOver(Lengths(u))
  <2>1. f.seconds + Lasted(f.signal) = SumOver(Lengths(t))
    BY DEF SignalInv
  <2>2. f.seconds \in Nat /\ Lasted(f.signal) \in Nat /\ Lasted(g.signal) \in Nat
    BY FactsStep, NumbersAre, LastedIs
  <2> QED
    BY <1>6, <1>13, <1>14, <2>1, <2>2
<1>16. g.episodes = Cardinality(Opens(u)) /\ g.escalations = Cardinality(Strengthens(u))
  <2>1. Strengthens(t) \subseteq 1..n
    BY <1>1, OpensIs
  <2>2. Cardinality(Strengthens(t)) \in Nat /\ Cardinality(Strengthens(t) \cup {a}) = Cardinality(Strengthens(t)) + 1
    BY <2>1, AddPlace
  <2>3. f.episodes = Cardinality(Opens(t)) /\ f.escalations = Cardinality(Strengthens(t))
    BY DEF SignalInv
  <2>4. CASE s.rank > now
    BY <1>6, <1>8, <2>2, <2>3, <2>4
  <2>5. CASE ~(s.rank > now)
    BY <1>4, <1>6, <1>8, <2>3, <2>5
  <2> QED
    BY <2>4, <2>5
<1>17. OpenInv(u, g)
  <2>1. Before(u, Len(u) + 1) = s.rank
    <3>1. Len(u) + 1 = Len(t) + 2
      BY AppendIs
    <3> QED
      BY <3>1, BeforeAppend
  <2>2. o \in Opens(u) /\ u[Max(Run(u, o))] = s /\ u[o] = t[o]
    BY <1>5, <1>7, <1>8, <1>10
  <2>3. Sounding(u, o)
    BY <1>3, <1>5, SoundingAppend
  <2>4. /\ g.signal.open = u[o].stamp /\ g.signal.last = u[Max(Run(u, o))].stamp
        /\ g.signal.rank = Before(u, Len(u) + 1) /\ Before(u, Len(u) + 1) # 0
    BY <1>4, <1>6, <2>1, <2>2
  <2> QED
    BY <2>2, <2>3, <2>4 DEF OpenInv
<1>18. MostIs(g.worst, Ranks(u))
  BY <1>6, WorstAppend DEF SignalInv
<1> QED
  BY <1>12, <1>15, <1>16, <1>17, <1>18 DEF SignalInv

\* Observing a sample keeps the episodes, escalations, seconds and the worst tier.
LEMMA SignalKept ==
    ASSUME NEW t \in Seq(Shots), NEW s \in Shots, NEW u, Longer(t, s, u),
           NEW f \in FactsSet, NEW g, g = ObserveFacts(f, s), SignalInv(t, f)
    PROVE  SignalInv(u, g)
<1>1. Before(t, Len(t) + 1) \in Nat /\ s.rank \in Nat
  BY OkIs, BeforeType, ShotIs
<1>2. CASE s.kind # "ok"
  BY <1>2, SignalUnseen
<1>3. CASE s.kind = "ok" /\ s.rank = 0
  BY <1>3, SignalClears
<1>4. CASE s.kind = "ok" /\ s.rank > 0 /\ Before(t, Len(t) + 1) = 0
  BY <1>4, SignalRaised
<1>5. CASE s.kind = "ok" /\ s.rank > 0 /\ Before(t, Len(t) + 1) > 0
  BY <1>5, SignalStays
<1> QED
  BY <1>1, <1>2, <1>3, <1>4, <1>5

-----------------------------------------------------------------------------
(* The time that was evaluated                                             *)

\* Where a sample follows one as P says.
Pairs(t, P) == {i \in 2..Len(t) : <<t[i - 1], t[i]>> \in P}
Lapses(t, S) == [i \in S |-> Lapse(t[i - 1].stamp, t[i].stamp)]

Adjacent == {p \in Shots \X Shots : p[1].kind = "ok" /\ p[2].kind = "ok" /\ ~p[2].reset}
Judged == {p \in Adjacent : p[2].judged}
Warmed == {p \in Adjacent : ~p[2].warming /\ ~p[1].warming}

ElapsedInv(t, f) ==
    /\ f.previous = IF Len(t) > 0 /\ t[Len(t)].kind = "ok" THEN <<t[Len(t)]>> ELSE <<>>
    /\ f.evaluated = SumOver(Lapses(t, Pairs(t, Judged)))
    /\ f.afterWarmup = SumOver(Lapses(t, Pairs(t, Warmed)))

\* The time between neighbours is summable.
LEMMA LapsesAre ==
    ASSUME NEW t \in Seq(Shots), NEW S, S \subseteq 2..Len(t)
    PROVE  /\ Summable(Lapses(t, S)) /\ DOMAIN Lapses(t, S) = S /\ SumOver(Lapses(t, S)) \in Int
           /\ \A i \in S : Lapses(t, S)[i] \in Nat
<1>1. S \subseteq 1..Len(t) /\ Len(t) \in Nat
  OBVIOUS
<1>2. IsFiniteSet(S) /\ S \subseteq Nat
  BY <1>1, PlacesFinite
<1>3. \A i \in S : t[i] \in Shots /\ t[i - 1] \in Shots
  OBVIOUS
<1>4. \A i \in S : Lapse(t[i - 1].stamp, t[i].stamp) \in Nat
  BY <1>3, ShotIs, LapseIs
<1>5. Summable(Lapses(t, S)) /\ DOMAIN Lapses(t, S) = S /\ \A i \in S : Lapses(t, S)[i] \in Nat
  BY <1>2, <1>4 DEF Summable, Lapses
<1> QED
  BY <1>5, SumType

\* One sample more adds the time since its neighbour, if the pair counts.
LEMMA LapsesAppend ==
    ASSUME NEW t \in Seq(Shots), NEW s \in Shots, NEW u, Longer(t, s, u), NEW P
    PROVE  SumOver(Lapses(u, Pairs(u, P))) =
             SumOver(Lapses(t, Pairs(t, P))) + (IF Len(t) > 0 /\ <<t[Len(t)], s>> \in P THEN Lapse(t[Len(t)].stamp, s.stamp) ELSE 0)
<1>1. PICK n \in Nat : n = Len(t)
  OBVIOUS
<1>2. /\ u \in Seq(Shots) /\ Len(u) = n + 1 /\ u[n + 1] = s /\ 1..n + 1 = 1..n \cup {n + 1}
      /\ \A i \in 1..n : u[i] = t[i] /\ t[i] \in Shots
  BY <1>1, AppendIs
<1>3. PICK S : S = Pairs(t, P)
  OBVIOUS
<1>4. PICK T : T = Pairs(u, P)
  OBVIOUS
<1>5. S \subseteq 2..Len(t) /\ T \subseteq 2..Len(u) /\ n + 1 \notin S
  BY <1>1, <1>3, <1>4 DEF Pairs
<1>6. ASSUME NEW i \in 2..n PROVE i \in T <=> i \in S
  <2>1. i \in 1..n /\ i - 1 \in 1..n /\ i \in 2..n + 1
    OBVIOUS
  <2>2. u[i] = t[i] /\ u[i - 1] = t[i - 1]
    BY <1>2, <2>1
  <2>3. i \in T <=> <<u[i - 1], u[i]>> \in P
    BY <1>2, <1>4, <2>1 DEF Pairs
  <2>4. i \in S <=> <<t[i - 1], t[i]>> \in P
    BY <1>1, <1>3 DEF Pairs
  <2> QED
    BY <2>2, <2>3, <2>4
<1>7. n + 1 \in T <=> n > 0 /\ <<t[n], s>> \in P
  <2>4. \A i : i \in T <=> i \in 2..n + 1 /\ <<u[i - 1], u[i]>> \in P
    BY <1>2, <1>4, Zenon DEF Pairs
  <2>5. PICK m : m = n + 1
    OBVIOUS
  <2>6. m \in T <=> m \in 2..n + 1 /\ <<u[m - 1], u[m]>> \in P
    BY <2>4
  <2>7. m - 1 = n
    BY <2>5
  <2>1. n + 1 \in T <=> n + 1 \in 2..n + 1 /\ <<u[n], u[n + 1]>> \in P
    BY <2>5, <2>6, <2>7
  <2>2. n + 1 - 1 = n /\ (n + 1 \in 2..n + 1 <=> n > 0)
    OBVIOUS
  <2>3. n > 0 => u[n] = t[n]
    BY <1>2
  <2> QED
    BY <1>2, <2>1, <2>2, <2>3
<1>11. \A i : i \in 2..n + 1 <=> i \in 2..n \/ (i = n + 1 /\ n > 0)
  OBVIOUS
<1>12. \A i : i \in T => i \in 2..n + 1
  BY <1>2, <1>5
<1>13. \A i : i \in S => i \in 2..n
  BY <1>1, <1>5
<1>8. \A i \in S : Lapses(u, T)[i] = Lapses(t, S)[i]
  <2>1. S \subseteq T
    BY <1>1, <1>5, <1>6
  <2> QED
    BY <1>1, <1>2, <1>5, <2>1 DEF Lapses
<1>9. CASE n > 0 /\ <<t[n], s>> \in P
  <2>1. T = S \cup {n + 1}
    <3>1. \A i : i \in T <=> i \in S \/ i = n + 1
      BY <1>6, <1>7, <1>9, <1>11, <1>12, <1>13
    <3> QED
      BY <3>1
  <2>2. SumOver(Lapses(u, T)) = SumOver(Lapses(t, S)) + Lapses(u, T)[n + 1]
    <3>1. Summable(Lapses(u, T)) /\ DOMAIN Lapses(u, T) = T /\ DOMAIN Lapses(t, S) = S
      BY <1>2, <1>5, LapsesAre
    <3>2. n + 1 \in DOMAIN Lapses(u, T) /\ DOMAIN Lapses(t, S) = DOMAIN Lapses(u, T) \ {n + 1}
      BY <1>5, <2>1, <3>1
    <3>3. \A i \in DOMAIN Lapses(t, S) : Lapses(t, S)[i] = Lapses(u, T)[i]
      BY <1>8, <3>1
    <3> QED
      BY <3>1, <3>2, <3>3, SumWithout
  <2>3. Lapses(u, T)[n + 1] = Lapse(t[n].stamp, s.stamp)
    BY <1>2, <1>9, <2>1 DEF Lapses
  <2> QED
    BY <1>1, <1>3, <1>4, <1>9, <2>2, <2>3
<1>10. CASE ~(n > 0 /\ <<t[n], s>> \in P)
  <2>1. T = S
    <3>1. \A i : i \in T <=> i \in S
      BY <1>6, <1>7, <1>10, <1>11, <1>12, <1>13
    <3> QED
      BY <3>1
  <2>2. Lapses(u, T) = Lapses(t, S)
    BY <1>1, <1>2, <1>5, <2>1 DEF Lapses
  <2>3. SumOver(Lapses(t, S)) \in Int
    BY <1>5, LapsesAre
  <2> QED
    BY <1>1, <1>3, <1>4, <1>10, <2>2, <2>3
<1> QED
  BY <1>9, <1>10

\* Observing a sample keeps the time that was evaluated and the time after the warm-up.
LEMMA ElapsedKept ==
    ASSUME NEW t \in Seq(Shots), NEW s \in Shots, NEW u, Longer(t, s, u),
           NEW f \in FactsSet, NEW g, g = ObserveFacts(f, s), ElapsedInv(t, f)
    PROVE  ElapsedInv(u, g)
<1>1. PICK n \in Nat : n = Len(t)
  OBVIOUS
<1>2. /\ Len(u) = n + 1 /\ u[n + 1] = s /\ \A i \in 1..n : t[i] \in Shots
  BY <1>1, AppendIs
<1> DEFINE Sum(v, P) == SumOver(Lapses(v, Pairs(v, P)))
           More(P) == IF n > 0 /\ <<t[n], s>> \in P THEN Lapse(t[n].stamp, s.stamp) ELSE 0
<1>3. /\ Sum(u, Judged) = Sum(t, Judged) + More(Judged)
      /\ Sum(u, Warmed) = Sum(t, Warmed) + More(Warmed)
  BY <1>1, LapsesAppend
<1>4. f.previous = (IF n > 0 /\ t[n].kind = "ok" THEN <<t[n]>> ELSE <<>>)
      /\ f.evaluated = Sum(t, Judged) /\ f.afterWarmup = Sum(t, Warmed)
  BY <1>1 DEF ElapsedInv
<1>5. s.kind \in {"ok", "paused", "failed"} /\ f.evaluated \in Nat /\ f.afterWarmup \in Nat
  BY ShotIs, NumbersAre
<1> HIDE DEF Sum
<1>6. CASE s.kind # "ok"
  <2>1. g.previous = <<>> /\ g.evaluated = f.evaluated /\ g.afterWarmup = f.afterWarmup
    BY <1>5, <1>6, FactsStep DEF RestStep, SameElapsed
  <2>2. More(Judged) = 0 /\ More(Warmed) = 0
    BY <1>6 DEF Judged, Warmed, Adjacent
  <2> QED
    BY <1>2, <1>3, <1>4, <1>5, <1>6, <2>1, <2>2 DEF ElapsedInv, Sum
<1>7. CASE s.kind = "ok"
  <2>1. g.previous = <<s>> /\ TimeStep(f, s, f.previous, g)
    BY <1>7, FactsStep DEF CollectedStep
  <2>2. CASE ~(n > 0 /\ t[n].kind = "ok") \/ s.reset
    <3>1. g.evaluated = f.evaluated /\ g.afterWarmup = f.afterWarmup
      BY <1>4, <2>1, <2>2 DEF TimeStep, SameElapsed
    <3>2. More(Judged) = 0 /\ More(Warmed) = 0
      BY <2>2 DEF Judged, Warmed, Adjacent
    <3> QED
      BY <1>2, <1>3, <1>4, <1>5, <1>7, <2>1, <3>1, <3>2 DEF ElapsedInv, Sum
  <2>3. CASE n > 0 /\ t[n].kind = "ok" /\ ~s.reset
    <3>1. f.previous # <<>> /\ f.previous[1] = t[n] /\ t[n] \in Shots
      BY <1>2, <1>4, <2>3
    <3>2. /\ g.evaluated = f.evaluated + (IF s.judged THEN Lapse(t[n].stamp, s.stamp) ELSE 0)
          /\ g.afterWarmup = f.afterWarmup + (IF s.warming \/ t[n].warming THEN 0 ELSE Lapse(t[n].stamp, s.stamp))
      BY <2>1, <2>3, <3>1 DEF TimeStep
    <3>3. <<t[n], s>> \in Adjacent
      BY <1>7, <2>3, <3>1 DEF Adjacent
    <3>4. More(Judged) = IF s.judged THEN Lapse(t[n].stamp, s.stamp) ELSE 0
      BY <2>3, <3>3 DEF Judged
    <3>5. More(Warmed) = IF s.warming \/ t[n].warming THEN 0 ELSE Lapse(t[n].stamp, s.stamp)
      BY <2>3, <3>3 DEF Warmed
    <3> QED
      BY <1>2, <1>3, <1>4, <1>7, <2>1, <3>2, <3>4, <3>5 DEF ElapsedInv, Sum
  <2> QED
    BY <2>2, <2>3
<1> QED
  BY <1>6, <1>7

-----------------------------------------------------------------------------
(* The record as it grows                                                  *)

FactsInv(t, f) == CountsInv(t, f) /\ EndsInv(t, f) /\ PeakInv(t, f) /\ SignalInv(t, f) /\ ElapsedInv(t, f)

\* The facts are those of the samples so far.
RecordInv == all \in Seq(Shots) /\ facts \in FactsSet /\ FactsInv(all, facts)

\* Observing a sample keeps the facts true of all samples.
LEMMA FactsKept ==
    ASSUME NEW t \in Seq(Shots), NEW s \in Shots, NEW u, Longer(t, s, u),
           NEW f \in FactsSet, NEW g, g = ObserveFacts(f, s), FactsInv(t, f)
    PROVE  u \in Seq(Shots) /\ g \in FactsSet /\ FactsInv(u, g)
<1>1. CountsInv(t, f) /\ EndsInv(t, f) /\ PeakInv(t, f) /\ SignalInv(t, f) /\ ElapsedInv(t, f)
  BY DEF FactsInv
<1>2. u \in Seq(Shots) /\ g \in FactsSet
  BY AppendIs, FactsStep
<1>3. CountsInv(u, g)
  BY <1>1, CountsKept
<1>4. EndsInv(u, g)
  BY <1>1, EndsKept
<1>5. PeakInv(u, g)
  BY <1>1, PeakKept
<1>6. SignalInv(u, g)
  BY <1>1, SignalKept
<1>7. ElapsedInv(u, g)
  BY <1>1, ElapsedKept
<1> QED
  BY <1>2, <1>3, <1>4, <1>5, <1>6, <1>7 DEF FactsInv

\* The facts are true of no samples.
LEMMA FactsStart == <<>> \in Seq(Shots) /\ EmptyFacts \in FactsSet /\ FactsInv(<<>>, EmptyFacts)
<1> DEFINE t == <<>>
           f == EmptyFacts
<1>1. t \in Seq(Shots) /\ Len(t) = 0 /\ t = <<>>
  OBVIOUS
<1>2. NoSignal \in Signals /\ <<>> \in Lately
  BY DEF NoSignal, Signals, Lately
<1>3. f \in FactsSet
  BY <1>2 DEF EmptyFacts, FactsSet
<1>4. /\ f.taken = 0 /\ f.collected = 0 /\ f.failed = 0 /\ f.measured = 0 /\ f.full = 0 /\ f.partial = 0
      /\ f.peak = 0 /\ f.worst = 0 /\ f.episodes = 0 /\ f.escalations = 0 /\ f.seconds = 0
      /\ f.signal = NoSignal /\ f.previous = <<>> /\ f.evaluated = 0 /\ f.afterWarmup = 0
  BY DEF EmptyFacts
<1> HIDE DEF t, f
<1>5. Cardinality({}) = 0
  BY FS_EmptySet
<1>6. \A C : At(t, C) = {}
  BY <1>1 DEF At
<1>7. SignalSamples(t) = {}
  <2>1. SignalSamples(t) = {i \in 1..0 : t[i].kind = "ok"}
    BY <1>1, OkIs
  <2> QED
    BY <2>1
<1>13. \A C : Cardinality(At(t, C)) = 0
  BY <1>5, <1>6, Zenon
<1>8. CountsInv(t, f)
  BY <1>1, <1>4, <1>13 DEF CountsInv
<1>9. EndsInv(t, f)
  BY <1>1 DEF EndsInv
<1>10. PeakInv(t, f)
  <2> DEFINE S == {t[i].value : i \in {i \in 1..Len(t) : MeasuredMetric(t[i])}}
  <2>1. S = {}
    BY <1>1
  <2> HIDE DEF S
  <2>2. MostIs(f.peak, S)
    BY <1>4, <2>1 DEF MostIs
  <2> QED
    BY <2>2 DEF PeakInv, S
<1>11. SignalInv(t, f)
  <2>1. Opens(t) = {} /\ Strengthens(t) = {} /\ Ranks(t) = {} /\ Reached(t)
    BY <1>7 DEF Opens, Strengthens, Ranks, Reached
  <2>2. SumOver(Lengths(t)) = 0
    <3>1. Summable(Lengths(t)) /\ DOMAIN Lengths(t) = {}
      BY <1>1, <2>1, OpensIs
    <3> QED
      BY <3>1, SumZero DEF Summable
  <2>3. Before(t, Len(t) + 1) = 0
    BY <1>7, BeforeNone
  <2>4. Lasted(f.signal) = 0
    <3>1. f.signal \in Signals /\ f.signal.last = 0 /\ f.signal.open = 0
      BY <1>2, <1>4 DEF NoSignal
    <3> QED
      BY <3>1, LastedIs
  <2>5. OpenInv(t, f)
    BY <1>4, <2>3 DEF OpenInv
  <2>6. MostIs(f.worst, Ranks(t))
    BY <1>4, <2>1 DEF MostIs
  <2> QED
    BY <1>4, <1>5, <2>1, <2>2, <2>4, <2>5, <2>6 DEF SignalInv
<1>12. ElapsedInv(t, f)
  <2>1. ASSUME NEW P PROVE SumOver(Lapses(t, Pairs(t, P))) = 0
    <3>1. Pairs(t, P) = {} /\ Pairs(t, P) \subseteq 2..Len(t)
      BY <1>1 DEF Pairs
    <3>2. Summable(Lapses(t, Pairs(t, P))) /\ DOMAIN Lapses(t, Pairs(t, P)) = {}
      BY <1>1, <3>1, LapsesAre
    <3> QED
      BY <3>2, SumZero DEF Summable
  <2> QED
    BY <1>1, <1>4, <2>1 DEF ElapsedInv
<1> QED
  BY <1>1, <1>3, <1>8, <1>9, <1>10, <1>11, <1>12 DEF FactsInv, t, f

\* What is published is a sample, with the stamp it was given.
LEMMA PublishedIs ==
    ASSUME all \in Seq(Shots), NEW raw \in Samples, NEW stamp \in Nat \ {0}
    PROVE  Published(raw, stamp) \in Shots
<1>1. /\ raw.kind \in {"ok", "paused", "failed"} /\ raw.rank \in Nat /\ raw.live \in Nat /\ raw.seen \in Nat
      /\ raw.value \in Nat /\ raw.warming \in BOOLEAN /\ raw.alive \in BOOLEAN /\ raw.judged \in BOOLEAN
      /\ raw.reset \in BOOLEAN /\ raw.seen <= raw.live
  BY RecordAssumption
<1> DEFINE shown == IF raw.kind = "paused" /\ SignalSamples(all) # {} THEN all[Max(SignalSamples(all))] ELSE raw
<1>2. /\ shown.rank \in Nat /\ shown.live \in Nat /\ shown.seen \in Nat
      /\ shown.value \in Nat /\ shown.warming \in BOOLEAN /\ shown.seen <= shown.live
  <2>1. CASE raw.kind = "paused" /\ SignalSamples(all) # {}
    <3>1. Max(SignalSamples(all)) \in SignalSamples(all)
      BY <2>1, OkIs, MaxIs
    <3>2. all[Max(SignalSamples(all))] \in Shots
      BY <3>1, OkIs
    <3> QED
      BY <2>1, <3>2, ShotIs
  <2>2. CASE ~(raw.kind = "paused" /\ SignalSamples(all) # {})
    BY <1>1, <2>2
  <2> QED
    BY <2>1, <2>2
<1> HIDE DEF shown
<1> DEFINE alive == raw.alive /\ (all = <<>> \/ Last(all).alive)
           judged == raw.judged /\ raw.kind = "ok"
<1>3. alive \in BOOLEAN /\ judged \in BOOLEAN
  OBVIOUS
<1> HIDE DEF alive, judged
<1>4. Published(raw, stamp) =
        [stamp |-> stamp, kind |-> raw.kind, rank |-> shown.rank, live |-> shown.live, seen |-> shown.seen,
         value |-> shown.value, warming |-> shown.warming, judged |-> judged, reset |-> raw.reset, alive |-> alive]
  BY DEF Published, shown, alive, judged
<1> QED
  BY <1>1, <1>2, <1>3, <1>4 DEF Shots, Shot

\* The clock went on, or a sample says that it was set back.
Later(t, s) == s.reset \/ t = <<>> \/ s.stamp > t[Len(t)].stamp

\* Every step leaves the record alone or observes one more sample.
LEMMA RecordSteps ==
    ASSUME all \in Seq(Shots), [RecordNext]_recordVars
    PROVE  \/ UNCHANGED recordVars
           \/ \E s \in Shots : /\ all' = Append(all, s) /\ facts' = ObserveFacts(facts, s) /\ Later(all, s)
                               /\ \/ hist' = AppendSnapshot(hist, s) /\ marks' = Accept(marks, s)
                                  \/ UNCHANGED <<hist, marks>>
<1>1. ASSUME NEW raw \in Samples, NEW stamp \in Stamps(raw), Published(raw, stamp).stamp > 0
      PROVE  Published(raw, stamp) \in Shots /\ Later(all, Published(raw, stamp))
  <2>1. stamp \in Int /\ (raw.reset \/ all = <<>> \/ stamp > all[Len(all)].stamp)
    <3>1. CASE all = <<>>
      BY <3>1 DEF Stamps
    <3>2. CASE all # <<>>
      <4>1. Last(all) = all[Len(all)] /\ Last(all) \in Shots
        BY <3>2 DEF Last
      <4>2. Last(all).stamp \in Nat
        BY <4>1, ShotIs
      <4>3. stamp \in IF raw.reset THEN {Last(all).stamp - 3} ELSE {Last(all).stamp + 2}
        BY <3>2, Zenon DEF Stamps
      <4>4. CASE raw.reset
        BY <4>2, <4>3, <4>4
      <4>5. CASE ~raw.reset
        BY <4>1, <4>2, <4>3, <4>5
      <4> QED
        BY <4>4, <4>5
    <3> QED
      BY <3>1, <3>2
  <2>2. Published(raw, stamp).stamp = stamp /\ Published(raw, stamp).reset = raw.reset
    BY DEF Published
  <2> QED
    BY <1>1, <2>1, <2>2, PublishedIs DEF Later
<1>2. CASE Arrives
  BY <1>1, <1>2 DEF Arrives, Observed
<1>3. CASE Evicted
  BY <1>1, <1>3 DEF Evicted, Observed
<1> QED
  BY <1>2, <1>3 DEF RecordNext

\* The facts are always true of all samples published.
LEMMA RecordAlways == RecordSpec => []RecordInv
<1>1. RecordInit => RecordInv
  BY FactsStart DEF RecordInit, RecordInv
<1>2. RecordInv /\ [RecordNext]_recordVars => RecordInv'
  <2> SUFFICES ASSUME RecordInv, [RecordNext]_recordVars PROVE RecordInv'
    OBVIOUS
  <2>1. all \in Seq(Shots) /\ facts \in FactsSet /\ FactsInv(all, facts)
    BY DEF RecordInv
  <2>2. CASE UNCHANGED recordVars
    BY <2>1, <2>2 DEF RecordInv, recordVars
  <2>3. CASE \E s \in Shots : all' = Append(all, s) /\ facts' = ObserveFacts(facts, s)
    <3>1. PICK s \in Shots : all' = Append(all, s) /\ facts' = ObserveFacts(facts, s)
      BY <2>3
    <3>2. Longer(all, s, all')
      BY <3>1 DEF Longer
    <3> QED
      BY <2>1, <3>1, <3>2, FactsKept DEF RecordInv
  <2> QED
    BY <2>1, <2>2, <2>3, RecordSteps
<1> QED
  BY <1>1, <1>2, PTL DEF RecordSpec

-----------------------------------------------------------------------------
(* The facts are what reading back the samples gives                       *)

\* An episode, by the sample that opens it: its stamps, and the strongest of its run.
LEMMA EpisodesAre ==
    ASSUME NEW t \in Seq(Shots)
    PROVE  /\ DOMAIN AlertEpisodes(t) = Opens(t)
           /\ \A i \in Opens(t) :
                 /\ AlertEpisodes(t)[i].start = t[i].stamp /\ AlertEpisodes(t)[i].end = t[Max(Run(t, i))].stamp
                 /\ AlertEpisodes(t)[i].severity \in Nat
                 /\ \E j \in Run(t, i) : AlertEpisodes(t)[i].severity = t[j].rank
                 /\ \A j \in Run(t, i) : t[j].rank <= AlertEpisodes(t)[i].severity
<1>1. AlertEpisodes(t) = [i \in Opens(t) |-> [start |-> t[i].stamp, end |-> t[Max(Run(t, i))].stamp,
                                              severity |-> Max({t[j].rank : j \in Run(t, i)})]]
  BY DEF AlertEpisodes, Opens
<1>2. ASSUME NEW i \in Opens(t)
      PROVE  /\ Max({t[j].rank : j \in Run(t, i)}) \in Nat
             /\ \E j \in Run(t, i) : Max({t[k].rank : k \in Run(t, i)}) = t[j].rank
             /\ \A j \in Run(t, i) : t[j].rank <= Max({t[k].rank : k \in Run(t, i)})
  <2>1. i \in SignalSamples(t) /\ t[i].rank > 0
    BY DEF Opens
  <2>2. i \in Run(t, i) /\ Run(t, i) \subseteq SignalSamples(t) /\ IsFiniteSet(Run(t, i))
    BY <2>1, RunIs
  <2> DEFINE R == {t[j].rank : j \in Run(t, i)}
  <2>3. R \subseteq Nat /\ R # {}
    BY <2>2, OkIs
  <2>4. IsFiniteSet(R)
    <3> DEFINE rank == [j \in Run(t, i) |-> t[j].rank]
    <3>1. rank \in Surjection(Run(t, i), R)
      BY DEF Surjection
    <3> HIDE DEF rank
    <3> QED
      BY <2>2, <3>1, FS_Surjection
  <2>5. Max(R) \in R /\ \A n \in R : n <= Max(R)
    <3> HIDE DEF R
    <3> QED
      BY <2>3, <2>4, MaxIs
  <2> QED
    BY <2>3, <2>5
<1>3. DOMAIN AlertEpisodes(t) = Opens(t)
  BY <1>1
<1>4. ASSUME NEW i \in Opens(t)
      PROVE  /\ AlertEpisodes(t)[i].start = t[i].stamp /\ AlertEpisodes(t)[i].end = t[Max(Run(t, i))].stamp
             /\ AlertEpisodes(t)[i].severity = Max({t[j].rank : j \in Run(t, i)})
  BY <1>1
<1> QED
  BY <1>2, <1>3, <1>4

\* The escalations among the changes.
LEMMA ChangesAre ==
    ASSUME NEW t \in Seq(Shots)
    PROVE  {i \in DOMAIN SignalChanges(t) : SignalChanges(t)[i].change = "escalated"} = Strengthens(t)
<1>1. ASSUME NEW i \in SignalSamples(t) PROVE Before(t, i) \in Nat /\ t[i].rank \in Nat
  BY OkIs, BeforeType
<1>2. DOMAIN SignalChanges(t) = {i \in SignalSamples(t) : t[i].rank > Before(t, i)}
  BY DEF SignalChanges
<1>3. \A i \in DOMAIN SignalChanges(t) :
         SignalChanges(t)[i].change = IF Before(t, i) = 0 THEN "raised" ELSE "escalated"
  BY <1>2 DEF SignalChanges
<1>4. \A i \in DOMAIN SignalChanges(t) : SignalChanges(t)[i].change = "escalated" <=> Before(t, i) # 0
  BY <1>3
<1> QED
  BY <1>2, <1>4, Zenon DEF Strengthens

Severities(t) == {AlertEpisodes(t)[i].severity : i \in DOMAIN AlertEpisodes(t)}

\* The worst severity is the worst rank, as every signal is in an episode.
LEMMA WorstIs ==
    ASSUME NEW t \in Seq(Shots), Reached(t), NEW w, MostIs(w, Ranks(t))
    PROVE  MostIs(w, Severities(t)) /\ Severities(t) \subseteq Nat
<1>1. w \in Nat /\ (w = 0 \/ w \in Ranks(t)) /\ \A n \in Ranks(t) : n <= w
  BY DEF MostIs
<1>2. ASSUME NEW i \in Opens(t)
      PROVE  AlertEpisodes(t)[i].severity \in Nat /\ AlertEpisodes(t)[i].severity <= w
  <2>1. PICK j \in Run(t, i) : AlertEpisodes(t)[i].severity = t[j].rank
    BY EpisodesAre
  <2>2. j \in SignalSamples(t)
    BY RunIs DEF Opens
  <2>3. t[j].rank \in Ranks(t) /\ t[j].rank \in Nat
    BY <2>2, OkIs DEF Ranks
  <2> QED
    BY <1>1, <2>1, <2>3
<1>3. ASSUME w # 0 PROVE w \in Severities(t)
  <2>1. PICK j \in SignalSamples(t) : w = t[j].rank
    BY <1>1, <1>3 DEF Ranks
  <2>2. PICK i \in Opens(t) : j \in Run(t, i)
    BY <1>1, <1>3, <2>1 DEF Reached
  <2>3. w <= AlertEpisodes(t)[i].severity
    BY <2>1, <2>2, EpisodesAre
  <2>4. w = AlertEpisodes(t)[i].severity
    BY <1>1, <1>2, <2>3
  <2> QED
    BY <2>4, EpisodesAre DEF Severities
<1>4. \A n \in Severities(t) : n \in Nat /\ n <= w
  BY <1>2, EpisodesAre DEF Severities
<1> QED
  BY <1>1, <1>3, <1>4 DEF MostIs

\* How long episodes lasted, by their stamps.
LEMMA HeldAre ==
    ASSUME NEW t \in Seq(Shots)
    PROVE  [i \in DOMAIN AlertEpisodes(t) |-> Max({0, AlertEpisodes(t)[i].end - AlertEpisodes(t)[i].start})] = Lengths(t)
<1>1. \A i \in Opens(t) : Max({0, AlertEpisodes(t)[i].end - AlertEpisodes(t)[i].start}) = HeldFor(t, i)
  BY EpisodesAre DEF HeldFor, Lapse
<1> QED
  BY <1>1, EpisodesAre DEF Lengths

\* Time between neighbours, as the property sums it up.
LEMMA SpansAre ==
    ASSUME all \in Seq(Shots)
    PROVE  /\ Span({i \in Neighbours : all[i].judged}) = SumOver(Lapses(all, Pairs(all, Judged)))
           /\ Span({i \in Neighbours : ~all[i].warming /\ ~all[i - 1].warming}) = SumOver(Lapses(all, Pairs(all, Warmed)))
<1>1. ASSUME NEW i \in 2..Len(all) PROVE all[i] \in Shots /\ all[i - 1] \in Shots
  OBVIOUS
<1>2. ASSUME NEW i \in 2..Len(all)
      PROVE  /\ <<all[i - 1], all[i]>> \in Adjacent <=> i \in Neighbours
             /\ <<all[i - 1], all[i]>> \in Judged <=> i \in Neighbours /\ all[i].judged
             /\ <<all[i - 1], all[i]>> \in Warmed <=> i \in Neighbours /\ ~all[i].warming /\ ~all[i - 1].warming
  <2>1. <<all[i - 1], all[i]>> \in Adjacent <=> i \in Neighbours
    BY <1>1 DEF Adjacent, Neighbours
  <2> QED
    BY <2>1 DEF Judged, Warmed
<1>3. Pairs(all, Judged) = {i \in Neighbours : all[i].judged}
  <2>1. \A i : i \in Pairs(all, Judged) <=> i \in Neighbours /\ all[i].judged
    BY <1>2 DEF Pairs, Neighbours
  <2> QED
    BY <2>1
<1>4. Pairs(all, Warmed) = {i \in Neighbours : ~all[i].warming /\ ~all[i - 1].warming}
  <2>1. \A i : i \in Pairs(all, Warmed) <=> i \in Neighbours /\ ~all[i].warming /\ ~all[i - 1].warming
    BY <1>2 DEF Pairs, Neighbours
  <2> QED
    BY <2>1
<1>5. \A S : Span(S) = SumOver(Lapses(all, S))
  BY DEF Span, Lapses, Lapse
<1> QED
  BY <1>3, <1>4, <1>5

\* Coverage, as the property counts it.
LEMMA CoverageIs ==
    ASSUME all \in Seq(Shots), CountsInv(all, facts), facts \in FactsSet
    PROVE  LET measured == {i \in DOMAIN all : Measured(all[i])} IN
           /\ facts.collected = Cardinality(SignalSamples(all))
           /\ facts.partial = Cardinality({i \in measured : Partial(all[i])})
           /\ FullCoverage(facts) = (/\ measured # {}
                                     /\ \A i \in measured : ~Partial(all[i])
                                     /\ \A i \in DOMAIN all : all[i].kind # "failed")
<1> DEFINE measured == {i \in DOMAIN all : Measured(all[i])}
<1>1. DOMAIN all = 1..Len(all) /\ \A i \in 1..Len(all) : all[i] \in Shots /\ all[i].live \in Nat
  BY ShotIs
<1>2. SignalSamples(all) = At(all, Collected)
  BY <1>1 DEF SignalSamples, At, Collected
<1>3. measured = At(all, LiveShots)
  BY <1>1 DEF Measured, At, LiveShots
<1>4. {i \in measured : Partial(all[i])} = At(all, Lossy)
  BY <1>1 DEF Measured, At, LiveShots, Lossy
<1>5. (\A i \in DOMAIN all : all[i].kind # "failed") <=> At(all, Failed) = {}
  BY <1>1 DEF At, Failed
<1>6. ASSUME NEW C PROVE Cardinality(At(all, C)) \in Nat /\ (Cardinality(At(all, C)) = 0 <=> At(all, C) = {})
  <2>1. IsFiniteSet(At(all, C))
    BY PlacesFinite DEF At
  <2> QED
    BY <2>1, FS_EmptySet, FS_CardinalityType
<1>7. (\A i \in measured : ~Partial(all[i])) <=> At(all, Lossy) = {}
  BY <1>4
<1> HIDE DEF measured
<1>8. /\ facts.collected = Cardinality(At(all, Collected)) /\ facts.failed = Cardinality(At(all, Failed))
      /\ facts.measured = Cardinality(At(all, LiveShots)) /\ facts.full = Cardinality(At(all, Whole))
      /\ facts.partial = Cardinality(At(all, Lossy)) /\ facts.measured = facts.full + facts.partial
  BY DEF CountsInv
<1>9. facts.full \in Nat /\ facts.partial \in Nat /\ facts.measured \in Nat
  BY NumbersAre
<1>10. facts.full = facts.measured <=> At(all, Lossy) = {}
  BY <1>6, <1>8, <1>9
<1>14. Cardinality(measured) = 0 <=> measured = {}
  BY <1>3, <1>6, Zenon
<1>11. facts.measured > 0 <=> measured # {}
  BY <1>3, <1>8, <1>9, <1>14
<1>12. facts.failed = 0 <=> \A i \in DOMAIN all : all[i].kind # "failed"
  BY <1>5, <1>6, <1>8
<1>13. FullCoverage(facts) = (/\ measured # {}
                              /\ \A i \in measured : ~Partial(all[i])
                              /\ \A i \in DOMAIN all : all[i].kind # "failed")
  BY <1>7, <1>10, <1>11, <1>12 DEF FullCoverage
<1> QED
  BY <1>2, <1>4, <1>8, <1>13 DEF measured

\* The peak, as the property finds it.
LEMMA PeakIs ==
    ASSUME all \in Seq(Shots), PeakInv(all, facts)
    PROVE  Peak = facts.peak
<1> DEFINE S == {all[i].value : i \in {i \in 1..Len(all) : MeasuredMetric(all[i])}}
<1>1. S \subseteq Nat
  BY ShotIs
<1>2. MostIs(facts.peak, S)
  BY DEF PeakInv
<1>4. DOMAIN all = 1..Len(all)
  OBVIOUS
<1>3. Peak = Most(S)
  BY <1>4, Zenon DEF Peak
<1> HIDE DEF S
<1> QED
  BY <1>1, <1>2, <1>3, MostOf

\* What the facts hold is what reading back all samples gives.
LEMMA MatchFollows == RecordInv => FactsMatchSamples
<1> SUFFICES ASSUME RecordInv PROVE FactsMatchSamples
  OBVIOUS
<1>1. all \in Seq(Shots) /\ facts \in FactsSet /\ CountsInv(all, facts) /\ PeakInv(all, facts)
      /\ SignalInv(all, facts) /\ ElapsedInv(all, facts)
  BY DEF RecordInv, FactsInv
<1>2. facts.episodes = Cardinality(DOMAIN AlertEpisodes(all))
  BY <1>1, EpisodesAre DEF SignalInv
<1>3. facts.escalations =
        Cardinality({i \in DOMAIN SignalChanges(all) : SignalChanges(all)[i].change = "escalated"})
  BY <1>1, ChangesAre, Zenon DEF SignalInv
<1>4. SignalSeconds(facts) = SumOver([i \in DOMAIN AlertEpisodes(all) |->
                                        Max({0, AlertEpisodes(all)[i].end - AlertEpisodes(all)[i].start})])
  BY <1>1, HeldAre, Zenon DEF SignalInv, SignalSeconds
<1>5. facts.worst = Worst
  <2>1. MostIs(facts.worst, Severities(all)) /\ Severities(all) \subseteq Nat
    BY <1>1, WorstIs DEF SignalInv
  <2>2. Most(Severities(all)) = facts.worst
    BY <2>1, MostOf
  <2> QED
    BY <2>2, Zenon DEF Worst, Severities
<1>6. facts.peak = Peak
  BY <1>1, PeakIs
<1>7. /\ facts.evaluated = Span({i \in Neighbours : all[i].judged})
      /\ facts.afterWarmup = Span({i \in Neighbours : ~all[i].warming /\ ~all[i - 1].warming})
  BY <1>1, SpansAre, Zenon DEF ElapsedInv
<1> QED
  BY <1>1, <1>2, <1>3, <1>4, <1>5, <1>6, <1>7, CoverageIs, Zenon DEF FactsMatchSamples

\* The running totals are what reading back every sample gives, whatever order samples,
\* failures, pauses and clock resets come in (session_facts.py 130-233).
THEOREM FactsMatch == RecordSpec => []FactsMatchSamples
  BY RecordAlways, MatchFollows, PTL

-----------------------------------------------------------------------------
(* The history that is kept                                                *)

ShotStates == {<<>>} \cup (Nat \X BOOLEAN \X {"ok", "paused", "failed"} \X BOOLEAN)

Entry == [index : Nat, sample : Shots, pinned : BOOLEAN]

HistSet == [entries : Seq(Entry), stride : Nat, pins : Nat, count : Nat, state : ShotStates,
            latest : {<<>>} \cup {<<e>> : e \in Entry}]

\* m says where in s the elements of q are, in its order.
Thinned(q, s, m) ==
    /\ m \in [1..Len(q) -> 1..Len(s)]
    /\ \A j, k \in 1..Len(q) : j < k => m[j] < m[k]
    /\ \A k \in 1..Len(q) : q[k] = s[m[k]]

\* The fields of the history.
LEMMA HistIs ==
    ASSUME NEW h \in HistSet
    PROVE  /\ h.entries \in Seq(Entry) /\ h.stride \in Nat /\ h.pins \in Nat /\ h.count \in Nat
           /\ h.state \in ShotStates /\ h.latest \in {<<>>} \cup {<<e>> : e \in Entry}
  BY DEF HistSet

\* The state of a sample.
LEMMA StateIs ==
    ASSUME NEW s \in Shots
    PROVE  StateOf(s) \in ShotStates /\ StateOf(s) # <<>>
  BY ShotIs DEF StateOf, ShotStates

\* What is selected is thinned, and keeps what was asked for.
LEMMA SelectedThinned ==
    ASSUME NEW X, NEW s \in Seq(X), NEW I
    PROVE  /\ Selected(s, I) \in Seq(X)
           /\ \E m : Thinned(Selected(s, I), s, m) /\ \A i \in I \cap (1..Len(s)) : \E k \in 1..Len(Selected(s, I)) : m[k] = i
<1>1. Selected(s, I) \in Seq(X)
  BY SelectedPlaces
<1>2. PICK m : Places(m, Selected(s, I), s, I, Len(s))
  BY SelectedPlaces
<1>3. Thinned(Selected(s, I), s, m) /\ \A i \in I \cap (1..Len(s)) : \E k \in 1..Len(Selected(s, I)) : m[k] = i
  BY <1>2 DEF Places, Thinned
<1> QED
  BY <1>1, <1>3

\* Thinning keeps pinned entries and loses others.
LEMMA ThinIs ==
    ASSUME NEW h \in HistSet
    PROVE  /\ Thin(h) \in HistSet
           /\ Thin(h).count = h.count /\ Thin(h).pins = h.pins /\ Thin(h).state = h.state /\ Thin(h).latest = h.latest
           /\ \E m : /\ Thinned(Thin(h).entries, h.entries, m)
                     /\ \A i \in 1..Len(h.entries) : h.entries[i].pinned => \E k \in 1..Len(Thin(h).entries) : m[k] = i
<1> DEFINE I == {i \in DOMAIN h.entries : h.entries[i].pinned \/ h.entries[i].index % (2 * h.stride) = 0}
           q == Selected(h.entries, I)
           stride == 2 * h.stride
<1>1. h.entries \in Seq(Entry) /\ stride \in Nat
  BY HistIs
<1>2. PICK m : Thinned(q, h.entries, m) /\ \A i \in I \cap (1..Len(h.entries)) : \E k \in 1..Len(q) : m[k] = i
  <2> HIDE DEF I
  <2> QED
    BY <1>1, SelectedThinned
<1>3. q \in Seq(Entry)
  BY <1>1, SelectedThinned
<1>4. \A i \in 1..Len(h.entries) : h.entries[i].pinned => i \in I
  BY <1>1
<1>5. Thin(h) = [h EXCEPT !.stride = stride, !.entries = q]
  BY DEF Thin
<1> HIDE DEF I, q, stride
<1>6. Thin(h) \in HistSet
  <2> DEFINE x == [h EXCEPT !.stride = stride]
  <2>1. x \in HistSet
    BY <1>1 DEF HistSet
  <2>2. Thin(h) = [x EXCEPT !.entries = q]
    BY <1>5
  <2> HIDE DEF x
  <2> QED
    BY <1>3, <2>1, <2>2 DEF HistSet
<1>7. /\ Thin(h).count = h.count /\ Thin(h).pins = h.pins /\ Thin(h).state = h.state /\ Thin(h).latest = h.latest
      /\ Thin(h).entries = q
  BY <1>5 DEF HistSet
<1>8. \A i \in 1..Len(h.entries) : h.entries[i].pinned => \E k \in 1..Len(q) : m[k] = i
  BY <1>2, <1>4
<1> QED
  BY <1>2, <1>6, <1>7, <1>8

\* The entry of a sample, and what becomes of the history.
Pinned(h, s) == StateOf(s) # h.state /\ h.pins < Limit \div 4
EntryOf(h, s) == [index |-> h.count, sample |-> s, pinned |-> Pinned(h, s)]

HistStep(h, s, g) ==
    /\ g.count = h.count + 1 /\ g.state = StateOf(s) /\ g.latest = <<EntryOf(h, s)>>
    /\ g.pins = h.pins + (IF Pinned(h, s) THEN 1 ELSE 0)
    /\ \E m : LET s1 == Append(h.entries, EntryOf(h, s)) IN
              /\ Thinned(g.entries, s1, m)
              /\ \A i \in 1..Len(s1) : s1[i].pinned => \E k \in 1..Len(g.entries) : m[k] = i

\* Nothing left out is thinned too.
LEMMA SelfThinned == ASSUME NEW X, NEW q \in Seq(X) PROVE Thinned(q, q, [k \in 1..Len(q) |-> k])
  BY DEF Thinned

\* So is leaving out the last.
LEMMA AppendThinned ==
    ASSUME NEW X, NEW q \in Seq(X), NEW e \in X
    PROVE  Thinned(q, Append(q, e), [k \in 1..Len(q) |-> k])
  BY DEF Thinned

\* append: the history counts the sample, keeps it as its latest, and thins the rest without
\* losing a pin.
LEMMA SnapshotStep ==
    ASSUME NEW h \in HistSet, NEW s \in Shots, NEW g, g = AppendSnapshot(h, s)
    PROVE  g \in HistSet /\ HistStep(h, s, g)
<1> DEFINE pinned == Pinned(h, s)
           entry == EntryOf(h, s)
           count == h.count + 1
           state == StateOf(s)
           latest == <<entry>>
           more == Append(h.entries, entry)
           pins == h.pins + (IF pinned THEN 1 ELSE 0)
           s1 == [h EXCEPT !.count = count]
           s2 == [s1 EXCEPT !.state = state]
           seen == [s2 EXCEPT !.latest = latest]
           k1 == [seen EXCEPT !.entries = more]
           kept == [k1 EXCEPT !.pins = pins]
<1>1. h.entries \in Seq(Entry) /\ h.stride \in Nat /\ h.pins \in Nat /\ h.count \in Nat
  BY HistIs
<1>2. entry \in Entry
  BY <1>1 DEF Entry, EntryOf, Pinned
<1>3. count \in Nat /\ state \in ShotStates /\ latest \in {<<>>} \cup {<<e>> : e \in Entry} /\ more \in Seq(Entry) /\ pins \in Nat
  BY <1>1, <1>2, StateIs
<1>4. g = IF ~pinned /\ h.count % h.stride # 0 THEN seen
          ELSE IF Len(kept.entries) >= Limit THEN Thin(kept) ELSE kept
  BY DEF AppendSnapshot, Pinned, EntryOf, HistSet
<1>14. entry.pinned = pinned
  BY DEF EntryOf
<1> HIDE DEF pinned, entry, count, state, latest, more, pins
<1>5. s1 \in HistSet
  BY <1>3 DEF HistSet
<1>6. s2 \in HistSet
  <2> HIDE DEF s1
  <2> QED
    BY <1>3, <1>5 DEF HistSet
<1>7. seen \in HistSet
  <2> HIDE DEF s2
  <2> QED
    BY <1>3, <1>6 DEF HistSet
<1>8. /\ seen.count = count /\ seen.state = state /\ seen.latest = latest /\ seen.pins = h.pins
      /\ seen.entries = h.entries
  BY DEF HistSet
<1> HIDE DEF seen
<1>9. k1 \in HistSet
  BY <1>3, <1>7 DEF HistSet
<1>10. kept \in HistSet
  <2> HIDE DEF k1
  <2> QED
    BY <1>3, <1>9 DEF HistSet
<1>11. /\ kept.count = count /\ kept.state = state /\ kept.latest = latest /\ kept.pins = pins
       /\ kept.entries = more
  BY <1>7, <1>8 DEF HistSet
<1> HIDE DEF kept
<1>12. ASSUME NEW x \in HistSet, g = x, x.count = count, x.state = state, x.latest = latest, x.pins = pins,
              NEW m, Thinned(x.entries, more, m),
              \A i \in 1..Len(more) : more[i].pinned => \E k \in 1..Len(x.entries) : m[k] = i
       PROVE  g \in HistSet /\ HistStep(h, s, g)
  BY <1>12 DEF HistStep, count, state, latest, pins, more, entry, pinned
<1>13. CASE ~pinned /\ h.count % h.stride # 0
  <2>1. g = seen /\ pins = h.pins
    BY <1>1, <1>4, <1>13 DEF pins
  <2>2. Thinned(seen.entries, more, [k \in 1..Len(h.entries) |-> k])
    BY <1>1, <1>2, <1>8, AppendThinned DEF more
  <2> DEFINE m == [k \in 1..Len(h.entries) |-> k]
  <2>3. \A i \in 1..Len(more) : more[i].pinned => \E k \in 1..Len(h.entries) : m[k] = i
    <3> SUFFICES ASSUME NEW i \in 1..Len(more), more[i].pinned PROVE \E k \in 1..Len(h.entries) : m[k] = i
      OBVIOUS
    <3>1. more[Len(h.entries) + 1] = entry /\ Len(more) = Len(h.entries) + 1
      BY <1>1, <1>2 DEF more
    <3>2. i # Len(h.entries) + 1
      BY <1>13, <1>14, <3>1
    <3>3. i \in 1..Len(h.entries)
      BY <1>1, <3>1, <3>2
    <3> QED
      BY <3>3
  <2> HIDE DEF m
  <2>4. Thinned(seen.entries, more, m)
    BY <2>2 DEF m
  <2> QED
    BY <1>7, <1>8, <1>12, <2>1, <2>3, <2>4
<1>15. CASE ~(~pinned /\ h.count % h.stride # 0) /\ Len(kept.entries) >= Limit
  <2>1. g = Thin(kept)
    BY <1>4, <1>15
  <2>2. PICK m : /\ Thinned(Thin(kept).entries, more, m)
                 /\ \A i \in 1..Len(more) : more[i].pinned => \E k \in 1..Len(Thin(kept).entries) : m[k] = i
    BY <1>10, <1>11, ThinIs
  <2>3. /\ Thin(kept) \in HistSet
        /\ Thin(kept).count = count /\ Thin(kept).pins = pins /\ Thin(kept).state = state /\ Thin(kept).latest = latest
    BY <1>10, <1>11, ThinIs
  <2> QED
    BY <1>12, <2>1, <2>2, <2>3
<1>16. CASE ~(~pinned /\ h.count % h.stride # 0) /\ ~(Len(kept.entries) >= Limit)
  <2>1. g = kept
    BY <1>4, <1>16
  <2> DEFINE m == [k \in 1..Len(more) |-> k]
  <2>2. Thinned(kept.entries, more, m)
    BY <1>3, <1>11, SelfThinned
  <2>3. \A i \in 1..Len(more) : \E k \in 1..Len(more) : m[k] = i
    OBVIOUS
  <2> HIDE DEF m
  <2> QED
    BY <1>10, <1>11, <1>12, <2>1, <2>2, <2>3
<1> QED
  BY <1>13, <1>15, <1>16

-----------------------------------------------------------------------------
\* The entries are those samples of t that arrived: a says which, and the
\* latest is the last of them.
Arrived(t, h, a) ==
    /\ a \in [1..h.count -> 1..Len(t)]
    /\ \A i, j \in 1..h.count : i < j => a[i] < a[j]
    /\ h.count = Len(t) => \A i \in 1..h.count : a[i] = i
    /\ \A k \in 1..Len(h.entries) : h.entries[k].index < h.count /\ h.entries[k].sample = t[a[h.entries[k].index + 1]]
    /\ h.count > 0 => h.latest # <<>> /\ h.latest[1].index = h.count - 1 /\ h.latest[1].sample = t[a[h.count]]

HistInv(t, h) ==
    /\ h.count <= Len(t)
    /\ h.count = 0 => h.latest = <<>>
    /\ \A j, k \in 1..Len(h.entries) : j < k => h.entries[j].index < h.entries[k].index
    /\ \A k \in 1..Len(h.entries) : h.entries[k].index = h.count - 1 => h.entries[k] = h.latest[1]
    /\ \E a : Arrived(t, h, a)

\* Where the state is not that of the sample before.
Turns(t) == {i \in 1..Len(t) : i = 1 \/ StateOf(t[i]) # StateOf(t[i - 1])}

\* As long as none was evicted and there are pins, every such sample has one.
PinsInv(t, h) ==
    h.count = Len(t) =>
        /\ h.state = IF t = <<>> THEN <<>> ELSE StateOf(t[Len(t)])
        /\ h.pins <= Cardinality(Turns(t))
        /\ Cardinality(Turns(t)) <= Limit \div 4 =>
              \A i \in Turns(t) : \E k \in 1..Len(h.entries) : h.entries[k].index = i - 1 /\ h.entries[k].pinned

\* The entry of a sample.
LEMMA EntryIs ==
    ASSUME NEW h \in HistSet, NEW s \in Shots
    PROVE  EntryOf(h, s) \in Entry
<1>1. h.count \in Nat
  BY HistIs
<1> QED
  BY <1>1 DEF EntryOf, Entry, Pinned

\* An entry that is kept is an old one or the new one.
LEMMA ThinnedEntries ==
    ASSUME NEW h \in HistSet, NEW s \in Shots, NEW g \in HistSet, NEW m,
           Thinned(g.entries, Append(h.entries, EntryOf(h, s)), m), NEW k \in 1..Len(g.entries)
    PROVE  \/ m[k] \in 1..Len(h.entries) /\ g.entries[k] = h.entries[m[k]]
           \/ m[k] = Len(h.entries) + 1 /\ g.entries[k] = EntryOf(h, s)
<1>1. h.entries \in Seq(Entry) /\ EntryOf(h, s) \in Entry
  BY HistIs, EntryIs
<1> DEFINE more == Append(h.entries, EntryOf(h, s))
<1>2. /\ Len(more) = Len(h.entries) + 1 /\ more[Len(h.entries) + 1] = EntryOf(h, s)
      /\ \A i \in 1..Len(h.entries) : more[i] = h.entries[i]
  BY <1>1
<1> HIDE DEF more
<1>3. m[k] \in 1..Len(more) /\ g.entries[k] = more[m[k]]
  BY DEF Thinned, more
<1>4. m[k] \in 1..Len(h.entries) \/ m[k] = Len(h.entries) + 1
  BY <1>1, <1>2, <1>3
<1> QED
  BY <1>2, <1>3, <1>4

\* Appending a sample keeps the history one of samples that arrived.
LEMMA HistKept ==
    ASSUME NEW t \in Seq(Shots), NEW s \in Shots, NEW u, Longer(t, s, u),
           NEW h \in HistSet, NEW g \in HistSet, HistStep(h, s, g), HistInv(t, h)
    PROVE  HistInv(u, g)
<1> DEFINE e == EntryOf(h, s)
           more == Append(h.entries, e)
<1>1. PICK n \in Nat : n = Len(t)
  OBVIOUS
<1>2. /\ u \in Seq(Shots) /\ Len(u) = n + 1 /\ u[n + 1] = s
      /\ \A i \in 1..n : u[i] = t[i] /\ t[i] \in Shots
  BY <1>1, AppendIs
<1>3. PICK c \in Nat : c = h.count
  BY HistIs
<1>4. g.count = c + 1 /\ g.latest = <<e>> /\ e.index = c /\ e.sample = s
  BY <1>3 DEF HistStep, EntryOf
<1>5. PICK a : Arrived(t, h, a)
  BY DEF HistInv
<1>6. PICK m : Thinned(g.entries, more, m)
  BY DEF HistStep
<1> HIDE DEF e, more
<1>7. ASSUME NEW k \in 1..Len(g.entries)
      PROVE  \/ m[k] \in 1..Len(h.entries) /\ g.entries[k] = h.entries[m[k]]
             \/ m[k] = Len(h.entries) + 1 /\ g.entries[k] = e
  BY <1>6, ThinnedEntries DEF e, more
<1>8. h.entries \in Seq(Entry) /\ g.entries \in Seq(Entry) /\ \A k \in 1..Len(h.entries) : h.entries[k].index \in Nat
  <2>1. h.entries \in Seq(Entry) /\ g.entries \in Seq(Entry)
    BY HistIs
  <2>2. \A e1 \in Entry : e1.index \in Nat
    BY DEF Entry
  <2>3. \A k \in 1..Len(h.entries) : h.entries[k] \in Entry
    BY <2>1
  <2> QED
    BY <2>1, <2>2, <2>3
<1>9. \A k \in 1..Len(h.entries) : h.entries[k].index < c /\ h.entries[k].sample = t[a[h.entries[k].index + 1]]
  BY <1>3, <1>5 DEF Arrived
<1> DEFINE b == [i \in 1..c + 1 |-> IF i = c + 1 THEN n + 1 ELSE a[i]]
<1>10. a \in [1..c -> 1..n] /\ (\A i, j \in 1..c : i < j => a[i] < a[j]) /\ (c = n => \A i \in 1..c : a[i] = i)
  BY <1>1, <1>3, <1>5 DEF Arrived
<1>11. /\ b \in [1..c + 1 -> 1..n + 1] /\ b[c + 1] = n + 1 /\ \A i \in 1..c : b[i] = a[i]
       /\ c = n => \A i \in 1..c + 1 : b[i] = i
  BY <1>10
<1>12. \A i, j \in 1..c + 1 : i < j => b[i] < b[j]
  BY <1>10
<1> HIDE DEF b
<1>13. ASSUME NEW k \in 1..Len(g.entries)
       PROVE  g.entries[k].index < c + 1 /\ g.entries[k].sample = u[b[g.entries[k].index + 1]]
  <2>1. CASE m[k] \in 1..Len(h.entries) /\ g.entries[k] = h.entries[m[k]]
    <3>1. PICK i \in Nat : i = g.entries[k].index
      BY <1>8, <2>1
    <3>2. i < c /\ i + 1 \in 1..c /\ g.entries[k].sample = t[a[i + 1]]
      <4>1. h.entries[m[k]].index = i /\ h.entries[m[k]].index < c /\ g.entries[k].sample = t[a[i + 1]]
        BY <1>9, <2>1, <3>1
      <4> QED
        BY <4>1
    <3>3. PICK x \in 1..n : x = a[i + 1] /\ b[i + 1] = x
      BY <1>10, <1>11, <3>2
    <3>4. u[b[i + 1]] = t[a[i + 1]]
      BY <1>2, <3>3
    <3>5. i < c + 1
      BY <3>2
    <3> QED
      BY <3>1, <3>2, <3>4, <3>5
  <2>2. CASE g.entries[k] = e
    <3>1. g.entries[k].index = c /\ g.entries[k].sample = s
      BY <1>4, <2>2
    <3>2. c < c + 1 /\ u[b[c + 1]] = s
      BY <1>2, <1>11
    <3> QED
      BY <3>1, <3>2
  <2> QED
    BY <1>7, <2>1, <2>2
<1>14. Arrived(u, g, b)
  BY <1>2, <1>4, <1>11, <1>12, <1>13 DEF Arrived
<1>15. ASSUME NEW j \in 1..Len(g.entries), NEW k \in 1..Len(g.entries), j < k
       PROVE  g.entries[j].index < g.entries[k].index
  <2>1. m[j] < m[k]
    BY <1>6, <1>15 DEF Thinned
  <2>2. m[j] \in 1..Len(h.entries) /\ g.entries[j] = h.entries[m[j]]
    BY <1>7, <1>8, <2>1
  <2>3. CASE m[k] \in 1..Len(h.entries) /\ g.entries[k] = h.entries[m[k]]
    BY <2>1, <2>2, <2>3 DEF HistInv
  <2>4. CASE g.entries[k] = e
    BY <1>4, <1>9, <2>2, <2>4
  <2> QED
    BY <1>7, <2>3, <2>4
<1>16. ASSUME NEW k \in 1..Len(g.entries), g.entries[k].index = g.count - 1 PROVE g.entries[k] = g.latest[1]
  <2>1. g.entries[k].index = c
    BY <1>4, <1>16
  <2>2. g.entries[k] = e
    <3>1. CASE m[k] \in 1..Len(h.entries) /\ g.entries[k] = h.entries[m[k]]
      <4>1. h.entries[m[k]].index < c /\ h.entries[m[k]].index = c
        BY <1>9, <2>1, <3>1
      <4> QED
        BY <4>1
    <3> QED
      BY <1>7, <3>1
  <2> QED
    BY <1>4, <2>2
<1>17. g.count <= Len(u) /\ g.count # 0
  BY <1>1, <1>2, <1>3, <1>4 DEF HistInv
<1> QED
  BY <1>14, <1>15, <1>16, <1>17 DEF HistInv

\* What was evicted arrives in no history.
LEMMA HistUnseen ==
    ASSUME NEW t \in Seq(Shots), NEW s \in Shots, NEW u, Longer(t, s, u), NEW h \in HistSet, HistInv(t, h)
    PROVE  HistInv(u, h) /\ h.count < Len(u)
<1>1. PICK n \in Nat : n = Len(t)
  OBVIOUS
<1>2. /\ u \in Seq(Shots) /\ Len(u) = n + 1 /\ \A i \in 1..n : u[i] = t[i]
  BY <1>1, AppendIs
<1>3. PICK a : Arrived(t, h, a)
  BY DEF HistInv
<1>4. h.count \in Nat /\ h.count <= n /\ h.entries \in Seq(Entry)
  BY <1>1, HistIs DEF HistInv
<1>5. a \in [1..h.count -> 1..n] /\ a \in [1..h.count -> 1..n + 1]
  BY <1>1, <1>3 DEF Arrived
<1>6. ASSUME NEW k \in 1..Len(h.entries) PROVE h.entries[k].sample = u[a[h.entries[k].index + 1]]
  <2>1. h.entries[k].index \in Nat /\ h.entries[k].index < h.count
    <3>1. h.entries[k] \in Entry
      BY <1>4
    <3> QED
      BY <1>3, <3>1 DEF Arrived, Entry
  <2>2. a[h.entries[k].index + 1] \in 1..n
    BY <1>4, <1>5, <2>1
  <2> QED
    BY <1>2, <1>3, <2>2 DEF Arrived
<1>7. h.count > 0 => h.latest[1].sample = u[a[h.count]]
  BY <1>2, <1>3, <1>4, <1>5 DEF Arrived
<1>8. Arrived(u, h, a)
  BY <1>2, <1>3, <1>4, <1>5, <1>6, <1>7 DEF Arrived
<1> QED
  BY <1>2, <1>4, <1>8 DEF HistInv

\* One sample more turns if its state is not that of the one before.
LEMMA TurnsAppend ==
    ASSUME NEW t \in Seq(Shots), NEW s \in Shots, NEW u, Longer(t, s, u)
    PROVE  /\ Cardinality(Turns(t)) \in Nat /\ Turns(t) \subseteq 1..Len(t)
           /\ Turns(u) = IF t = <<>> \/ StateOf(s) # StateOf(t[Len(t)]) THEN Turns(t) \cup {Len(t) + 1} ELSE Turns(t)
           /\ Cardinality(Turns(u)) =
                Cardinality(Turns(t)) + (IF t = <<>> \/ StateOf(s) # StateOf(t[Len(t)]) THEN 1 ELSE 0)
<1>1. PICK n \in Nat : n = Len(t)
  OBVIOUS
<1>2. /\ Len(u) = n + 1 /\ u[n + 1] = s /\ \A i \in 1..n : u[i] = t[i]
  BY <1>1, AppendIs
<1>3. Turns(t) \subseteq 1..n
  BY <1>1 DEF Turns
<1>4. Cardinality(Turns(t)) \in Nat /\ Cardinality(Turns(t) \cup {n + 1}) = Cardinality(Turns(t)) + 1
  BY <1>3, AddPlace
<1>5. t = <<>> <=> n = 0
  BY <1>1
<1>6. ASSUME NEW i \in 1..n PROVE i \in Turns(u) <=> i \in Turns(t)
  <2>1. i = 1 \/ i - 1 \in 1..n
    OBVIOUS
  <2>2. u[i] = t[i] /\ (i = 1 \/ u[i - 1] = t[i - 1]) /\ i \in 1..n + 1
    BY <1>2, <2>1
  <2>3. i \in Turns(u) <=> i = 1 \/ StateOf(u[i]) # StateOf(u[i - 1])
    BY <1>2, <2>2 DEF Turns
  <2>4. i \in Turns(t) <=> i = 1 \/ StateOf(t[i]) # StateOf(t[i - 1])
    BY <1>1 DEF Turns
  <2> QED
    BY <2>2, <2>3, <2>4
<1>7. n + 1 \in Turns(u) <=> n = 0 \/ StateOf(s) # StateOf(t[n])
  <2>1. PICK m : m = n + 1
    OBVIOUS
  <2>2. m \in 1..n + 1 /\ m - 1 = n /\ (m = 1 <=> n = 0)
    BY <2>1
  <2>3. m \in Turns(u) <=> m = 1 \/ StateOf(u[m]) # StateOf(u[m - 1])
    BY <1>2, <2>2, Zenon DEF Turns
  <2>4. n # 0 => u[n] = t[n]
    BY <1>2
  <2> QED
    BY <1>2, <2>1, <2>2, <2>3, <2>4
<1>8. \A i : i \in Turns(u) => i \in 1..n \/ i = n + 1
  BY <1>2 DEF Turns
<1>9. CASE n = 0 \/ StateOf(s) # StateOf(t[n])
  <2>1. Turns(u) = Turns(t) \cup {n + 1}
    <3>1. \A i : i \in Turns(u) <=> i \in Turns(t) \/ i = n + 1
      BY <1>3, <1>6, <1>7, <1>8, <1>9
    <3> QED
      BY <3>1
  <2> QED
    BY <1>1, <1>3, <1>4, <1>5, <1>9, <2>1
<1>10. CASE ~(n = 0 \/ StateOf(s) # StateOf(t[n]))
  <2>1. Turns(u) = Turns(t)
    <3>1. \A i : i \in Turns(u) <=> i \in Turns(t)
      BY <1>3, <1>6, <1>7, <1>8, <1>10
    <3> QED
      BY <3>1
  <2> QED
    BY <1>1, <1>3, <1>4, <1>5, <1>10, <2>1
<1> QED
  BY <1>9, <1>10

\* Appending a sample keeps a pin at every turn, while there are pins.
LEMMA PinsKept ==
    ASSUME NEW t \in Seq(Shots), NEW s \in Shots, NEW u, Longer(t, s, u),
           NEW h \in HistSet, NEW g \in HistSet, HistStep(h, s, g), PinsInv(t, h)
    PROVE  PinsInv(u, g)
<1> DEFINE L == Limit \div 4
<1>0. L \in Int
  BY RecordAssumption
<1> HIDE DEF L
<1>1. PICK n \in Nat : n = Len(t)
  OBVIOUS
<1>2. /\ Len(u) = n + 1 /\ u[n + 1] = s /\ u # <<>>
  BY <1>1, AppendIs
<1>3. h.count \in Nat /\ h.pins \in Nat /\ g.count = h.count + 1 /\ g.state = StateOf(s)
      /\ g.pins = h.pins + (IF Pinned(h, s) THEN 1 ELSE 0)
  BY HistIs DEF HistStep
<1> SUFFICES ASSUME g.count = Len(u)
             PROVE  /\ g.state = StateOf(u[Len(u)]) /\ g.pins <= Cardinality(Turns(u))
                    /\ Cardinality(Turns(u)) <= L =>
                         \A i \in Turns(u) : \E k \in 1..Len(g.entries) : g.entries[k].index = i - 1 /\ g.entries[k].pinned
  BY <1>2 DEF PinsInv, L
<1>4. h.count = Len(t)
  BY <1>1, <1>2, <1>3
<1>5. /\ h.state = IF t = <<>> THEN <<>> ELSE StateOf(t[n])
      /\ h.pins <= Cardinality(Turns(t))
      /\ Cardinality(Turns(t)) <= L =>
            \A i \in Turns(t) : \E k \in 1..Len(h.entries) : h.entries[k].index = i - 1 /\ h.entries[k].pinned
  BY <1>1, <1>4 DEF PinsInv, L
<1>6. StateOf(s) # h.state <=> t = <<>> \/ StateOf(s) # StateOf(t[n])
  BY <1>5, StateIs
<1>7. /\ Cardinality(Turns(t)) \in Nat
      /\ Turns(u) = (IF StateOf(s) # h.state THEN Turns(t) \cup {n + 1} ELSE Turns(t))
      /\ Cardinality(Turns(u)) = Cardinality(Turns(t)) + (IF StateOf(s) # h.state THEN 1 ELSE 0)
  BY <1>1, <1>6, TurnsAppend
<1>8. g.pins <= Cardinality(Turns(u))
  BY <1>3, <1>5, <1>7 DEF Pinned
<1> DEFINE e == EntryOf(h, s)
           more == Append(h.entries, e)
<1>9. e \in Entry /\ h.entries \in Seq(Entry) /\ e.index = n /\ e.pinned = Pinned(h, s)
  BY <1>1, <1>4, EntryIs, HistIs DEF EntryOf
<1>10. PICK m : /\ Thinned(g.entries, more, m)
                /\ \A i \in 1..Len(more) : more[i].pinned => \E k \in 1..Len(g.entries) : m[k] = i
  BY DEF HistStep
<1> HIDE DEF e
<1>11. /\ Len(more) = Len(h.entries) + 1 /\ more[Len(h.entries) + 1] = e
       /\ \A i \in 1..Len(h.entries) : more[i] = h.entries[i]
  BY <1>9
<1> HIDE DEF more
<1>12. ASSUME NEW i \in 1..Len(more), more[i].pinned
       PROVE  \E k \in 1..Len(g.entries) : g.entries[k] = more[i]
  <2>1. PICK k \in 1..Len(g.entries) : m[k] = i
    BY <1>10, <1>12
  <2>2. g.entries[k] = more[m[k]]
    BY <1>10 DEF Thinned
  <2> QED
    BY <2>1, <2>2
<1>13. ASSUME Cardinality(Turns(u)) <= L, NEW i \in Turns(u)
       PROVE  \E k \in 1..Len(g.entries) : g.entries[k].index = i - 1 /\ g.entries[k].pinned
  <2>1. CASE i \in Turns(t)
    <3>1. PICK k \in 1..Len(h.entries) : h.entries[k].index = i - 1 /\ h.entries[k].pinned
      BY <1>0, <1>5, <1>7, <1>13, <2>1
    <3>2. k \in 1..Len(more) /\ more[k] = h.entries[k]
      BY <1>9, <1>11
    <3> QED
      BY <1>12, <3>1, <3>2
  <2>2. CASE i \notin Turns(t)
    <3>1. i = n + 1 /\ StateOf(s) # h.state
      BY <1>7, <2>2
    <3>2. h.pins < L
      BY <1>0, <1>3, <1>5, <1>7, <1>13, <3>1
    <3>3. Pinned(h, s)
      BY <3>1, <3>2 DEF Pinned, L
    <3>4. Len(h.entries) + 1 \in 1..Len(more) /\ more[Len(h.entries) + 1] = e
      BY <1>9, <1>11
    <3>5. more[Len(h.entries) + 1].pinned
      BY <1>9, <3>3, <3>4
    <3>6. PICK k \in 1..Len(g.entries) : g.entries[k] = e
      BY <1>12, <3>4, <3>5
    <3>7. i - 1 = n
      BY <3>1
    <3> QED
      BY <1>9, <3>3, <3>6, <3>7
  <2> QED
    BY <2>1, <2>2
<1> QED
  BY <1>2, <1>3, <1>8, <1>13

-----------------------------------------------------------------------------
(* The timeline                                                            *)

LogMark == [mark : {"paused", "resumed", "access_lost", "access_regained", "warmup_end", "signal", "cleared"}, rank : Nat]

MarksSet == [log : Seq(LogMark), rank : Nat, unreadable : BOOLEAN, shown : Lately]

MarksOf(log, kinds) == {i \in 1..Len(log) : log[i].mark \in kinds}
Alarms(log) == MarksOf(log, {"signal", "cleared"})
Halts(log) == MarksOf(log, {"paused", "resumed"})

\* The signal marks tell of a change, each, and the last of them of rank r.
Told(log, r) ==
    /\ \A i \in Alarms(log) : \A j \in Previous(Alarms(log), i) : log[i].rank # log[j].rank
    /\ r = IF Alarms(log) = {} THEN 0 ELSE log[Max(Alarms(log))].rank

\* Those that tell of a signal where there was none.
Risen(log) ==
    {i \in Alarms(log) : log[i].rank > 0 /\ \A j \in Previous(Alarms(log), i) : log[j].rank = 0}

\* The marks of pauses take turns, and the last of them is p.
Halted(log, p) ==
    /\ \A i \in Halts(log) : \A j \in Previous(Halts(log), i) : log[i].mark # log[j].mark
    /\ Halts(log) # {} => log[Max(Halts(log))].mark = p

PauseOf(shown) ==
    IF shown = <<>> THEN "none" ELSE IF shown[1].kind = "paused" THEN "paused" ELSE "resumed"

TimeInv(t, h, m) ==
    /\ m \in MarksSet
    /\ Told(m.log, m.rank) /\ Halted(m.log, PauseOf(m.shown))
    /\ h.count = Len(t) => /\ m.rank = Before(t, Len(t) + 1)
                           /\ Cardinality(Risen(m.log)) = Cardinality(Opens(t))

\* Concatenation of one, or none.
LEMMA OneMore ==
    ASSUME NEW X, NEW q \in Seq(X), NEW x \in X
    PROVE  q \o <<x>> = Append(q, x) /\ q \o <<>> = q
<1>1. q \o <<x>> = Append(q, x)
  <2>1. Len(q \o <<x>>) = Len(Append(q, x)) /\ Len(Append(q, x)) = Len(q) + 1
    OBVIOUS
  <2>2. ASSUME NEW i \in 1..Len(q) + 1 PROVE (q \o <<x>>)[i] = Append(q, x)[i]
    OBVIOUS
  <2>3. q \o <<x>> \in Seq(X) /\ Append(q, x) \in Seq(X)
    OBVIOUS
  <2> QED
    BY <2>1, <2>2, <2>3
<1>2. q \o <<>> = q
  OBVIOUS
<1> QED
  BY <1>1, <1>2

\* The one before a mark is the same after one more.
LEMMA PreviousAppend ==
    ASSUME NEW n \in Nat, NEW S, S \subseteq 1..n
    PROVE  /\ \A i \in S : Previous(S \cup {n + 1}, i) = Previous(S, i)
           /\ S = {} => Previous(S \cup {n + 1}, n + 1) = {}
           /\ S # {} => /\ Previous(S \cup {n + 1}, n + 1) = {Max(S)} /\ Max(S) \in S
                        /\ Max(S \cup {n + 1}) = n + 1
           /\ S = {} => Max(S \cup {n + 1}) = n + 1
<1>1. \A i \in S : i \in Nat /\ i < n + 1
  OBVIOUS
<1>2. ASSUME NEW i \in S PROVE Previous(S \cup {n + 1}, i) = Previous(S, i)
  BY <1>1 DEF Previous
<1>3. ASSUME S = {} PROVE Previous(S \cup {n + 1}, n + 1) = {}
  BY <1>3 DEF Previous
<1>4. Max(S \cup {n + 1}) = n + 1
  <2>1. S \cup {n + 1} \subseteq Nat /\ n + 1 \in S \cup {n + 1} /\ \A i \in S \cup {n + 1} : i <= n + 1
    BY <1>1
  <2> DEFINE T == S \cup {n + 1}
  <2> HIDE DEF T
  <2>2. T \subseteq Nat /\ n + 1 \in T /\ \A i \in T : i <= n + 1
    BY <2>1 DEF T
  <2>3. Max(T) = n + 1
    BY <2>2, MaxOf
  <2> QED
    BY <2>3 DEF T
<1>5. ASSUME S # {}
      PROVE  Previous(S \cup {n + 1}, n + 1) = {Max(S)} /\ Max(S) \in S
  <2>1. Max(S) \in S /\ \A i \in S : i <= Max(S)
    BY <1>5, PlacesFinite, MaxIs
  <2>2. ASSUME NEW j PROVE j \in Previous(S \cup {n + 1}, n + 1) <=> j = Max(S)
    <3>1. j \in Previous(S \cup {n + 1}, n + 1) <=>
            j \in S \cup {n + 1} /\ j < n + 1 /\ \A k \in S \cup {n + 1} : k < n + 1 => k <= j
      BY DEF Previous
    <3>2. ASSUME j \in Previous(S \cup {n + 1}, n + 1) PROVE j = Max(S)
      <4>1. j \in S /\ Max(S) <= j
        <5>1. j \in S \cup {n + 1} /\ j < n + 1 /\ \A k \in S \cup {n + 1} : k < n + 1 => k <= j
          BY <3>1, <3>2
        <5>2. j # n + 1
          BY <5>1
        <5>3. Max(S) \in S \cup {n + 1} /\ Max(S) < n + 1
          BY <1>1, <2>1
        <5> QED
          BY <5>1, <5>2, <5>3
      <4>2. j <= Max(S) /\ j \in Nat /\ Max(S) \in Nat
        BY <1>1, <2>1, <4>1
      <4> QED
        BY <4>1, <4>2
    <3>3. ASSUME j = Max(S) PROVE j \in Previous(S \cup {n + 1}, n + 1)
      <4>1. j \in S /\ j < n + 1 /\ \A k \in S : k <= j
        BY <1>1, <2>1, <3>3
      <4>2. ~(n + 1 < n + 1)
        OBVIOUS
      <4> QED
        BY <3>1, <4>1, <4>2
    <3> QED
      BY <3>2, <3>3
  <2>3. PICK T : T = Previous(S \cup {n + 1}, n + 1)
    OBVIOUS
  <2>4. PICK x : x = Max(S)
    OBVIOUS
  <2>5. \A j : j \in T <=> j = x
    BY <2>2, <2>3, <2>4
  <2>6. T = {x}
    BY <2>5
  <2> QED
    BY <2>1, <2>3, <2>4, <2>6
<1> QED
  BY <1>2, <1>3, <1>4, <1>5

\* One mark more is among those of its kinds.
LEMMA MarkAppend ==
    ASSUME NEW log \in Seq(LogMark), NEW x \in LogMark, NEW more, Longer(log, x, more), NEW kinds
    PROVE  /\ more \in Seq(LogMark) /\ Len(log) \in Nat /\ more[Len(log) + 1] = x
           /\ \A i \in 1..Len(log) : more[i] = log[i]
           /\ MarksOf(log, kinds) \subseteq 1..Len(log)
           /\ x.mark \in kinds => MarksOf(more, kinds) = MarksOf(log, kinds) \cup {Len(log) + 1}
           /\ x.mark \notin kinds => MarksOf(more, kinds) = MarksOf(log, kinds)
<1>1. PICK n \in Nat : n = Len(log)
  OBVIOUS
<1>2. /\ more \in Seq(LogMark) /\ Len(more) = n + 1 /\ more[n + 1] = x
      /\ \A i \in 1..n : more[i] = log[i]
  BY <1>1 DEF Longer
<1>3. ASSUME x.mark \in kinds PROVE MarksOf(more, kinds) = MarksOf(log, kinds) \cup {n + 1}
  <2>1. \A i : i \in MarksOf(more, kinds) <=> i \in MarksOf(log, kinds) \/ i = n + 1
    BY <1>1, <1>2, <1>3 DEF MarksOf
  <2> QED
    BY <2>1
<1>4. ASSUME x.mark \notin kinds PROVE MarksOf(more, kinds) = MarksOf(log, kinds)
  <2>1. \A i : i \in MarksOf(more, kinds) <=> i \in MarksOf(log, kinds)
    BY <1>1, <1>2, <1>4 DEF MarksOf
  <2> QED
    BY <2>1
<1>5. MarksOf(log, kinds) \subseteq 1..n
  BY <1>1 DEF MarksOf
<1> QED
  BY <1>1, <1>2, <1>3, <1>4, <1>5

\* A mark of another kind tells nothing of the signal.
LEMMA TellOther ==
    ASSUME NEW log \in Seq(LogMark), NEW x \in LogMark, NEW more, Longer(log, x, more), x.mark \notin {"signal", "cleared"},
           NEW r, Told(log, r)
    PROVE  Told(more, r) /\ Risen(more) = Risen(log)
<1>1. Alarms(more) = Alarms(log) /\ Alarms(log) \subseteq 1..Len(log) /\ \A i \in Alarms(log) : more[i] = log[i]
  BY MarkAppend DEF Alarms
<1>2. \A i \in Alarms(log) : Previous(Alarms(log), i) \subseteq Alarms(log)
  BY DEF Previous
<1>3. Alarms(log) # {} => Max(Alarms(log)) \in Alarms(log)
  BY <1>1, PlacesFinite, MaxIs
<1>4. Told(more, r)
  BY <1>1, <1>2, <1>3 DEF Told
<1>5. \A i : i \in Risen(more) <=> i \in Risen(log)
  BY <1>1, <1>2 DEF Risen
<1> QED
  BY <1>4, <1>5 DEF Risen

\* A signal mark of another rank is told, and rises from none.
LEMMA TellNew ==
    ASSUME NEW log \in Seq(LogMark), NEW x \in LogMark, NEW more, Longer(log, x, more), x.mark \in {"signal", "cleared"},
           NEW r \in Nat, Told(log, r), x.rank # r
    PROVE  /\ Told(more, x.rank)
           /\ Cardinality(Risen(more)) = Cardinality(Risen(log)) + (IF x.rank > 0 /\ r = 0 THEN 1 ELSE 0)
<1>1. PICK n \in Nat : n = Len(log)
  OBVIOUS
<1>2. PICK S : S = Alarms(log)
  OBVIOUS
<1>3. /\ Alarms(more) = S \cup {n + 1} /\ S \subseteq 1..n /\ more[n + 1] = x
      /\ \A i \in S : more[i] = log[i]
  BY <1>1, <1>2, MarkAppend DEF Alarms
<1>4. /\ \A i \in S : Previous(S \cup {n + 1}, i) = Previous(S, i) /\ Previous(S, i) \subseteq S
      /\ Max(S \cup {n + 1}) = n + 1
      /\ S = {} => Previous(S \cup {n + 1}, n + 1) = {}
      /\ S # {} => Previous(S \cup {n + 1}, n + 1) = {Max(S)} /\ Max(S) \in S
  <2>1. \A i \in S : Previous(S, i) \subseteq S
    BY DEF Previous
  <2>2. /\ \A i \in S : Previous(S \cup {n + 1}, i) = Previous(S, i)
        /\ S = {} => Previous(S \cup {n + 1}, n + 1) = {}
        /\ S # {} => Previous(S \cup {n + 1}, n + 1) = {Max(S)} /\ Max(S) \in S /\ Max(S \cup {n + 1}) = n + 1
        /\ S = {} => Max(S \cup {n + 1}) = n + 1
    BY <1>3, PreviousAppend
  <2> QED
    BY <2>1, <2>2
<1>5. /\ \A i \in S : \A j \in Previous(S, i) : log[i].rank # log[j].rank
      /\ r = IF S = {} THEN 0 ELSE log[Max(S)].rank
  BY <1>2 DEF Told
<1>6. Told(more, x.rank)
  <2>1. ASSUME NEW i \in S \cup {n + 1}, NEW j \in Previous(S \cup {n + 1}, i) PROVE more[i].rank # more[j].rank
    <3>1. CASE i \in S
      BY <1>3, <1>4, <1>5, <3>1
    <3>2. CASE i = n + 1
      BY <1>3, <1>4, <1>5, <2>1, <3>2
    <3> QED
      BY <3>1, <3>2
  <2>2. S \cup {n + 1} # {}
    OBVIOUS
  <2> QED
    BY <1>3, <1>4, <2>1, <2>2 DEF Told
<1>7. Risen(log) \subseteq 1..n /\ n + 1 \notin S
  BY <1>2, <1>3 DEF Risen
<1>8. ASSUME NEW i \in S PROVE i \in Risen(more) <=> i \in Risen(log)
  <2>1. i \in Risen(more) <=> more[i].rank > 0 /\ \A j \in Previous(S \cup {n + 1}, i) : more[j].rank = 0
    BY <1>3 DEF Risen
  <2>2. i \in Risen(log) <=> log[i].rank > 0 /\ \A j \in Previous(S, i) : log[j].rank = 0
    BY <1>2 DEF Risen
  <2> QED
    BY <1>3, <1>4, <2>1, <2>2
<1>9. n + 1 \in Risen(more) <=> x.rank > 0 /\ r = 0
  <2>1. n + 1 \in Risen(more) <=> x.rank > 0 /\ \A j \in Previous(S \cup {n + 1}, n + 1) : more[j].rank = 0
    BY <1>3 DEF Risen
  <2> QED
    BY <1>3, <1>4, <1>5, <2>1
<1>10. \A i : i \in Risen(more) => i \in S \/ i = n + 1
  BY <1>3 DEF Risen
<1>11. \A i : i \in Risen(log) => i \in S
  BY <1>2 DEF Risen
<1>12. Cardinality(Risen(log)) \in Nat /\ Cardinality(Risen(log) \cup {n + 1}) = Cardinality(Risen(log)) + 1
  BY <1>7, AddPlace
<1>13. CASE x.rank > 0 /\ r = 0
  <2>1. Risen(more) = Risen(log) \cup {n + 1}
    <3>1. \A i : i \in Risen(more) <=> i \in Risen(log) \/ i = n + 1
      BY <1>8, <1>9, <1>10, <1>11, <1>13
    <3> QED
      BY <3>1
  <2> QED
    BY <1>6, <1>12, <1>13, <2>1
<1>14. CASE ~(x.rank > 0 /\ r = 0)
  <2>1. Risen(more) = Risen(log)
    <3>1. \A i : i \in Risen(more) <=> i \in Risen(log)
      BY <1>8, <1>9, <1>10, <1>11, <1>14
    <3> QED
      BY <3>1
  <2> QED
    BY <1>6, <1>12, <1>14, <2>1
<1> QED
  BY <1>13, <1>14

\* A mark of another kind halts nothing.
LEMMA HaltOther ==
    ASSUME NEW log \in Seq(LogMark), NEW x \in LogMark, NEW more, Longer(log, x, more), x.mark \notin {"paused", "resumed"},
           NEW p, Halted(log, p)
    PROVE  Halted(more, p)
<1>1. Halts(more) = Halts(log) /\ Halts(log) \subseteq 1..Len(log) /\ \A i \in Halts(log) : more[i] = log[i]
  BY MarkAppend DEF Halts
<1>2. \A i \in Halts(log) : Previous(Halts(log), i) \subseteq Halts(log)
  BY DEF Previous
<1>3. Halts(log) # {} => Max(Halts(log)) \in Halts(log)
  BY <1>1, PlacesFinite, MaxIs
<1> QED
  BY <1>1, <1>2, <1>3 DEF Halted

\* A mark of a pause takes its turn.
LEMMA HaltNew ==
    ASSUME NEW log \in Seq(LogMark), NEW x \in LogMark, NEW more, Longer(log, x, more), x.mark \in {"paused", "resumed"},
           NEW p, Halted(log, p), x.mark # p
    PROVE  Halted(more, x.mark)
<1>1. PICK n \in Nat : n = Len(log)
  OBVIOUS
<1>2. PICK S : S = Halts(log)
  OBVIOUS
<1>3. /\ Halts(more) = S \cup {n + 1} /\ S \subseteq 1..n /\ more[n + 1] = x
      /\ \A i \in S : more[i] = log[i]
  BY <1>1, <1>2, MarkAppend DEF Halts
<1>4. /\ \A i \in S : Previous(S \cup {n + 1}, i) = Previous(S, i) /\ Previous(S, i) \subseteq S
      /\ Max(S \cup {n + 1}) = n + 1
      /\ S = {} => Previous(S \cup {n + 1}, n + 1) = {}
      /\ S # {} => Previous(S \cup {n + 1}, n + 1) = {Max(S)} /\ Max(S) \in S
  <2>1. \A i \in S : Previous(S, i) \subseteq S
    BY DEF Previous
  <2>2. /\ \A i \in S : Previous(S \cup {n + 1}, i) = Previous(S, i)
        /\ S = {} => Previous(S \cup {n + 1}, n + 1) = {}
        /\ S # {} => Previous(S \cup {n + 1}, n + 1) = {Max(S)} /\ Max(S) \in S /\ Max(S \cup {n + 1}) = n + 1
        /\ S = {} => Max(S \cup {n + 1}) = n + 1
    BY <1>3, PreviousAppend
  <2> QED
    BY <2>1, <2>2
<1>5. /\ \A i \in S : \A j \in Previous(S, i) : log[i].mark # log[j].mark
      /\ S # {} => log[Max(S)].mark = p
  BY <1>2 DEF Halted
<1>6. ASSUME NEW i \in S \cup {n + 1}, NEW j \in Previous(S \cup {n + 1}, i) PROVE more[i].mark # more[j].mark
  <2>1. CASE i \in S
    BY <1>3, <1>4, <1>5, <2>1
  <2>2. CASE i = n + 1
    BY <1>3, <1>4, <1>5, <1>6, <2>2
  <2> QED
    BY <2>1, <2>2
<1> QED
  BY <1>3, <1>4, <1>6 DEF Halted

\* What a sample may add to the timeline, in this order.
Turned(log, more, p, q) ==
    \/ more = log /\ (p = "none" \/ p = q)
    \/ p # "none" /\ p # q /\ \E x \in LogMark : Longer(log, x, more) /\ x.mark = q

Silent(log, more) ==
    more = log \/ \E x \in LogMark : Longer(log, x, more) /\ x.mark \in {"access_lost", "access_regained", "warmup_end"}

Signalled(log, more, r, k) ==
    \/ more = log /\ r = k
    \/ r # k /\ \E x \in LogMark : Longer(log, x, more) /\ x.mark \in {"signal", "cleared"} /\ x.rank = k

\* A mark, and a log with it.
LEMMA MarkIs ==
    ASSUME NEW mark \in {"paused", "resumed", "access_lost", "access_regained", "warmup_end", "signal", "cleared"},
           NEW rank \in Nat, NEW log \in Seq(LogMark)
    PROVE  LET x == [mark |-> mark, rank |-> rank] IN
           x \in LogMark /\ x.mark = mark /\ x.rank = rank /\ Longer(log, x, log \o <<x>>) /\ log \o <<>> = log
                      /\ log \o <<x>> \in Seq(LogMark)
<1> DEFINE x == [mark |-> mark, rank |-> rank]
<1>1. x \in LogMark /\ x.mark = mark /\ x.rank = rank
  BY DEF LogMark
<1> HIDE DEF x
<1>2. log \o <<x>> = Append(log, x) /\ log \o <<>> = log
  BY <1>1, OneMore
<1>3. Append(log, x) \in Seq(LogMark)
  BY <1>1
<1> QED
  BY <1>1, <1>2, <1>3 DEF Longer, x

\* _accept_snapshot: a pause turns, access and warm-up are marked, then the signal.
LEMMA AcceptIs ==
    ASSUME NEW m \in MarksSet, NEW s \in Shots, s.kind # "failed", NEW x, x = Accept(m, s)
    PROVE  /\ x \in MarksSet /\ x.shown = <<s>> /\ x.rank = IF s.kind = "paused" THEN m.rank ELSE s.rank
           /\ \E l1, l2, l3 \in Seq(LogMark) :
                 /\ Turned(m.log, l1, PauseOf(m.shown), PauseOf(<<s>>))
                 /\ Silent(l1, l2) /\ Silent(l2, l3)
                 /\ Signalled(l3, x.log, m.rank, x.rank)
<1> DEFINE previous == m.shown
           Single(mark, rank) == <<[mark |-> mark, rank |-> rank]>>
           pausing == IF previous = <<>> \/ (s.kind = "paused") = (previous[1].kind = "paused") THEN <<>>
                      ELSE Single(IF s.kind = "paused" THEN "paused" ELSE "resumed", 0)
           access == IF s.kind = "paused" \/ previous = <<>> \/ Partial(s) = m.unreadable THEN <<>>
                     ELSE Single(IF Partial(s) THEN "access_lost" ELSE "access_regained", 0)
           warmed == IF s.kind # "paused" /\ previous # <<>> /\ previous[1].warming /\ ~s.warming
                     THEN Single("warmup_end", 0) ELSE <<>>
           signal == IF s.kind = "paused" \/ s.rank = m.rank THEN <<>>
                     ELSE Single(IF s.rank = 0 THEN "cleared" ELSE "signal", s.rank)
           rank == IF s.kind = "paused" THEN m.rank ELSE s.rank
           unreadable == IF s.kind = "paused" THEN m.unreadable ELSE Partial(s)
           l1 == m.log \o pausing
           l2 == l1 \o access
           l3 == l2 \o warmed
           l4 == l3 \o signal
<1>1. x = [log |-> m.log \o pausing \o access \o warmed \o signal, rank |-> rank, unreadable |-> unreadable,
           shown |-> <<s>>]
  BY DEF Accept
<1>2. m.log \in Seq(LogMark) /\ m.rank \in Nat /\ m.unreadable \in BOOLEAN /\ m.shown \in Lately
  BY DEF MarksSet
<1>3. s.rank \in Nat /\ s.kind \in {"ok", "paused", "failed"}
  BY ShotIs
<1>4. l1 \in Seq(LogMark) /\ Turned(m.log, l1, PauseOf(m.shown), PauseOf(<<s>>))
  <2> DEFINE q == IF s.kind = "paused" THEN "paused" ELSE "resumed"
             y == [mark |-> q, rank |-> 0]
  <2>1. PauseOf(<<s>>) = q
    BY DEF PauseOf
  <2>2. CASE previous = <<>> \/ (s.kind = "paused") = (previous[1].kind = "paused")
    <3>1. pausing = <<>>
      BY <2>2
    <3>4. m.log \o <<>> = m.log
      BY <1>2
    <3>5. l1 = m.log \o pausing
      OBVIOUS
    <3>2. l1 = m.log
      <4> HIDE DEF pausing, l1
      <4> QED
        BY <3>1, <3>4, <3>5
    <3>3. PauseOf(m.shown) = "none" \/ PauseOf(m.shown) = q
      BY <2>2 DEF PauseOf
    <3> QED
      BY <1>2, <2>1, <3>2, <3>3 DEF Turned
  <2>3. CASE ~(previous = <<>> \/ (s.kind = "paused") = (previous[1].kind = "paused"))
    <3>1. pausing = <<y>>
      BY <2>3
    <3>2. y \in LogMark /\ y.mark = q /\ Longer(m.log, y, m.log \o <<y>>) /\ m.log \o <<y>> \in Seq(LogMark)
      BY <1>2, MarkIs
    <3>3. PauseOf(m.shown) # "none" /\ PauseOf(m.shown) # q
      BY <2>3 DEF PauseOf
    <3> HIDE DEF y, q
    <3>4. l1 = m.log \o <<y>>
      BY <3>1
    <3> HIDE DEF l1
    <3> QED
      BY <2>1, <3>2, <3>3, <3>4 DEF Turned
  <2> QED
    BY <2>2, <2>3
<1> HIDE DEF l1
<1>5. l2 \in Seq(LogMark) /\ Silent(l1, l2)
  <2> DEFINE q == IF Partial(s) THEN "access_lost" ELSE "access_regained"
             y == [mark |-> q, rank |-> 0]
  <2>1. l1 \o <<>> = l1
    BY <1>4, OneMore
  <2>2. y \in LogMark /\ y.mark = q /\ Longer(l1, y, l1 \o <<y>>) /\ l1 \o <<y>> \in Seq(LogMark)
    BY <1>4, MarkIs
  <2>3. access = <<>> \/ access = <<y>>
    OBVIOUS
  <2>4. q \in {"access_lost", "access_regained", "warmup_end"}
    OBVIOUS
  <2> HIDE DEF access, y, q
  <2> QED
    BY <1>4, <2>1, <2>2, <2>3, <2>4 DEF Silent
<1> HIDE DEF l2
<1>6. l3 \in Seq(LogMark) /\ Silent(l2, l3)
  <2> DEFINE y == [mark |-> "warmup_end", rank |-> 0]
  <2>1. l2 \o <<>> = l2
    BY <1>5, OneMore
  <2>2. y \in LogMark /\ y.mark = "warmup_end" /\ Longer(l2, y, l2 \o <<y>>) /\ l2 \o <<y>> \in Seq(LogMark)
    BY <1>5, MarkIs
  <2>3. warmed = <<>> \/ warmed = <<y>>
    OBVIOUS
  <2> HIDE DEF warmed, y
  <2> QED
    BY <1>5, <2>1, <2>2, <2>3 DEF Silent
<1> HIDE DEF l3
<1>7. l4 \in Seq(LogMark) /\ Signalled(l3, l4, m.rank, rank)
  <2> DEFINE q == IF s.rank = 0 THEN "cleared" ELSE "signal"
             y == [mark |-> q, rank |-> s.rank]
  <2>1. l3 \o <<>> = l3
    BY <1>6, OneMore
  <2>2. y \in LogMark /\ y.mark = q /\ y.rank = s.rank /\ Longer(l3, y, l3 \o <<y>>) /\ l3 \o <<y>> \in Seq(LogMark)
    BY <1>3, <1>6, MarkIs
  <2>3. q \in {"signal", "cleared"}
    OBVIOUS
  <2>4. CASE s.kind = "paused" \/ s.rank = m.rank
    <3>1. signal = <<>> /\ rank = m.rank
      BY <2>4
    <3> QED
      BY <1>6, <2>1, <3>1 DEF Signalled
  <2>5. CASE ~(s.kind = "paused" \/ s.rank = m.rank)
    <3>1. signal = <<y>> /\ rank = s.rank /\ m.rank # rank
      BY <2>5
    <3> HIDE DEF y, q, signal, rank
    <3> QED
      BY <2>2, <2>3, <3>1 DEF Signalled
  <2> QED
    BY <2>4, <2>5
<1>8. rank \in Nat /\ unreadable \in BOOLEAN /\ <<s>> \in Lately
  <2>1. Partial(s) \in BOOLEAN /\ <<s>> \in Lately
    BY DEF Partial, Lately
  <2>2. CASE s.kind = "paused"
    BY <1>2, <1>3, <2>1, <2>2
  <2>3. CASE s.kind # "paused"
    BY <1>2, <1>3, <2>1, <2>3
  <2> QED
    BY <2>2, <2>3
<1>9. x = [log |-> l4, rank |-> rank, unreadable |-> unreadable, shown |-> <<s>>]
  BY <1>1 DEF l1, l2, l3
<1> HIDE DEF l4, rank, unreadable
<1>10. x \in MarksSet /\ x.shown = <<s>> /\ x.rank = rank /\ x.log = l4
  BY <1>7, <1>8, <1>9 DEF MarksSet
<1> QED
  BY <1>4, <1>5, <1>6, <1>7, <1>10 DEF rank

\* Marks of access and warm-up tell of no signal and no pause.
LEMMA SilentKeeps ==
    ASSUME NEW log \in Seq(LogMark), NEW more, Silent(log, more), NEW r, Told(log, r), NEW p, Halted(log, p)
    PROVE  Told(more, r) /\ Halted(more, p) /\ Risen(more) = Risen(log)
<1>1. CASE more = log
  BY <1>1
<1>2. CASE \E x \in LogMark : Longer(log, x, more) /\ x.mark \in {"access_lost", "access_regained", "warmup_end"}
  <2>1. PICK x \in LogMark : Longer(log, x, more) /\ x.mark \in {"access_lost", "access_regained", "warmup_end"}
    BY <1>2
  <2>2. x.mark \notin {"signal", "cleared"} /\ x.mark \notin {"paused", "resumed"}
    BY <2>1
  <2> QED
    BY <2>1, <2>2, TellOther, HaltOther
<1> QED
  BY <1>1, <1>2 DEF Silent

\* A pause that begins or ends is the next one told.
LEMMA TurnedKeeps ==
    ASSUME NEW log \in Seq(LogMark), NEW more, NEW p, NEW q \in {"paused", "resumed"}, Turned(log, more, p, q),
           NEW r, Told(log, r), Halted(log, p)
    PROVE  Told(more, r) /\ Halted(more, q) /\ Risen(more) = Risen(log)
<1>1. CASE more = log /\ (p = "none" \/ p = q)
  <2>1. CASE p = q
    BY <1>1, <2>1
  <2>2. CASE p = "none"
    <3>1. Halts(log) # {} => Max(Halts(log)) \in Halts(log)
      <4>1. Halts(log) \subseteq 1..Len(log)
        BY DEF Halts, MarksOf
      <4> QED
        BY <4>1, PlacesFinite, MaxIs
    <3>2. Halts(log) = {}
      <4>1. ASSUME Halts(log) # {} PROVE FALSE
        <5>1. log[Max(Halts(log))].mark = "none"
          BY <2>2, <4>1 DEF Halted
        <5>2. log[Max(Halts(log))].mark \in {"paused", "resumed"}
          BY <3>1, <4>1 DEF Halts, MarksOf
        <5> QED
          BY <5>1, <5>2
      <4> QED
        BY <4>1
    <3> QED
      BY <1>1, <3>2 DEF Halted
  <2> QED
    BY <1>1, <2>1, <2>2
<1>2. CASE p # "none" /\ p # q /\ \E x \in LogMark : Longer(log, x, more) /\ x.mark = q
  <2>1. PICK x \in LogMark : Longer(log, x, more) /\ x.mark = q
    BY <1>2
  <2>2. x.mark \notin {"signal", "cleared"} /\ x.mark \in {"paused", "resumed"} /\ x.mark # p
    BY <1>2, <2>1
  <2>3. Halted(more, x.mark)
    BY <2>1, <2>2, HaltNew
  <2> QED
    BY <2>1, <2>2, <2>3, TellOther
<1> QED
  BY <1>1, <1>2 DEF Turned

\* A signal that changes is the next one told.
LEMMA SignalledKeeps ==
    ASSUME NEW log \in Seq(LogMark), NEW more, NEW r \in Nat, NEW k \in Nat, Signalled(log, more, r, k),
           NEW p, Told(log, r), Halted(log, p)
    PROVE  /\ Told(more, k) /\ Halted(more, p)
           /\ Cardinality(Risen(log)) \in Nat
           /\ Cardinality(Risen(more)) = Cardinality(Risen(log)) + (IF k > 0 /\ r = 0 THEN 1 ELSE 0)
<1>1. Cardinality(Risen(log)) \in Nat
  <2>1. Risen(log) \subseteq 1..Len(log) /\ Len(log) \in Nat
    BY DEF Risen, Alarms, MarksOf
  <2> QED
    BY <2>1, AddPlace
<1>2. CASE more = log /\ r = k
  BY <1>1, <1>2
<1>3. CASE r # k /\ \E x \in LogMark : Longer(log, x, more) /\ x.mark \in {"signal", "cleared"} /\ x.rank = k
  <2>1. PICK x \in LogMark : Longer(log, x, more) /\ x.mark \in {"signal", "cleared"} /\ x.rank = k
    BY <1>3
  <2>2. x.mark \notin {"paused", "resumed"}
    BY <2>1
  <2> QED
    BY <1>1, <1>3, <2>1, <2>2, TellNew, HaltOther
<1> QED
  BY <1>2, <1>3 DEF Signalled

\* A sample that arrives keeps the timeline telling its signals.
LEMMA TimeKept ==
    ASSUME NEW t \in Seq(Shots), NEW s \in Shots, NEW u, Longer(t, s, u),
           NEW h, NEW g, h.count \in Nat, g.count = h.count + 1,
           NEW m, TimeInv(t, h, m), NEW x, x = Accept(m, s)
    PROVE  TimeInv(u, g, x)
<1>1. PICK n \in Nat : n = Len(t)
  OBVIOUS
<1>2. Len(u) = n + 1 /\ u \in Seq(Shots)
  BY <1>1, AppendIs
<1>3. m \in MarksSet /\ Told(m.log, m.rank) /\ Halted(m.log, PauseOf(m.shown)) /\ m.log \in Seq(LogMark) /\ m.rank \in Nat
  BY DEF TimeInv, MarksSet
<1>4. g.count = Len(u) => m.rank = Before(t, n + 1) /\ Cardinality(Risen(m.log)) = Cardinality(Opens(t))
  BY <1>1, <1>2 DEF TimeInv
<1>5. Before(u, Len(u) + 1) = IF s.kind = "ok" THEN s.rank ELSE Before(t, n + 1)
  BY <1>1, <1>2, BeforeAppend
<1>6. Cardinality(Opens(u)) = Cardinality(Opens(t))
         + (IF s.kind = "ok" /\ s.rank > 0 /\ Before(t, n + 1) = 0 THEN 1 ELSE 0)
      /\ Cardinality(Opens(t)) \in Nat
  <2>1. Opens(t) \subseteq 1..n
    BY <1>1, OpensIs
  <2>2. Cardinality(Opens(t)) \in Nat /\ Cardinality(Opens(t) \cup {n + 1}) = Cardinality(Opens(t)) + 1
    BY <2>1, AddPlace
  <2>3. CASE s.kind = "ok" /\ s.rank > 0 /\ Before(t, n + 1) = 0
    BY <1>1, <2>2, <2>3, OpensAppend
  <2>4. CASE ~(s.kind = "ok" /\ s.rank > 0 /\ Before(t, n + 1) = 0)
    BY <1>1, <2>2, <2>4, OpensAppend
  <2> QED
    BY <2>3, <2>4
<1>7. CASE s.kind = "failed"
  <2>1. x = m
    BY <1>7 DEF Accept
  <2> QED
    BY <1>3, <1>4, <1>5, <1>6, <1>7, <2>1 DEF TimeInv
<1>8. CASE s.kind # "failed"
  <2>1. /\ x \in MarksSet /\ x.shown = <<s>> /\ x.rank = IF s.kind = "paused" THEN m.rank ELSE s.rank
    BY <1>3, <1>8, AcceptIs
  <2>2. PICK l1, l2, l3 \in Seq(LogMark) :
                 /\ Turned(m.log, l1, PauseOf(m.shown), PauseOf(<<s>>))
                 /\ Silent(l1, l2) /\ Silent(l2, l3)
                 /\ Signalled(l3, x.log, m.rank, x.rank)
    BY <1>3, <1>8, AcceptIs
  <2>3. PauseOf(<<s>>) \in {"paused", "resumed"} /\ x.rank \in Nat /\ s.kind \in {"ok", "paused"} /\ s.rank \in Nat
    BY <1>3, <1>8, <2>1, ShotIs DEF PauseOf
  <2>4. Told(l1, m.rank) /\ Halted(l1, PauseOf(<<s>>)) /\ Risen(l1) = Risen(m.log)
    BY <1>3, <2>2, <2>3, TurnedKeeps
  <2>5. Told(l2, m.rank) /\ Halted(l2, PauseOf(<<s>>)) /\ Risen(l2) = Risen(m.log)
    BY <2>2, <2>4, SilentKeeps
  <2>6. Told(l3, m.rank) /\ Halted(l3, PauseOf(<<s>>)) /\ Risen(l3) = Risen(m.log)
    BY <2>2, <2>5, SilentKeeps
  <2>7. /\ Told(x.log, x.rank) /\ Halted(x.log, PauseOf(<<s>>)) /\ Cardinality(Risen(m.log)) \in Nat
        /\ Cardinality(Risen(x.log)) = Cardinality(Risen(m.log)) + (IF x.rank > 0 /\ m.rank = 0 THEN 1 ELSE 0)
    BY <1>3, <2>2, <2>3, <2>6, SignalledKeeps
  <2>8. ASSUME g.count = Len(u)
        PROVE  x.rank = Before(u, Len(u) + 1) /\ Cardinality(Risen(x.log)) = Cardinality(Opens(u))
    <3>1. m.rank = Before(t, n + 1) /\ Cardinality(Risen(m.log)) = Cardinality(Opens(t))
      BY <1>4, <2>8
    <3>2. CASE s.kind = "paused"
      BY <1>3, <1>5, <1>6, <2>1, <2>7, <3>1, <3>2
    <3>3. CASE s.kind = "ok"
      BY <1>3, <1>5, <1>6, <2>1, <2>7, <3>1, <3>3
    <3> QED
      BY <2>3, <3>2, <3>3
  <2> QED
    BY <2>1, <2>7, <2>8 DEF TimeInv
<1> QED
  BY <1>7, <1>8

\* An empty timeline tells of nothing.
LEMMA TimeStart == ASSUME NEW h, h.count = 0 PROVE TimeInv(<<>>, h, NoMarks)
<1> DEFINE m == NoMarks
           t == <<>>
<1>1. t \in Seq(Shots) /\ Len(t) = 0
  OBVIOUS
<1>2. m.log = <<>> /\ m.rank = 0 /\ m.shown = <<>> /\ m \in MarksSet
  BY DEF NoMarks, MarksSet, Lately
<1>3. Alarms(m.log) = {} /\ Halts(m.log) = {}
  BY <1>2 DEF Alarms, Halts, MarksOf
<1>4. Told(m.log, m.rank) /\ Halted(m.log, PauseOf(m.shown)) /\ Risen(m.log) = {}
  BY <1>2, <1>3 DEF Told, Halted, Risen
<1>5. SignalSamples(t) = {}
  <2>1. SignalSamples(t) = {i \in 1..0 : t[i].kind = "ok"}
    BY <1>1, OkIs
  <2> QED
    BY <2>1
<1>6. Before(t, Len(t) + 1) = 0 /\ Opens(t) = {}
  BY <1>5, BeforeNone DEF Opens
<1> HIDE DEF m, t
<1>7. TimeInv(t, h, m)
  BY <1>2, <1>4, <1>6 DEF TimeInv
<1> QED
  BY <1>7 DEF m, t

-----------------------------------------------------------------------------
(* The whole record                                                        *)

\* If it never was, stamps follow each other.
OrderInv(t) ==
    (\A i \in 1..Len(t) : ~t[i].reset) => \A i, j \in 1..Len(t) : i < j => t[i].stamp < t[j].stamp

\* A later sample keeps the order of stamps.
LEMMA OrderKept ==
    ASSUME NEW t \in Seq(Shots), NEW s \in Shots, NEW u, Longer(t, s, u), Later(t, s), OrderInv(t)
    PROVE  OrderInv(u)
<1>1. PICK n \in Nat : n = Len(t)
  OBVIOUS
<1>2. /\ Len(u) = n + 1 /\ u[n + 1] = s /\ \A i \in 1..n : u[i] = t[i] /\ t[i].stamp \in Nat
  BY <1>1, AppendIs, ShotIs
<1> SUFFICES ASSUME \A i \in 1..n + 1 : ~u[i].reset, NEW i \in 1..n + 1, NEW j \in 1..n + 1, i < j
             PROVE  u[i].stamp < u[j].stamp
  BY <1>2 DEF OrderInv
<1>3. \A k, l \in 1..n : k < l => t[k].stamp < t[l].stamp
  <2>1. \A k \in 1..n : ~t[k].reset
    BY <1>2
  <2> QED
    BY <1>1, <2>1 DEF OrderInv
<1>4. ~s.reset /\ s.stamp \in Nat
  BY <1>2, ShotIs
<1>5. CASE j \in 1..n
  <2>1. i \in 1..n
    BY <1>5
  <2> QED
    BY <1>2, <1>3, <1>5, <2>1
<1>6. CASE j = n + 1
  <2>1. i \in 1..n /\ n \in 1..n /\ t # <<>>
    BY <1>1, <1>6
  <2>2. t[n].stamp < s.stamp
    BY <1>1, <1>2, <1>4, <2>1 DEF Later
  <2>3. t[i].stamp <= t[n].stamp
    BY <1>2, <1>3, <2>1
  <2> QED
    BY <1>2, <1>4, <1>6, <2>1, <2>2, <2>3
<1> QED
  BY <1>5, <1>6

WholeInv ==
    /\ RecordInv /\ OrderInv(all)
    /\ hist \in HistSet /\ HistInv(all, hist) /\ PinsInv(all, hist)
    /\ TimeInv(all, hist, marks)

\* An empty history holds no samples.
LEMMA HistStart == EmptyHist \in HistSet /\ HistInv(<<>>, EmptyHist) /\ PinsInv(<<>>, EmptyHist)
<1> DEFINE h == EmptyHist
           t == <<>>
<1>1. t \in Seq(Shots) /\ Len(t) = 0 /\ t = <<>>
  OBVIOUS
<1>2. h.entries = <<>> /\ h.count = 0 /\ h.latest = <<>> /\ h.state = <<>> /\ h.pins = 0 /\ h \in HistSet
  BY DEF EmptyHist, HistSet, ShotStates
<1> HIDE DEF h, t
<1>3. Len(h.entries) = 0
  BY <1>2
<1>4. Arrived(t, h, [i \in 1..0 |-> i])
  BY <1>1, <1>2, <1>3 DEF Arrived
<1>5. HistInv(t, h)
  BY <1>1, <1>2, <1>3, <1>4 DEF HistInv
<1>6. Turns(t) = {}
  BY <1>1 DEF Turns
<1>7. Cardinality(Turns(t)) = 0
  BY <1>6, FS_EmptySet
<1>8. PinsInv(t, h)
  BY <1>1, <1>2, <1>6, <1>7 DEF PinsInv
<1> QED
  BY <1>2, <1>5, <1>8 DEF h, t

\* The invariant of the whole record holds in every behaviour.
LEMMA WholeAlways == RecordSpec => []WholeInv
<1>1. RecordInit => WholeInv
  <2> SUFFICES ASSUME RecordInit PROVE WholeInv
    OBVIOUS
  <2>1. all = <<>> /\ facts = EmptyFacts /\ hist = EmptyHist /\ marks = NoMarks
    BY DEF RecordInit
  <2>2. RecordInv
    BY <2>1, FactsStart DEF RecordInv
  <2>4. OrderInv(all)
    <3>1. Len(all) = 0
      BY <2>1
    <3> QED
      BY <3>1 DEF OrderInv
  <2>3. TimeInv(<<>>, EmptyHist, NoMarks)
    <3>1. EmptyHist.count = 0
      BY DEF EmptyHist
    <3> QED
      BY <3>1, TimeStart
  <2> QED
    BY <2>1, <2>2, <2>3, <2>4, HistStart DEF WholeInv
<1>2. WholeInv /\ [RecordNext]_recordVars => WholeInv'
  <2> SUFFICES ASSUME WholeInv, [RecordNext]_recordVars PROVE WholeInv'
    OBVIOUS
  <2>1. /\ all \in Seq(Shots) /\ facts \in FactsSet /\ FactsInv(all, facts)
        /\ hist \in HistSet /\ HistInv(all, hist) /\ PinsInv(all, hist) /\ TimeInv(all, hist, marks)
        /\ OrderInv(all)
    BY DEF WholeInv, RecordInv
  <2>2. CASE UNCHANGED recordVars
    BY <2>1, <2>2 DEF WholeInv, RecordInv, recordVars
  <2>3. ASSUME NEW s \in Shots, all' = Append(all, s), facts' = ObserveFacts(facts, s), Later(all, s)
        PROVE  Longer(all, s, all') /\ RecordInv' /\ OrderInv(all')
    <3>1. Longer(all, s, all')
      BY <2>3 DEF Longer
    <3> QED
      BY <2>1, <2>3, <3>1, FactsKept, OrderKept DEF RecordInv
  <2>4. CASE \E s \in Shots : /\ all' = Append(all, s) /\ facts' = ObserveFacts(facts, s) /\ Later(all, s)
                              /\ hist' = AppendSnapshot(hist, s) /\ marks' = Accept(marks, s)
    <3>1. PICK s \in Shots : /\ all' = Append(all, s) /\ facts' = ObserveFacts(facts, s) /\ Later(all, s)
                             /\ hist' = AppendSnapshot(hist, s) /\ marks' = Accept(marks, s)
      BY <2>4
    <3>2. Longer(all, s, all') /\ RecordInv' /\ OrderInv(all')
      BY <2>3, <3>1
    <3>3. hist' \in HistSet /\ HistStep(hist, s, hist')
      BY <2>1, <3>1, SnapshotStep
    <3>4. HistInv(all', hist')
      BY <2>1, <3>2, <3>3, HistKept
    <3>5. PinsInv(all', hist')
      BY <2>1, <3>2, <3>3, PinsKept
    <3>6. TimeInv(all', hist', marks')
      <4>1. hist.count \in Nat /\ hist'.count = hist.count + 1
        BY <2>1, <3>3, HistIs DEF HistStep
      <4> QED
        BY <2>1, <3>1, <3>2, <4>1, TimeKept
    <3> QED
      BY <3>2, <3>3, <3>4, <3>5, <3>6 DEF WholeInv
  <2>5. CASE \E s \in Shots : /\ all' = Append(all, s) /\ facts' = ObserveFacts(facts, s) /\ Later(all, s)
                              /\ UNCHANGED <<hist, marks>>
    <3>1. PICK s \in Shots : /\ all' = Append(all, s) /\ facts' = ObserveFacts(facts, s) /\ Later(all, s)
                             /\ hist' = hist /\ marks' = marks
      BY <2>5
    <3>2. Longer(all, s, all') /\ RecordInv' /\ OrderInv(all')
      BY <2>3, <3>1
    <3>3. HistInv(all', hist) /\ hist.count < Len(all')
      BY <2>1, <3>2, HistUnseen
    <3>4. hist.count # Len(all')
      <4>1. hist.count \in Nat /\ Len(all') \in Nat
        BY <2>1, <3>2, HistIs, AppendIs
      <4> QED
        BY <3>3, <4>1
    <3>5. PinsInv(all', hist) /\ TimeInv(all', hist, marks)
      BY <2>1, <3>4 DEF PinsInv, TimeInv
    <3> QED
      BY <2>1, <3>1, <3>2, <3>3, <3>5 DEF WholeInv
  <2> QED
    BY <2>1, <2>2, <2>4, <2>5, RecordSteps
<1> QED
  BY <1>1, <1>2, PTL DEF RecordSpec

\* The timeline tells the signals as the samples that arrived did.
LEMMA TimelineFollows == WholeInv => TimelineTellsSignals
<1> SUFFICES ASSUME WholeInv PROVE TimelineTellsSignals
  OBVIOUS
<1>1. all \in Seq(Shots) /\ marks \in MarksSet /\ Told(marks.log, marks.rank)
      /\ Halted(marks.log, PauseOf(marks.shown)) /\ marks.log \in Seq(LogMark)
  BY DEF WholeInv, RecordInv, TimeInv, MarksSet
<1>2. Marked({"signal", "cleared"}) = Alarms(marks.log) /\ Marked({"paused", "resumed"}) = Halts(marks.log)
  <2>1. DOMAIN marks.log = 1..Len(marks.log)
    BY <1>1
  <2> QED
    BY <2>1 DEF Marked, Alarms, Halts, MarksOf
<1>3. Len(all) = hist.count =>
        marks.rank = Before(all, Len(all) + 1) /\ Cardinality(Risen(marks.log)) = Cardinality(Opens(all))
  BY DEF WholeInv, TimeInv
<1>4. DOMAIN AlertEpisodes(all) = Opens(all)
  BY <1>1, EpisodesAre
<1>5. ASSUME SignalSamples(all) # {} PROVE Before(all, Len(all) + 1) = all[Max(SignalSamples(all))].rank
  <2>1. IsFiniteSet(SignalSamples(all)) /\ SignalSamples(all) \subseteq Nat /\ Len(all) \in Nat
        /\ \A i \in SignalSamples(all) : i \in 1..Len(all)
    BY <1>1, OkIs
  <2>2. Max(SignalSamples(all)) \in SignalSamples(all) /\ \A i \in SignalSamples(all) : i <= Max(SignalSamples(all))
    BY <1>5, <2>1, MaxIs
  <2>3. Prior(all, Max(SignalSamples(all)), Len(all) + 1)
    BY <2>1, <2>2 DEF Prior
  <2> QED
    BY <1>1, <2>1, <2>3, BeforeIs
<1>6. /\ \A i \in Alarms(marks.log) : \A j \in Previous(Alarms(marks.log), i) : marks.log[i].rank # marks.log[j].rank
      /\ marks.rank = IF Alarms(marks.log) = {} THEN 0 ELSE marks.log[Max(Alarms(marks.log))].rank
      /\ \A i \in Halts(marks.log) : \A j \in Previous(Halts(marks.log), i) : marks.log[i].mark # marks.log[j].mark
  BY <1>1 DEF Told, Halted
<1>7. {i \in Alarms(marks.log) : marks.log[i].rank > 0 /\ \A j \in Previous(Alarms(marks.log), i) : marks.log[j].rank = 0}
        = Risen(marks.log)
  BY DEF Risen
<1> QED
  BY <1>2, <1>3, <1>4, <1>5, <1>6, <1>7, Zenon DEF TimelineTellsSignals

-----------------------------------------------------------------------------
(* What is read out of the history                                         *)

\* Samples at rising positions are thinned ones.
LEMMA ThinnedType ==
    ASSUME NEW t \in Seq(Shots), NEW q, NEW b, NEW n \in Nat, q = [k \in 1..n |-> t[b[k]]], b \in [1..n -> 1..Len(t)],
           \A j, k \in 1..n : j < k => b[j] < b[k]
    PROVE  q \in Seq(Shots) /\ Len(q) = n /\ Thinned(q, t, b)
<1>1. \A k \in 1..n : t[b[k]] \in Shots
  OBVIOUS
<1>2. q \in Seq(Shots) /\ Len(q) = n
  BY <1>1
<1> QED
  BY <1>2 DEF Thinned

\* What is thinned twice is thinned.
LEMMA ThinnedTwice ==
    ASSUME NEW t \in Seq(Shots), NEW q \in Seq(Shots), NEW r \in Seq(Shots), NEW b, Thinned(q, t, b), NEW m, Thinned(r, q, m)
    PROVE  Thinned(r, t, [k \in 1..Len(r) |-> b[m[k]]])
<1> DEFINE c == [k \in 1..Len(r) |-> b[m[k]]]
<1>1. \A k \in 1..Len(r) : m[k] \in 1..Len(q) /\ b[m[k]] \in 1..Len(t) /\ c[k] = b[m[k]]
  BY DEF Thinned
<1>2. ASSUME NEW k \in 1..Len(r) PROVE r[k] = t[c[k]]
  BY <1>1 DEF Thinned
<1>3. ASSUME NEW j \in 1..Len(r), NEW k \in 1..Len(r), j < k PROVE c[j] < c[k]
  <2>1. m[j] < m[k]
    BY <1>3 DEF Thinned
  <2> QED
    BY <1>1, <2>1 DEF Thinned
<1>4. c \in [1..Len(r) -> 1..Len(t)]
  BY <1>1
<1> HIDE DEF c
<1> QED
  BY <1>2, <1>3, <1>4 DEF Thinned, c

\* The latest sample that arrived comes last.
LEMMA StoredIs ==
    ASSUME NEW t \in Seq(Shots), NEW h \in HistSet, HistInv(t, h)
    PROVE  /\ Stored(h) \in Seq(Shots)
           /\ \E b : /\ Thinned(Stored(h), t, b)
                     /\ h.count = Len(t) /\ t # <<>> => Stored(h) # <<>> /\ b[Len(Stored(h))] = Len(t)
                     /\ h.count = Len(t) =>
                          \A k \in 1..Len(h.entries) : \E j \in 1..Len(Stored(h)) : b[j] = h.entries[k].index + 1
<1> DEFINE extra == h.latest # <<>> /\ (h.entries = <<>> \/ Last(h.entries) # h.latest[1])
           es == IF extra THEN h.entries \o h.latest ELSE h.entries
           c == h.count
<1>1. h.entries \in Seq(Entry) /\ h.latest \in {<<>>} \cup {<<e>> : e \in Entry} /\ c \in Nat /\ c <= Len(t)
  BY HistIs DEF HistInv
<1>2. PICK a : Arrived(t, h, a)
  BY DEF HistInv
<1>3. /\ a \in [1..c -> 1..Len(t)] /\ (\A i, j \in 1..c : i < j => a[i] < a[j])
      /\ c = Len(t) => \A i \in 1..c : a[i] = i
  BY <1>2 DEF Arrived
<1>4. ASSUME NEW e \in Entry PROVE e.index \in Nat /\ e.sample \in Shots
  BY DEF Entry
<1>5. \A k \in 1..Len(h.entries) : h.entries[k].index < c /\ h.entries[k].sample = t[a[h.entries[k].index + 1]]
  BY <1>2 DEF Arrived
<1>6. \A j, k \in 1..Len(h.entries) : j < k => h.entries[j].index < h.entries[k].index
  BY DEF HistInv
<1>7. c > 0 => h.latest # <<>> /\ h.latest[1].index = c - 1 /\ h.latest[1].sample = t[a[c]]
  BY <1>2 DEF Arrived
<1>8. c = 0 => h.latest = <<>> /\ h.entries = <<>>
  <2>1. ASSUME c = 0, h.entries # <<>> PROVE FALSE
    <3>1. h.entries[1].index < 0 /\ h.entries[1] \in Entry
      BY <1>1, <1>5, <2>1
    <3> QED
      BY <1>4, <3>1
  <2> QED
    BY <2>1 DEF HistInv
\* The entries with the latest one: their indices go up to its own.
<1>9. /\ es \in Seq(Entry)
      /\ \A k \in 1..Len(es) : es[k].index < c /\ es[k].sample = t[a[es[k].index + 1]]
      /\ \A j, k \in 1..Len(es) : j < k => es[j].index < es[k].index
      /\ c > 0 => es # <<>> /\ es[Len(es)].index = c - 1
      /\ Len(es) >= Len(h.entries) /\ \A k \in 1..Len(h.entries) : es[k] = h.entries[k]
  <2>1. CASE extra
    <3>1. PICK e \in Entry : h.latest = <<e>>
      BY <1>1, <2>1
    <3>2. c > 0 /\ e.index = c - 1 /\ e.sample = t[a[c]]
      BY <1>1, <1>7, <1>8, <2>1, <3>1
    <3>3. es = Append(h.entries, e)
      BY <1>1, <2>1, <3>1, OneMore
    <3> HIDE DEF es
    <3>4. /\ es \in Seq(Entry) /\ Len(es) = Len(h.entries) + 1 /\ es[Len(h.entries) + 1] = e
          /\ \A k \in 1..Len(h.entries) : es[k] = h.entries[k]
      BY <1>1, <3>3
    <3>5. \A k \in 1..Len(h.entries) : h.entries[k].index < c - 1
      <4> SUFFICES ASSUME NEW k \in 1..Len(h.entries) PROVE h.entries[k].index < c - 1
        OBVIOUS
      <4>1. PICK l \in 1..Len(h.entries) : l = Len(h.entries)
        BY <1>1
      <4>2. Last(h.entries) = h.entries[l] /\ h.entries # <<>>
        BY <1>1, <4>1 DEF Last
      <4>3. h.entries[l] # h.latest[1]
        BY <2>1, <4>2
      <4>4. h.entries[l].index # c - 1
        BY <4>3 DEF HistInv
      <4>5. h.entries[l].index < c /\ h.entries[l].index \in Nat /\ h.entries[k].index \in Nat
        BY <1>1, <1>4, <1>5
      <4>6. h.entries[l].index < c - 1
        BY <1>1, <4>4, <4>5
      <4>7. k = l \/ h.entries[k].index < h.entries[l].index
        BY <1>1, <1>6, <4>1
      <4> QED
        BY <1>1, <4>5, <4>6, <4>7
    <3>6. \A k \in 1..Len(es) : k \in 1..Len(h.entries) \/ k = Len(h.entries) + 1
      BY <1>1, <3>4
    <3>7. ASSUME NEW k \in 1..Len(es) PROVE es[k].index < c /\ es[k].sample = t[a[es[k].index + 1]]
      <4>1. CASE k \in 1..Len(h.entries)
        BY <1>5, <3>4, <4>1
      <4>2. CASE k = Len(h.entries) + 1
        <5>1. e.index + 1 = c /\ e.index < c
          BY <1>1, <3>2
        <5> QED
          BY <3>2, <3>4, <4>2, <5>1
      <4> QED
        BY <3>6, <4>1, <4>2
    <3>8. ASSUME NEW j \in 1..Len(es), NEW k \in 1..Len(es), j < k PROVE es[j].index < es[k].index
      <4>1. j \in 1..Len(h.entries)
        BY <1>1, <3>4, <3>8
      <4>2. CASE k \in 1..Len(h.entries)
        BY <1>6, <3>4, <3>8, <4>1, <4>2
      <4>3. CASE k = Len(h.entries) + 1
        BY <3>2, <3>4, <3>5, <4>1, <4>3
      <4> QED
        BY <3>6, <4>2, <4>3
    <3>9. es # <<>> /\ es[Len(es)].index = c - 1
      BY <1>1, <3>2, <3>4
    <3> QED
      BY <1>1, <3>4, <3>7, <3>8, <3>9
  <2>2. CASE ~extra
    <3>1. es = h.entries
      BY <2>2
    <3>2. ASSUME c > 0 PROVE es # <<>> /\ es[Len(es)].index = c - 1
      <4>1. h.entries # <<>> /\ Last(h.entries) = h.latest[1]
        BY <1>7, <2>2, <3>2
      <4> QED
        BY <1>1, <1>7, <3>1, <3>2, <4>1 DEF Last
    <3> HIDE DEF es
    <3> QED
      BY <1>1, <1>5, <1>6, <3>1, <3>2
  <2> QED
    BY <2>1, <2>2
<1> DEFINE q == Stored(h)
           b == [k \in 1..Len(es) |-> a[es[k].index + 1]]
<1>10. q = [k \in 1..Len(es) |-> es[k].sample]
  <2>1. q = [k \in DOMAIN es |-> es[k].sample]
    BY DEF Stored
  <2> HIDE DEF es
  <2>2. DOMAIN es = 1..Len(es)
    BY <1>9
  <2> QED
    BY <2>1, <2>2
<1> HIDE DEF es, q
<1>11. ASSUME NEW k \in 1..Len(es)
       PROVE  es[k].index \in Nat /\ es[k].index + 1 \in 1..c /\ b[k] \in 1..Len(t) /\ b[k] = a[es[k].index + 1]
              /\ es[k].sample = t[b[k]]
  <2>1. es[k].index \in Nat /\ es[k].index < c
    BY <1>4, <1>9
  <2>2. es[k].index + 1 \in 1..c
    BY <1>1, <2>1
  <2> QED
    BY <1>3, <1>9, <2>1, <2>2
<1>12. b \in [1..Len(es) -> 1..Len(t)]
  BY <1>11
<1>13. ASSUME NEW j \in 1..Len(es), NEW k \in 1..Len(es), j < k PROVE b[j] < b[k]
  <2>1. es[j].index < es[k].index
    BY <1>9, <1>13
  <2>2. es[j].index + 1 < es[k].index + 1
    BY <1>11, <2>1
  <2> QED
    BY <1>3, <1>11, <2>2
<1>14. \A k \in 1..Len(es) : b[k] = a[es[k].index + 1] /\ es[k].sample = t[b[k]]
  BY <1>11
<1> HIDE DEF b
<1>15. q = [k \in 1..Len(es) |-> t[b[k]]]
  BY <1>10, <1>14
<1>16. Len(es) \in Nat
  BY <1>9
<1>17. q \in Seq(Shots) /\ Len(q) = Len(es) /\ Thinned(q, t, b)
  <2>1. PICK n \in Nat : n = Len(es)
    BY <1>16
  <2>2. b \in [1..n -> 1..Len(t)] /\ q = [k \in 1..n |-> t[b[k]]]
    BY <1>12, <1>15, <2>1
  <2>3. \A j, k \in 1..n : j < k => b[j] < b[k]
    BY <1>13, <2>1
  <2>4. q \in Seq(Shots) /\ Len(q) = n /\ Thinned(q, t, b)
    BY <2>2, <2>3, ThinnedType
  <2> QED
    BY <2>1, <2>4
<1>18. ASSUME c = Len(t), t # <<>> PROVE q # <<>> /\ b[Len(q)] = Len(t)
  <2>1. c > 0
    <3>1. Len(t) # 0 /\ Len(t) \in Nat
      BY <1>18
    <3> QED
      BY <1>18, <3>1
  <2>2. Len(es) > 0 /\ es[Len(es)].index = c - 1
    BY <1>9, <2>1
  <2>3. Len(es) \in 1..Len(es)
    BY <1>16, <2>2
  <2>4. b[Len(es)] = a[c]
    BY <1>1, <1>14, <2>2, <2>3
  <2>5. a[c] = c
    BY <1>1, <1>3, <1>18, <2>1
  <2>6. q # <<>>
    BY <1>17, <2>2
  <2> QED
    BY <1>17, <1>18, <2>4, <2>5, <2>6
<1>19. ASSUME c = Len(t), NEW k \in 1..Len(h.entries) PROVE \E j \in 1..Len(q) : b[j] = h.entries[k].index + 1
  <2>1. k \in 1..Len(es) /\ es[k] = h.entries[k]
    BY <1>1, <1>9, <1>16
  <2>2. b[k] = es[k].index + 1
    BY <1>3, <1>11, <1>14, <1>19, <2>1
  <2> QED
    BY <1>17, <2>1, <2>2
<1> QED
  BY <1>17, <1>18, <1>19 DEF q

-----------------------------------------------------------------------------
(* Loading samples puts them in the order of time                          *)

Earlier(q, j, i) ==
    \/ q[j].stamp < q[i].stamp
    \/ q[j].stamp = q[i].stamp /\ j < i

Sooner(q, i) == {j \in DOMAIN q : Earlier(q, j, i)}

\* Time, then order of arrival, is a strict order of finitely many samples.
LEMMA SoonerIs ==
    ASSUME NEW q \in Seq(Shots), NEW i \in 1..Len(q)
    PROVE  /\ IsFiniteSet(Sooner(q, i)) /\ i \notin Sooner(q, i) /\ Cardinality(Sooner(q, i)) + 1 \in 1..Len(q)
           /\ Cardinality(Sooner(q, i)) \in Nat
           /\ \A j \in 1..Len(q) : i # j => i \in Sooner(q, j) \/ j \in Sooner(q, i)
           /\ \A j \in Sooner(q, i) : Cardinality(Sooner(q, j)) < Cardinality(Sooner(q, i))
<1>1. Len(q) \in Nat /\ DOMAIN q = 1..Len(q) /\ \A j \in 1..Len(q) : q[j].stamp \in Nat
  BY ShotIs
<1>2. \A j \in 1..Len(q) : Sooner(q, j) \subseteq (1..Len(q)) \ {j} /\ IsFiniteSet(Sooner(q, j))
  <2> SUFFICES ASSUME NEW j \in 1..Len(q) PROVE Sooner(q, j) \subseteq (1..Len(q)) \ {j} /\ IsFiniteSet(Sooner(q, j))
    OBVIOUS
  <2>1. Sooner(q, j) \subseteq (1..Len(q)) \ {j}
    BY <1>1 DEF Sooner, Earlier
  <2> QED
    BY <1>1, <2>1, PlacesFinite
<1>3. Cardinality(Sooner(q, i)) \in Nat /\ Cardinality(Sooner(q, i)) <= Len(q) - 1
  <2> DEFINE rest == (1..Len(q)) \ {i}
  <2>1. IsFiniteSet(1..Len(q)) /\ Cardinality(1..Len(q)) = Len(q)
    <3>1. PICK n \in Nat : n = Len(q)
      BY <1>1
    <3>2. IsFiniteSet(1..n) /\ Cardinality(1..n) = IF 1 > n THEN 0 ELSE n - 1 + 1
      BY FS_Interval
    <3>3. Cardinality(1..n) = n
      BY <3>2
    <3> QED
      BY <3>1, <3>2, <3>3
  <2>2. IsFiniteSet(rest) /\ Cardinality(rest) = Len(q) - 1
    <3>1. i \in 1..Len(q)
      OBVIOUS
    <3>2. IsFiniteSet(rest) /\ Cardinality(rest) = IF i \in 1..Len(q) THEN Cardinality(1..Len(q)) - 1 ELSE Cardinality(1..Len(q))
      BY <2>1, FS_RemoveElement, Zenon
    <3> HIDE DEF rest
    <3> QED
      BY <2>1, <3>1, <3>2
  <2> HIDE DEF rest
  <2>3. Sooner(q, i) \in SUBSET rest
    BY <1>2 DEF rest
  <2> QED
    BY <2>2, <2>3, FS_Subset, FS_CardinalityType
<1>4. \A j \in 1..Len(q) : i # j => i \in Sooner(q, j) \/ j \in Sooner(q, i)
  BY <1>1 DEF Sooner, Earlier
<1>5. ASSUME NEW j \in Sooner(q, i) PROVE Cardinality(Sooner(q, j)) < Cardinality(Sooner(q, i))
  <2>1. j \in 1..Len(q) /\ Earlier(q, j, i)
    BY <1>1 DEF Sooner
  <2>2. ASSUME NEW k \in 1..Len(q), Earlier(q, k, j) PROVE Earlier(q, k, i)
    <3>1. q[i].stamp \in Nat /\ q[j].stamp \in Nat /\ q[k].stamp \in Nat /\ i \in Nat /\ j \in Nat /\ k \in Nat
      BY <1>1, <2>1
    <3> QED
      BY <2>1, <2>2, <3>1 DEF Earlier
  <2>3. Sooner(q, j) \in SUBSET Sooner(q, i) /\ Sooner(q, j) # Sooner(q, i)
    <3>1. Sooner(q, j) \in SUBSET Sooner(q, i)
      BY <1>1, <2>2 DEF Sooner
    <3>2. j \notin Sooner(q, j)
      BY <1>2, <2>1
    <3> QED
      BY <3>1, <3>2
  <2>4. Cardinality(Sooner(q, j)) <= Cardinality(Sooner(q, i)) /\ Cardinality(Sooner(q, i)) # Cardinality(Sooner(q, j))
    BY <1>2, <2>1, <2>3, FS_Subset
  <2>5. Cardinality(Sooner(q, j)) \in Nat
    BY <1>2, <2>1, FS_CardinalityType
  <2> QED
    BY <1>3, <2>4, <2>5
<1> QED
  BY <1>1, <1>2, <1>3, <1>4, <1>5

\* p says where in q the loaded samples were; each was somewhere else.
LEMMA LoadIs ==
    ASSUME NEW q \in Seq(Shots)
    PROVE  /\ LoadSamples(q) \in Seq(Shots) /\ Len(LoadSamples(q)) = Len(q)
           /\ \E p : /\ p \in [1..Len(q) -> 1..Len(q)] /\ \A j, k \in 1..Len(q) : p[j] = p[k] => j = k
                     /\ \A k \in 1..Len(q) : /\ LoadSamples(q)[k] = q[p[k]]
                                             /\ Cardinality(Sooner(q, p[k])) = k - 1
<1> DEFINE n == Len(q)
           f == [i \in 1..n |-> Cardinality(Sooner(q, i)) + 1]
           p == [k \in DOMAIN q |-> CHOOSE i \in DOMAIN q : Cardinality(Sooner(q, i)) = k - 1]
<1>1. n \in Nat /\ DOMAIN q = 1..n
  OBVIOUS
<1>2. LoadSamples(q) = [k \in 1..n |-> q[p[k]]]
  <2>1. LoadSamples(q) = [k \in DOMAIN q |-> q[CHOOSE i \in DOMAIN q : Cardinality(Sooner(q, i)) = k - 1]]
    BY Zenon DEF LoadSamples, Sooner, Earlier
  <2>2. \A k \in DOMAIN q : p[k] = CHOOSE i \in DOMAIN q : Cardinality(Sooner(q, i)) = k - 1
    OBVIOUS
  <2> HIDE DEF p
  <2>3. LoadSamples(q) = [k \in DOMAIN q |-> q[p[k]]]
    BY <2>1, <2>2, Zenon
  <2> QED
    BY <1>1, <2>3
<1>3. f \in Injection(1..n, 1..n)
  <2>1. \A i \in 1..n : Cardinality(Sooner(q, i)) + 1 \in 1..n
    BY SoonerIs
  <2>2. ASSUME NEW i \in 1..n, NEW j \in 1..n, f[i] = f[j] PROVE i = j
    <3>1. Cardinality(Sooner(q, i)) \in Nat /\ Cardinality(Sooner(q, j)) \in Nat
      BY SoonerIs
    <3>2. Cardinality(Sooner(q, i)) = Cardinality(Sooner(q, j))
      BY <2>2, <3>1
    <3>3. i # j => i \in Sooner(q, j) \/ j \in Sooner(q, i)
      BY SoonerIs
    <3>4. i \notin Sooner(q, j) /\ j \notin Sooner(q, i)
      BY <3>1, <3>2, SoonerIs
    <3> QED
      BY <3>3, <3>4
  <2>3. f \in [1..n -> 1..n]
    BY <2>1
  <2> HIDE DEF f
  <2> QED
    BY <2>2, <2>3 DEF Injection, IsInjective
<1>4. f \in Surjection(1..n, 1..n)
  <2> HIDE DEF f
  <2>1. IsFiniteSet(1..n)
    BY <1>1, FS_Interval
  <2> QED
    BY <1>3, <2>1, FS_Injection
<1>5. ASSUME NEW k \in 1..n PROVE p[k] \in 1..n /\ Cardinality(Sooner(q, p[k])) = k - 1
  <2>1. PICK i \in 1..n : f[i] = k
    BY <1>4 DEF Surjection
  <2>2. Cardinality(Sooner(q, i)) = k - 1
    <3>1. Cardinality(Sooner(q, i)) \in Nat
      BY SoonerIs
    <3> QED
      BY <2>1, <3>1
  <2>3. k \in DOMAIN q /\ i \in DOMAIN q
    BY <1>1
  <2>4. p[k] = CHOOSE j \in DOMAIN q : Cardinality(Sooner(q, j)) = k - 1
    BY <2>3
  <2>5. p[k] \in DOMAIN q /\ Cardinality(Sooner(q, p[k])) = k - 1
    <3> HIDE DEF p
    <3> QED
      BY <2>2, <2>3, <2>4, Zenon
  <2> QED
    BY <1>1, <2>5
<1> HIDE DEF f
<1>6. p \in [1..n -> 1..n]
  <2>1. p = [k \in 1..n |-> p[k]]
    BY <1>1
  <2> HIDE DEF p
  <2> QED
    BY <1>5, <2>1
<1> HIDE DEF p
<1>7. \A j, k \in 1..n : p[j] = p[k] => j = k
  <2> SUFFICES ASSUME NEW j \in 1..n, NEW k \in 1..n, p[j] = p[k] PROVE j = k
    OBVIOUS
  <2>1. j - 1 = k - 1
    BY <1>5
  <2> QED
    BY <1>1, <2>1
<1>8. \A k \in 1..n : q[p[k]] \in Shots
  BY <1>5
<1>9. LoadSamples(q) \in Seq(Shots) /\ Len(LoadSamples(q)) = n
  BY <1>1, <1>2, <1>8
<1>10. \A k \in 1..n : LoadSamples(q)[k] = q[p[k]] /\ Cardinality(Sooner(q, p[k])) = k - 1
  BY <1>2, <1>5
<1> QED
  BY <1>6, <1>7, <1>9, <1>10

\* Samples in order stay as they are (load_samples).
LEMMA LoadInOrder ==
    ASSUME NEW q \in Seq(Shots), \A i, j \in 1..Len(q) : i < j => q[i].stamp < q[j].stamp
    PROVE  LoadSamples(q) = q
<1>1. PICK n \in Nat : n = Len(q)
  OBVIOUS
<1>9. PICK p : /\ p \in [1..Len(q) -> 1..Len(q)] /\ \A j, k \in 1..Len(q) : p[j] = p[k] => j = k
               /\ \A k \in 1..Len(q) : /\ LoadSamples(q)[k] = q[p[k]]
                                       /\ Cardinality(Sooner(q, p[k])) = k - 1
  BY LoadIs
<1>2. /\ p \in [1..n -> 1..n]
      /\ \A k \in 1..n : LoadSamples(q)[k] = q[p[k]] /\ Cardinality(Sooner(q, p[k])) = k - 1
  BY <1>1, <1>9
<1>3. ASSUME NEW i \in 1..n PROVE Cardinality(Sooner(q, i)) = i - 1
  <2>1. \A j \in 1..n : q[j].stamp \in Nat
    BY <1>1, ShotIs
  <2>2. ASSUME NEW j \in 1..n PROVE Earlier(q, j, i) <=> j < i
    <3>1. q[i].stamp \in Nat /\ q[j].stamp \in Nat /\ (i < j => q[i].stamp < q[j].stamp) /\ (j < i => q[j].stamp < q[i].stamp)
      BY <1>1, <2>1
    <3> QED
      BY <3>1 DEF Earlier
  <2>6. DOMAIN q = 1..n
    BY <1>1
  <2>3. \A j : j \in Sooner(q, i) <=> j \in 1..i - 1
    BY <1>1, <2>2, <2>6 DEF Sooner
  <2>4. Sooner(q, i) = 1..i - 1
    BY <2>3
  <2>5. Cardinality(1..i - 1) = i - 1
    BY FS_Interval
  <2> QED
    BY <2>4, <2>5
<1>4. \A k \in 1..n : p[k] = k
  <2> SUFFICES ASSUME NEW k \in 1..n PROVE p[k] = k
    OBVIOUS
  <2>1. p[k] \in 1..n
    BY <1>2
  <2>2. p[k] - 1 = k - 1
    BY <1>2, <1>3, <2>1
  <2> QED
    BY <2>1, <2>2
<1>5. LoadSamples(q) \in Seq(Shots) /\ Len(LoadSamples(q)) = n
  BY <1>1, LoadIs
<1> QED
  BY <1>1, <1>2, <1>4, <1>5

-----------------------------------------------------------------------------
(* Some of the samples have no more episodes than all of them              *)

\* A thinned sample is the one at its position, and counts if that one does.
LEMMA ThinnedIs ==
    ASSUME NEW t \in Seq(Shots), NEW q \in Seq(Shots), NEW b, Thinned(q, t, b)
    PROVE  /\ Len(q) \in Nat /\ Len(t) \in Nat
           /\ \A k \in 1..Len(q) : b[k] \in 1..Len(t) /\ q[k] = t[b[k]] /\ (k \in SignalSamples(q) <=> b[k] \in SignalSamples(t))
           /\ \A j, k \in 1..Len(q) : j < k => b[j] < b[k]
<1>1. \A k \in 1..Len(q) : b[k] \in 1..Len(t) /\ q[k] = t[b[k]]
  BY DEF Thinned
<1>2. SignalSamples(q) = {k \in 1..Len(q) : q[k].kind = "ok"} /\ SignalSamples(t) = {k \in 1..Len(t) : t[k].kind = "ok"}
  BY OkIs
<1>3. \A k \in 1..Len(q) : k \in SignalSamples(q) <=> b[k] \in SignalSamples(t)
  BY <1>1, <1>2
<1> QED
  BY <1>1, <1>3 DEF Thinned

\* Thinned samples have no more episodes than all.
LEMMA FewerOpens ==
    ASSUME NEW t \in Seq(Shots), NEW q \in Seq(Shots), NEW b, Thinned(q, t, b), Reached(t)
    PROVE  Cardinality(Opens(q)) <= Cardinality(Opens(t))
<1> DEFINE f == [i \in Opens(q) |-> CHOOSE o \in Opens(t) : b[i] \in Run(t, o)]
<1>1. ASSUME NEW i \in Opens(q)
      PROVE  /\ i \in SignalSamples(q) /\ i \in 1..Len(q) /\ f[i] \in Opens(t) /\ b[i] \in Run(t, f[i]) /\ Before(q, i) = 0
  <2>1. i \in SignalSamples(q) /\ q[i].rank > 0 /\ i \in 1..Len(q) /\ Before(q, i) = 0
    BY OkIs DEF Opens
  <2>2. b[i] \in SignalSamples(t) /\ t[b[i]].rank > 0
    BY <2>1, ThinnedIs
  <2>3. \E o \in Opens(t) : b[i] \in Run(t, o)
    BY <2>2 DEF Reached
  <2>4. f[i] = CHOOSE o \in Opens(t) : b[i] \in Run(t, o)
    OBVIOUS
  <2> HIDE DEF f
  <2> QED
    BY <2>1, <2>3, <2>4
<1>2. f \in [Opens(q) -> Opens(t)]
  <2>1. f = [i \in Opens(q) |-> f[i]]
    OBVIOUS
  <2> HIDE DEF f
  <2> QED
    BY <1>1, <2>1
<1> HIDE DEF f
<1>3. ASSUME NEW i \in Opens(q), NEW j \in Opens(q), i < j, f[i] = f[j] PROVE FALSE
  <2>1. PICK o \in Opens(t) : b[i] \in Run(t, o) /\ b[j] \in Run(t, o)
    BY <1>1, <1>3
  <2>2. o \in SignalSamples(t) /\ t[o].rank > 0 /\ o \in Nat /\ i \in Nat /\ j \in Nat
    BY <1>1, OkIs DEF Opens
  <2>3. PICK k : Prior(q, k, j)
    BY <1>1, <1>3, <2>2, HasPrior
  <2>4. k \in SignalSamples(q) /\ k < j /\ i <= k /\ q[k].rank = 0 /\ k \in 1..Len(q)
    <3>1. Before(q, j) = q[k].rank
      BY <2>2, <2>3, BeforeIs
    <3> QED
      BY <1>1, <1>3, <2>3, <3>1, OkIs DEF Prior
  <2>5. b[k] \in SignalSamples(t) /\ t[b[k]].rank = 0 /\ b[k] < b[j] /\ b[i] <= b[k] /\ b[k] \in Nat /\ b[i] \in Nat /\ b[j] \in Nat
    <3>1. i = k \/ i < k
      BY <2>2, <2>4
    <3>2. b[i] \in Nat /\ b[j] \in Nat /\ b[k] \in Nat /\ b[k] < b[j]
      BY <1>1, <2>4, ThinnedIs
    <3>3. b[i] <= b[k]
      BY <1>1, <2>4, <3>1, <3>2, ThinnedIs
    <3> QED
      BY <2>4, <3>2, <3>3, ThinnedIs
  <2>6. o <= b[i]
    BY <2>1, <2>2, RunIs
  <2>7. b[k] \in SignalSamples(t) \cap (o..b[j])
    BY <2>2, <2>5, <2>6
  <2>8. t[b[k]].rank > 0
    BY <2>1, <2>7 DEF Run
  <2> QED
    BY <2>5, <2>8
<1>4. f \in Injection(Opens(q), Opens(t))
  <2>1. ASSUME NEW i \in Opens(q), NEW j \in Opens(q), f[i] = f[j] PROVE i = j
    <3>1. i \in Nat /\ j \in Nat
      BY <1>1
    <3> QED
      BY <1>3, <2>1, <3>1
  <2> QED
    BY <1>2, <2>1 DEF Injection, IsInjective
<1>5. IsFiniteSet(Opens(t))
  <2>1. Len(t) \in Nat
    OBVIOUS
  <2> QED
    BY <2>1, OpensIs, PlacesFinite
<1> QED
  BY <1>4, <1>5, FS_Injection

-----------------------------------------------------------------------------
(* A summary of some of the samples covers them all                        *)

Active(t) == {i \in 1..Len(t) : t[i].kind # "paused"}

\* The counts, together, are of the samples that were not paused.
LEMMA ActiveIs ==
    ASSUME NEW t \in Seq(Shots), NEW f \in FactsSet, CountsInv(t, f)
    PROVE  f.collected + f.failed = Cardinality(Active(t)) /\ Cardinality(Active(t)) \in Nat /\ IsFiniteSet(Active(t))
<1>1. Len(t) \in Nat /\ \A i \in 1..Len(t) : t[i] \in Shots /\ t[i].kind \in {"ok", "paused", "failed"}
  BY ShotIs
<1>2. Active(t) = At(t, Collected) \cup At(t, Failed) /\ At(t, Collected) \cap At(t, Failed) = {}
  BY <1>1 DEF Active, At, Collected, Failed
<1>3. \A C : IsFiniteSet(At(t, C)) /\ Cardinality(At(t, C)) \in Nat
  <2> SUFFICES ASSUME NEW C PROVE IsFiniteSet(At(t, C)) /\ Cardinality(At(t, C)) \in Nat
    OBVIOUS
  <2>1. IsFiniteSet(At(t, C))
    BY <1>1, PlacesFinite DEF At
  <2> QED
    BY <2>1, FS_CardinalityType
<1>4. IsFiniteSet(Active(t)) /\ Cardinality(Active(t)) =
        Cardinality(At(t, Collected)) + Cardinality(At(t, Failed)) - Cardinality(At(t, Collected) \cap At(t, Failed))
  BY <1>2, <1>3, FS_Union
<1>5. Cardinality(At(t, Collected) \cap At(t, Failed)) = 0
  BY <1>2, FS_EmptySet
<1> QED
  BY <1>3, <1>4, <1>5 DEF CountsInv

\* d says which sample of t each of q is.
Drawn(q, t, d) ==
    /\ d \in [1..Len(q) -> 1..Len(t)]
    /\ \A j, k \in 1..Len(q) : d[j] = d[k] => j = k
    /\ \A k \in 1..Len(q) : q[k] = t[d[k]]

\* Loaded samples are drawn from all, each once.
LEMMA LoadDrawn ==
    ASSUME NEW t \in Seq(Shots), NEW q \in Seq(Shots), NEW b, Thinned(q, t, b)
    PROVE  \E d : Drawn(LoadSamples(q), t, d)
<1>1. PICK n \in Nat : n = Len(q)
  OBVIOUS
<1>2. PICK p : /\ p \in [1..Len(q) -> 1..Len(q)] /\ \A j, k \in 1..Len(q) : p[j] = p[k] => j = k
               /\ \A k \in 1..Len(q) : /\ LoadSamples(q)[k] = q[p[k]]
                                       /\ Cardinality(Sooner(q, p[k])) = k - 1
  BY LoadIs
<1>3. \A k \in 1..n : p[k] \in 1..n /\ b[p[k]] \in 1..Len(t) /\ LoadSamples(q)[k] = t[b[p[k]]]
  BY <1>1, <1>2, ThinnedIs
<1>4. \A j, k \in 1..n : b[j] = b[k] => j = k
  <2> SUFFICES ASSUME NEW j \in 1..n, NEW k \in 1..n, b[j] = b[k] PROVE j = k
    OBVIOUS
  <2>1. b[j] \in Nat /\ b[k] \in Nat /\ (j < k => b[j] < b[k]) /\ (k < j => b[k] < b[j])
    <3>1. j \in 1..Len(q) /\ k \in 1..Len(q)
      BY <1>1
    <3>2. b[j] \in 1..Len(t) /\ b[k] \in 1..Len(t) /\ Len(t) \in Nat
      BY <3>1, ThinnedIs
    <3> QED
      BY <3>1, <3>2, ThinnedIs
  <2> QED
    BY <2>1
<1> DEFINE d == [k \in 1..n |-> b[p[k]]]
<1>5. d \in [1..n -> 1..Len(t)] /\ \A k \in 1..n : d[k] = b[p[k]]
  BY <1>3
<1> HIDE DEF d
<1>6. \A j, k \in 1..n : d[j] = d[k] => j = k
  <2> SUFFICES ASSUME NEW j \in 1..n, NEW k \in 1..n, d[j] = d[k] PROVE j = k
    OBVIOUS
  <2>1. p[j] \in 1..n /\ p[k] \in 1..n /\ b[p[j]] = b[p[k]]
    BY <1>3, <1>5
  <2>2. p[j] = p[k]
    BY <1>4, <2>1
  <2> QED
    BY <1>1, <1>2, <2>2
<1>7. Len(LoadSamples(q)) = n
  BY <1>1, LoadIs
<1>8. \A k \in 1..n : LoadSamples(q)[k] = t[d[k]]
  BY <1>3, <1>5
<1> DEFINE l == LoadSamples(q)
<1>9. Len(l) = n /\ \A k \in 1..n : l[k] = t[d[k]]
  BY <1>7, <1>8
<1> HIDE DEF l
<1>10. Drawn(l, t, d)
  BY <1>5, <1>6, <1>9 DEF Drawn
<1> QED
  BY <1>10 DEF l

\* No more of those drawn are active.
LEMMA FewerActive ==
    ASSUME NEW t \in Seq(Shots), NEW q \in Seq(Shots), NEW d, Drawn(q, t, d)
    PROVE  Cardinality(Active(q)) <= Cardinality(Active(t)) /\ Cardinality(Active(q)) \in Nat
<1> DEFINE f == [i \in Active(q) |-> d[i]]
<1>1. \A i \in Active(q) : i \in 1..Len(q) /\ d[i] \in Active(t)
  BY DEF Active, Drawn
<1>2. f \in [Active(q) -> Active(t)] /\ \A i \in Active(q) : f[i] = d[i]
  BY <1>1
<1> HIDE DEF f
<1>3. f \in Injection(Active(q), Active(t))
  <2>1. \A i, j \in Active(q) : f[i] = f[j] => i = j
    BY <1>1, <1>2 DEF Drawn
  <2> QED
    BY <1>2, <2>1 DEF Injection, IsInjective
<1>4. Len(t) \in Nat /\ Active(t) \subseteq 1..Len(t)
  BY DEF Active
<1>5. IsFiniteSet(Active(t))
  BY <1>4, PlacesFinite
<1>6. IsFiniteSet(Active(q)) /\ Cardinality(Active(q)) <= Cardinality(Active(t))
  BY <1>3, <1>5, FS_Injection
<1> QED
  BY <1>6, FS_CardinalityType

\* A member no other undercuts is the least.
LEMMA MinOf ==
    ASSUME NEW S, S \subseteq Nat, NEW m \in S, \A n \in S : m <= n
    PROVE  Min(S) = m
<1>1. Min(S) \in S /\ \A y \in S : Min(S) <= y
  BY DEF Min
<1>2. Min(S) <= m /\ m <= Min(S) /\ Min(S) \in Nat /\ m \in Nat
  BY <1>1
<1> QED
  BY <1>2

\* Both ends.
LEMMA EndsMatch ==
    ASSUME all \in Seq(Shots), facts \in FactsSet, EndsInv(all, facts),
           NEW l \in Seq(Shots), l # <<>>, NEW d, Drawn(l, all, d)
    PROVE  LET stamps == {all[i].stamp : i \in DOMAIN all} IN
           /\ Min({facts.first, l[1].stamp}) = Min(stamps)
           /\ Max({facts.last, Last(l).stamp}) = Max(stamps)
<1> DEFINE stamps == {all[i].stamp : i \in DOMAIN all}
<1>1. PICK n : n = Len(l) /\ n \in 1..Len(l) /\ 1 \in 1..Len(l) /\ Last(l) = l[n]
  <2>1. Len(l) \in Nat /\ Len(l) > 0 /\ Last(l) = l[Len(l)]
    BY DEF Last
  <2> QED
    BY <2>1
<1>2. d[1] \in 1..Len(all) /\ d[n] \in 1..Len(all) /\ l[1] = all[d[1]] /\ l[n] = all[d[n]]
  BY <1>1 DEF Drawn
<1>3. all # <<>> /\ DOMAIN all = 1..Len(all) /\ \A i \in 1..Len(all) : all[i].stamp \in Nat
  BY <1>2, ShotIs
<1>4. /\ facts.first \in stamps /\ facts.last \in stamps /\ \A x \in stamps : facts.first <= x /\ x <= facts.last
      /\ stamps \subseteq Nat
  BY <1>3 DEF EndsInv
<1>5. l[1].stamp \in stamps /\ Last(l).stamp \in stamps
  BY <1>1, <1>2, <1>3
<1> HIDE DEF stamps
<1>6. Min(stamps) = facts.first /\ Max(stamps) = facts.last
  BY <1>4, MinOf, MaxOf
<1>7. Min({facts.first, l[1].stamp}) = facts.first
  <2>1. PICK x : x = l[1].stamp /\ x \in stamps
    BY <1>5
  <2>2. x \in Nat /\ facts.first <= x /\ facts.first \in Nat
    BY <1>4, <2>1, Zenon
  <2>3. Min({facts.first, x}) = facts.first
    BY <2>2, MinPair
  <2> QED
    BY <2>1, <2>3
<1>8. Max({facts.last, Last(l).stamp}) = facts.last
  <2>1. PICK x : x = Last(l).stamp /\ x \in stamps
    BY <1>5
  <2>2. x \in Nat /\ x <= facts.last /\ facts.last \in Nat
    BY <1>4, <2>1, Zenon
  <2>3. Max({facts.last, x}) = facts.last
    BY <2>2, MaxPair
  <2> QED
    BY <2>1, <2>3
<1> QED
  BY <1>6, <1>7, <1>8 DEF stamps

\* No drawn severity exceeds the worst rank.
LEMMA SeverityBound ==
    ASSUME NEW t \in Seq(Shots), NEW w, MostIs(w, Ranks(t)), NEW l \in Seq(Shots), NEW d, Drawn(l, t, d)
    PROVE  Most({w} \cup Severities(l)) = w
<1>1. w \in Nat /\ \A n \in Ranks(t) : n <= w
  BY DEF MostIs
<1>2. ASSUME NEW i \in Opens(l) PROVE AlertEpisodes(l)[i].severity \in Nat /\ AlertEpisodes(l)[i].severity <= w
  <2>1. PICK j \in Run(l, i) : AlertEpisodes(l)[i].severity = l[j].rank
    BY EpisodesAre
  <2>2. j \in SignalSamples(l)
    BY RunIs DEF Opens
  <2>3. j \in 1..Len(l) /\ l[j].kind = "ok" /\ l[j].rank \in Nat
    BY <2>2, OkIs
  <2>4. d[j] \in 1..Len(t) /\ l[j] = t[d[j]]
    BY <2>3 DEF Drawn
  <2>5. d[j] \in SignalSamples(t)
    BY <2>3, <2>4, OkIs
  <2>6. l[j].rank \in Ranks(t)
    BY <2>4, <2>5 DEF Ranks
  <2> QED
    BY <1>1, <2>1, <2>3, <2>6
<1>3. \A n \in Severities(l) : n \in Nat /\ n <= w
  BY <1>2, EpisodesAre DEF Severities
<1> DEFINE S == {w} \cup Severities(l)
<1>4. S \subseteq Nat /\ w \in S /\ \A n \in S : n <= w
  BY <1>1, <1>3
<1> HIDE DEF S
<1>5. Most(S) = w
  BY <1>1, <1>4, MostOf DEF MostIs
<1> QED
  BY <1>5 DEF S

\* No drawn value exceeds the peak the facts keep.
LEMMA PeakBound ==
    ASSUME NEW t \in Seq(Shots), NEW f \in FactsSet, PeakInv(t, f), NEW l \in Seq(Shots), NEW d, Drawn(l, t, d)
    PROVE  (IF f.peak > 0 THEN f.peak ELSE Most({l[i].value : i \in {i \in DOMAIN l : MeasuredMetric(l[i])}})) = f.peak
<1> DEFINE S == {l[i].value : i \in {i \in DOMAIN l : MeasuredMetric(l[i])}}
           T == {t[i].value : i \in {i \in 1..Len(t) : MeasuredMetric(t[i])}}
<1>1. f.peak \in Nat /\ \A n \in T : n <= f.peak
  BY DEF PeakInv, MostIs
<1>2. DOMAIN l = 1..Len(l) /\ \A i \in 1..Len(l) : l[i].value \in Nat /\ d[i] \in 1..Len(t) /\ l[i] = t[d[i]]
  BY ShotIs DEF Drawn
<1>3. S \subseteq Nat /\ S \subseteq T
  BY <1>2
<1> HIDE DEF S, T
<1>4. ASSUME f.peak = 0 PROVE Most(S) = 0
  <2>1. MostIs(0, S)
    BY <1>1, <1>3, <1>4 DEF MostIs
  <2> QED
    BY <1>3, <2>1, MostOf
<1>5. (IF f.peak > 0 THEN f.peak ELSE Most(S)) = f.peak
  BY <1>1, <1>4
<1> QED
  BY <1>5 DEF S

\* What SummaryCoversAll says of one sequence of snapshots.
Covers(snapshots) ==
    LET summary == Summarize(Report(snapshots))
        exact == Cardinality(DOMAIN AlertEpisodes(all))
        stamps == {all[i].stamp : i \in DOMAIN all} IN
    /\ summary.peak = Peak
    /\ summary.worst = Worst
    /\ summary.samples = Cardinality({i \in DOMAIN all : all[i].kind # "paused"})
    /\ summary.started = Min(stamps) /\ summary.ended = Max(stamps)
    /\ summary.episodes >= exact
    /\ (\A i \in DOMAIN all : ~all[i].reset) => summary.episodes = exact

\* What a summary takes from the facts, and what from the snapshots (summarize).
LEMMA SummaryIs ==
    ASSUME NEW q
    PROVE  LET summary == Summarize(Report(q))
               l == LoadSamples(q) IN
           /\ summary.peak = IF facts.peak > 0 THEN facts.peak
                             ELSE Most({l[i].value : i \in {i \in DOMAIN l : MeasuredMetric(l[i])}})
           /\ summary.worst = Most({facts.worst} \cup Severities(l))
           /\ summary.episodes = Max({Cardinality(DOMAIN AlertEpisodes(l)), facts.episodes})
           /\ summary.samples = Max({Cardinality({i \in DOMAIN l : l[i].kind # "paused"}), facts.collected + facts.failed})
           /\ summary.started = Min({facts.first, l[1].stamp})
           /\ summary.ended = Max({facts.last, Last(l).stamp})
<1>1. Report(q).snapshots = q /\ Report(q).facts = facts
  BY DEF Report
<1> DEFINE r == Report(q)
           l == LoadSamples(q)
<1>2. r.snapshots = q /\ r.facts = facts
  BY <1>1
<1> HIDE DEF r
<1> DEFINE
    pk == IF facts.peak > 0 THEN facts.peak ELSE Most({l[i].value : i \in {i \in DOMAIN l : MeasuredMetric(l[i])}})
    ws == Most({facts.worst} \cup Severities(l))
    ep == Max({Cardinality(DOMAIN AlertEpisodes(l)), facts.episodes})
    sm == Max({Cardinality({i \in DOMAIN l : l[i].kind # "paused"}), facts.collected + facts.failed})
    st == Min({facts.first, l[1].stamp})
    en == Max({facts.last, Last(l).stamp})
<1>3. Summarize(r) = [peak |-> pk, worst |-> ws, episodes |-> ep, samples |-> sm, started |-> st, ended |-> en,
                      partial |-> facts.partial > 0]
  BY <1>2, Zenon DEF Summarize, Severities
<1> HIDE DEF pk, ws, ep, sm, st, en
<1>4. /\ Summarize(r).peak = pk /\ Summarize(r).worst = ws /\ Summarize(r).episodes = ep
      /\ Summarize(r).samples = sm /\ Summarize(r).started = st /\ Summarize(r).ended = en
  BY <1>3
<1> QED
  BY <1>4, Zenon DEF pk, ws, ep, sm, st, en, r

\* The summary of any thinned, non-empty report covers all samples.
LEMMA OneCovers ==
    ASSUME RecordInv, OrderInv(all), NEW q \in Seq(Shots), q # <<>>, NEW b, Thinned(q, all, b)
    PROVE  Covers(q)
<1> DEFINE l == LoadSamples(q)
           summary == Summarize(Report(q))
<1>1. /\ all \in Seq(Shots) /\ facts \in FactsSet /\ CountsInv(all, facts) /\ EndsInv(all, facts)
      /\ PeakInv(all, facts) /\ SignalInv(all, facts)
  BY DEF RecordInv, FactsInv
<1>2. l \in Seq(Shots) /\ Len(l) = Len(q) /\ l # <<>>
  <2>1. l \in Seq(Shots) /\ Len(l) = Len(q)
    BY LoadIs
  <2>2. Len(q) \in Nat /\ Len(q) # 0
    OBVIOUS
  <2> QED
    BY <2>1, <2>2
<1>3. PICK d : Drawn(l, all, d)
  BY <1>1, LoadDrawn
<1> HIDE DEF l, summary
<1>4. summary.peak = Peak
  <2>1. summary.peak = IF facts.peak > 0 THEN facts.peak
                       ELSE Most({l[i].value : i \in {i \in DOMAIN l : MeasuredMetric(l[i])}})
    BY SummaryIs, Zenon DEF l, summary
  <2>2. (IF facts.peak > 0 THEN facts.peak
         ELSE Most({l[i].value : i \in {i \in DOMAIN l : MeasuredMetric(l[i])}})) = facts.peak
    BY <1>1, <1>2, <1>3, PeakBound
  <2>3. Peak = facts.peak
    BY <1>1, PeakIs
  <2> QED
    BY <2>1, <2>2, <2>3, Zenon
<1>5. summary.worst = Worst
  <2>1. summary.worst = Most({facts.worst} \cup Severities(l))
    BY SummaryIs, Zenon DEF l, summary
  <2>2. MostIs(facts.worst, Ranks(all)) /\ Reached(all)
    BY <1>1 DEF SignalInv
  <2>3. Most({facts.worst} \cup Severities(l)) = facts.worst
    BY <1>1, <1>2, <1>3, <2>2, SeverityBound
  <2>4. facts.worst = Worst
    BY MatchFollows DEF FactsMatchSamples
  <2> QED
    BY <2>1, <2>3, <2>4, Zenon
<1>6. summary.samples = Cardinality({i \in DOMAIN all : all[i].kind # "paused"})
  <2>1. summary.samples = Max({Cardinality({i \in DOMAIN l : l[i].kind # "paused"}), facts.collected + facts.failed})
    BY SummaryIs, Zenon DEF l, summary
  <2>2. {i \in DOMAIN l : l[i].kind # "paused"} = Active(l) /\ {i \in DOMAIN all : all[i].kind # "paused"} = Active(all)
    BY <1>1, <1>2 DEF Active
  <2>3. PICK m : m = facts.collected + facts.failed /\ m = Cardinality(Active(all)) /\ m \in Nat
    BY <1>1, ActiveIs
  <2>4. PICK x : x = Cardinality(Active(l)) /\ x \in Nat /\ x <= m
    BY <1>1, <1>2, <1>3, <2>3, FewerActive
  <2>5. Max({x, m}) = m
    BY <2>3, <2>4, MaxPair
  <2> QED
    BY <2>1, <2>2, <2>3, <2>4, <2>5, Zenon
<1>7. LET stamps == {all[i].stamp : i \in DOMAIN all} IN summary.started = Min(stamps) /\ summary.ended = Max(stamps)
  <2>1. summary.started = Min({facts.first, l[1].stamp}) /\ summary.ended = Max({facts.last, Last(l).stamp})
    BY SummaryIs, Zenon DEF l, summary
  <2>2. /\ Min({facts.first, l[1].stamp}) = Min({all[i].stamp : i \in DOMAIN all})
        /\ Max({facts.last, Last(l).stamp}) = Max({all[i].stamp : i \in DOMAIN all})
    BY <1>1, <1>2, <1>3, EndsMatch, Zenon
  <2> QED
    BY <2>1, <2>2, Zenon
<1>8. PICK exact : exact = Cardinality(DOMAIN AlertEpisodes(all)) /\ exact = facts.episodes /\ exact \in Nat
                   /\ exact = Cardinality(Opens(all))
  BY <1>1, EpisodesAre, NumbersAre DEF SignalInv
<1>9. PICK x : x = Cardinality(DOMAIN AlertEpisodes(l)) /\ x = Cardinality(Opens(l)) /\ x \in Nat
  <2>1. DOMAIN AlertEpisodes(l) = Opens(l)
    BY <1>2, EpisodesAre
  <2>2. Opens(l) \subseteq 1..Len(l) /\ Len(l) \in Nat
    BY <1>2, OpensIs
  <2>3. Cardinality(Opens(l)) \in Nat
    BY <2>2, PlacesFinite, FS_CardinalityType
  <2> QED
    BY <2>1, <2>3
<1>10. summary.episodes = IF x >= exact THEN x ELSE exact
  <2>1. summary.episodes = Max({x, exact})
    BY <1>8, <1>9, SummaryIs, Zenon DEF l, summary
  <2> QED
    BY <1>8, <1>9, <2>1, MaxPair
<1>11. ASSUME \A i \in DOMAIN all : ~all[i].reset PROVE x <= exact
  <2>1. \A i, j \in 1..Len(all) : i < j => all[i].stamp < all[j].stamp
    BY <1>1, <1>11 DEF OrderInv
  <2>2. \A i, j \in 1..Len(q) : i < j => q[i].stamp < q[j].stamp
    <3> SUFFICES ASSUME NEW i \in 1..Len(q), NEW j \in 1..Len(q), i < j PROVE q[i].stamp < q[j].stamp
      OBVIOUS
    <3>1. b[i] \in 1..Len(all) /\ b[j] \in 1..Len(all) /\ b[i] < b[j] /\ q[i] = all[b[i]] /\ q[j] = all[b[j]]
      BY DEF Thinned
    <3> QED
      BY <2>1, <3>1
  <2>3. l = q
    BY <2>2, LoadInOrder DEF l
  <2>4. Reached(all)
    BY <1>1 DEF SignalInv
  <2>5. Cardinality(Opens(q)) <= Cardinality(Opens(all))
    BY <1>1, <2>4, FewerOpens
  <2> QED
    BY <1>8, <1>9, <2>3, <2>5
<1>12. summary.episodes >= exact /\ ((\A i \in DOMAIN all : ~all[i].reset) => summary.episodes = exact)
  BY <1>8, <1>9, <1>10, <1>11
<1> QED
  BY <1>4, <1>5, <1>6, <1>7, <1>8, <1>12, Zenon DEF Covers, summary

\* The quotient.
LEMMA DivIs ==
    ASSUME NEW a \in Nat, NEW d \in Nat \ {0}
    PROVE  a \div d \in Nat /\ d * (a \div d) <= a /\ a < d * (a \div d) + d
  OBVIOUS
\* Numbers a divisor apart have different quotients.
LEMMA DivLess ==
    ASSUME NEW a \in Nat, NEW b \in Nat, NEW d \in Nat \ {0}, a + d <= b
    PROVE  a \div d < b \div d
<1>1. PICK x \in Nat : x = a \div d /\ d * x <= a /\ a < d * x + d
  BY DivIs
<1>2. PICK y \in Nat : y = b \div d /\ d * y <= b /\ b < d * y + d
  BY DivIs
<1>3. d * x + d < d * y + d
  <2>1. d * x \in Int /\ d * y \in Int
    OBVIOUS
  <2> QED
    BY <1>1, <1>2, <2>1
<1>4. ASSUME y <= x PROVE FALSE
  <2>1. d * y <= d * x /\ d * y \in Int /\ d * x \in Int
    BY <1>4
  <2> QED
    BY <1>3, <2>1
<1> QED
  BY <1>1, <1>2, <1>4
\* A bound of the quotient.
LEMMA DivMost ==
    ASSUME NEW k \in Nat, NEW b \in Nat, NEW d \in Nat \ {0}, b <= k * d
    PROVE  b \div d <= k
<1>1. PICK y \in Nat : y = b \div d /\ d * y <= b
  BY DivIs
<1>2. ASSUME y > k PROVE FALSE
  <2>1. d * k < d * y /\ d * k = k * d /\ d * y \in Int /\ d * k \in Int
    BY <1>2
  <2> QED
    BY <1>1, <2>1
<1> QED
  BY <1>1, <1>2
\* Multiples of a number are that far apart.
LEMMA MulMono ==
    ASSUME NEW i \in Nat, NEW j \in Nat, NEW n \in Nat, i < j
    PROVE  i * n \in Nat /\ j * n \in Nat /\ i * n + n <= j * n
  OBVIOUS

\* A checkpoint's samples are thinned.
LEMMA PickedThinned ==
    ASSUME NEW s \in Seq(Shots)
    PROVE  Picked(s) \in Seq(Shots) /\ \E m : Thinned(Picked(s), s, m)
<1>1. PICK n \in Nat : n = Len(s)
  OBVIOUS
<1>2. Checkpoint \in Nat /\ Checkpoint >= 2
  BY RecordAssumption
<1>3. CASE n <= Checkpoint
  <2>1. Picked(s) = s
    BY <1>1, <1>3 DEF Picked
  <2> QED
    BY <2>1, SelfThinned
<1>4. CASE ~(n <= Checkpoint)
  <2>1. PICK c \in Nat : c = Checkpoint /\ c >= 2 /\ c < n
    BY <1>2, <1>4
  <2>2. PICK d \in Nat : d = c - 1 /\ d # 0
    BY <2>1
  <2>3. PICK e \in Nat : e = n - 1 /\ d <= e
    BY <2>1, <2>2
  <2> DEFINE m == [i \in 1..c |-> 1 + ((i - 1) * e) \div d]
  <2>4. Picked(s) = [i \in 1..c |-> s[1 + ((i - 1) * e) \div d]]
    BY <1>1, <1>4, <2>1, <2>2, <2>3 DEF Picked
  <2>5. ASSUME NEW i \in 1..c PROVE (i - 1) * e \in Nat /\ 1 + ((i - 1) * e) \div d \in 1..n
    <3>1. PICK a \in Nat : a = i - 1 /\ a <= d
      BY <2>2
    <3>2. a * e \in Nat /\ a * e <= e * d
      <4>1. CASE a = d
        BY <4>1
      <4>2. CASE a < d
        <5>1. a * e \in Nat /\ d * e \in Nat /\ a * e + e <= d * e
          BY <4>2, MulMono
        <5>2. d * e = e * d
          OBVIOUS
        <5> QED
          BY <5>1, <5>2
      <4> QED
        BY <3>1, <4>1, <4>2
    <3>3. (a * e) \div d <= e
      BY <2>2, <3>2, DivMost
    <3>4. (a * e) \div d \in Nat
      BY <2>2, <3>2, DivIs
    <3> QED
      BY <2>3, <3>1, <3>2, <3>3, <3>4
  <2>6. ASSUME NEW i \in 1..c, NEW j \in 1..c, i < j
        PROVE  1 + ((i - 1) * e) \div d < 1 + ((j - 1) * e) \div d
    <3>1. PICK a \in Nat : a = i - 1
      OBVIOUS
    <3>2. PICK b \in Nat : b = j - 1 /\ a < b
      BY <2>6, <3>1
    <3>3. a * e \in Nat /\ b * e \in Nat /\ a * e + e <= b * e
      BY <3>2, MulMono
    <3>4. a * e + d <= b * e
      BY <2>3, <3>3
    <3>5. (a * e) \div d < (b * e) \div d
      BY <2>2, <3>3, <3>4, DivLess
    <3>6. (a * e) \div d \in Nat /\ (b * e) \div d \in Nat
      BY <2>2, <3>3, DivIs
    <3> QED
      BY <3>1, <3>2, <3>5, <3>6
  <2>7. m \in [1..c -> 1..Len(s)] /\ \A i \in 1..c : m[i] = 1 + ((i - 1) * e) \div d
    BY <1>1, <2>5
  <2> HIDE DEF m
  <2>8. \A i, j \in 1..c : i < j => m[i] < m[j]
    BY <2>6, <2>7
  <2>9. Picked(s) = [i \in 1..c |-> s[m[i]]]
    BY <2>4, <2>7
  <2> QED
    BY <2>7, <2>8, <2>9, ThinnedType
<1> QED
  BY <1>3, <1>4

\* So are the ones of a smaller report.
LEMMA HalvedThinned ==
    ASSUME NEW s \in Seq(Shots)
    PROVE  Halved(s) \in Seq(Shots) /\ \E m : Thinned(Halved(s), s, m)
  BY SelectedThinned DEF Halved

\* Every report sums up every sample that was taken.
LEMMA SummaryFollows == WholeInv => SummaryCoversAll
<1> SUFFICES ASSUME WholeInv PROVE SummaryCoversAll
  OBVIOUS
<1>1. RecordInv /\ OrderInv(all) /\ all \in Seq(Shots) /\ hist \in HistSet /\ HistInv(all, hist)
  BY DEF WholeInv, RecordInv
<1> DEFINE stored == Stored(hist)
<1>2. stored \in Seq(Shots) /\ \E b : Thinned(stored, all, b)
  BY <1>1, StoredIs
<1> HIDE DEF stored
<1>3. PICK b : Thinned(stored, all, b)
  BY <1>2
<1>4. ASSUME NEW q \in Seq(Shots), NEW m, Thinned(q, stored, m), q # <<>> PROVE Covers(q)
  BY <1>1, <1>2, <1>3, <1>4, ThinnedTwice, OneCovers
<1>5. ASSUME NEW q \in {stored, Picked(stored), Halved(stored)}, q # <<>> PROVE Covers(q)
  <2>1. CASE q = stored
    BY <1>1, <1>2, <1>3, <1>5, <2>1, OneCovers
  <2>2. CASE q = Picked(stored)
    BY <1>2, <1>4, <1>5, <2>2, PickedThinned
  <2>3. CASE q = Halved(stored)
    BY <1>2, <1>4, <1>5, <2>3, HalvedThinned
  <2> QED
    BY <2>1, <2>2, <2>3
<1> QED
  BY <1>5, Zenon DEF SummaryCoversAll, Covers, stored

-----------------------------------------------------------------------------
(* What is drawn of thinned samples is what would be drawn of all          *)

\* Samples of one state have the same signal, warm-up, kind and life.
LEMMA StateSame ==
    ASSUME NEW s, NEW u, StateOf(s) = StateOf(u)
    PROVE  s.rank = u.rank /\ s.warming = u.warming /\ s.kind = u.kind /\ s.alive = u.alive
  BY DEF StateOf

\* q are samples of t with every change of state and the last.
Faithful(q, t, b) ==
    /\ Thinned(q, t, b) /\ q # <<>> /\ t # <<>> /\ b[Len(q)] = Len(t)
    /\ \A i \in Turns(t) : \E k \in 1..Len(q) : b[k] = i

\* l is the last of them up to j, and nothing has changed since.
Shows(q, t, b, l, j) ==
    /\ l \in 1..Len(q) /\ b[l] <= j /\ \A m \in 1..Len(q) : b[m] <= j => m <= l
    /\ \A i \in b[l]..j : StateOf(t[i]) = StateOf(t[j])

\* What does not turn stays the same.
LEMMA NoTurns ==
    ASSUME NEW t \in Seq(Shots), NEW r \in 1..Len(t), NEW j \in 1..Len(t), r <= j, \A i \in r + 1..j : i \notin Turns(t)
    PROVE  \A i \in r..j : StateOf(t[i]) = StateOf(t[r])
<1> DEFINE S == {k \in r..j : \A i \in r..k : StateOf(t[i]) = StateOf(t[r])}
<1>1. r \in Nat /\ j \in Nat /\ S \subseteq Nat /\ IsFiniteSet(S) /\ r \in S /\ Len(t) \in Nat
  <2>1. r \in Nat /\ j \in Nat /\ Len(t) \in Nat
    OBVIOUS
  <2>2. S \subseteq 1..j /\ r \in S
    BY <2>1
  <2> HIDE DEF S
  <2> QED
    BY <2>1, <2>2, PlacesFinite
<1>2. PICK k \in S : \A n \in S : n <= k
  <2> HIDE DEF S
  <2> QED
    BY <1>1, HasGreatest
<1>3. ASSUME k # j PROVE FALSE
  <2>1. k \in r..j /\ k + 1 \in r + 1..j /\ k + 1 \in 1..Len(t) /\ k + 1 # 1 /\ k \in Nat
    BY <1>1, <1>3
  <2>2. StateOf(t[k + 1]) = StateOf(t[k + 1 - 1])
    BY <2>1 DEF Turns
  <2>3. k + 1 - 1 = k
    BY <2>1
  <2>4. StateOf(t[k + 1]) = StateOf(t[r])
    BY <1>2, <2>1, <2>2, <2>3
  <2>5. \A i \in r..k + 1 : i \in r..k \/ i = k + 1
    BY <1>1, <2>1
  <2>6. k + 1 \in S
    BY <2>1, <2>4, <2>5
  <2> HIDE DEF S
  <2>7. k + 1 <= k
    BY <1>2, <2>6
  <2> QED
    BY <2>1, <2>7
<1> QED
  BY <1>3

\* The first sample is drawn, and the last.
LEMMA FirstTurns ==
    ASSUME NEW t \in Seq(Shots), NEW q \in Seq(Shots), NEW b, Faithful(q, t, b)
    PROVE  1 \in 1..Len(q) /\ b[1] = 1 /\ Len(q) \in 1..Len(q) /\ Len(t) \in 1..Len(t)
<1>1. Len(q) \in 1..Len(q) /\ 1 \in 1..Len(q) /\ Len(t) \in 1..Len(t) /\ 1 \in 1..Len(t)
  BY DEF Faithful
<1>2. PICK k \in 1..Len(q) : b[k] = 1
  BY <1>1 DEF Faithful, Turns
<1>3. b[1] \in 1..Len(t) /\ (1 < k => b[1] < b[k])
  BY <1>1, ThinnedIs DEF Faithful
<1> QED
  BY <1>1, <1>2, <1>3

\* Every sample is shown by one that is drawn.
LEMMA Shown ==
    ASSUME NEW t \in Seq(Shots), NEW q \in Seq(Shots), NEW b, Faithful(q, t, b), NEW j \in 1..Len(t)
    PROVE  \E l : Shows(q, t, b, l, j)
<1>1. /\ \A k \in 1..Len(q) : b[k] \in 1..Len(t)
      /\ \A k, m \in 1..Len(q) : k < m => b[k] < b[m]
      /\ Len(q) \in Nat /\ Len(t) \in Nat
  BY ThinnedIs DEF Faithful
<1> DEFINE S == {k \in 1..Len(q) : b[k] <= j}
<1>2. 1 \in S /\ S \subseteq 1..Len(q)
  BY FirstTurns
<1>3. PICK l \in S : \A m \in S : m <= l
  <2> HIDE DEF S
  <2> QED
    BY <1>1, <1>2, PlacesFinite, HasGreatest
<1>4. l \in 1..Len(q) /\ b[l] <= j /\ b[l] \in 1..Len(t) /\ \A m \in 1..Len(q) : b[m] <= j => m <= l
  BY <1>1, <1>3
<1>5. ASSUME NEW i \in b[l] + 1..j PROVE i \notin Turns(t)
  <2> SUFFICES ASSUME i \in Turns(t) PROVE FALSE
    OBVIOUS
  <2>1. PICK k \in 1..Len(q) : b[k] = i
    BY DEF Faithful
  <2>2. b[k] <= j /\ b[l] < b[k]
    BY <1>4, <2>1
  <2>3. k <= l
    BY <1>4, <2>2
  <2>4. k = l \/ k < l
    BY <1>4, <2>3
  <2>5. b[k] <= b[l]
    BY <1>1, <1>4, <2>4
  <2> QED
    BY <1>1, <1>4, <2>2, <2>5
<1>6. \A i \in b[l]..j : StateOf(t[i]) = StateOf(t[b[l]])
  BY <1>4, <1>5, NoTurns
<1>7. j \in b[l]..j
  BY <1>4
<1>8. \A i \in b[l]..j : StateOf(t[i]) = StateOf(t[j])
  BY <1>6, <1>7
<1> QED
  BY <1>4, <1>8 DEF Shows

\* What it shows.
LEMMA ShowsIs ==
    ASSUME NEW t \in Seq(Shots), NEW q \in Seq(Shots), NEW b, Faithful(q, t, b), NEW j \in 1..Len(t), NEW l, Shows(q, t, b, l, j)
    PROVE  /\ l \in 1..Len(q) /\ b[l] \in 1..Len(t) /\ b[l] <= j
           /\ q[l].rank = t[j].rank /\ q[l].kind = t[j].kind /\ q[l].warming = t[j].warming /\ q[l].alive = t[j].alive
           /\ l \in SignalSamples(q) <=> j \in SignalSamples(t)
           /\ \A m \in 1..Len(q) : b[m] <= j => m <= l
<1>1. l \in 1..Len(q) /\ b[l] \in 1..Len(t) /\ b[l] <= j /\ q[l] = t[b[l]]
  BY ThinnedIs DEF Faithful, Shows
<1>2. b[l] \in b[l]..j
  BY <1>1
<1>3. StateOf(q[l]) = StateOf(t[j])
  BY <1>1, <1>2 DEF Shows
<1>4. q[l].rank = t[j].rank /\ q[l].kind = t[j].kind /\ q[l].warming = t[j].warming /\ q[l].alive = t[j].alive
  BY <1>3, StateSame
<1>5. l \in SignalSamples(q) <=> j \in SignalSamples(t)
  BY <1>1, <1>4, OkIs
<1> QED
  BY <1>1, <1>4, <1>5 DEF Shows

\* The one before a drawn sample is shown by the one drawn before.
LEMMA ShownBefore ==
    ASSUME NEW t \in Seq(Shots), NEW q \in Seq(Shots), NEW b, Faithful(q, t, b), NEW k \in 2..Len(q)
    PROVE  b[k] - 1 \in 1..Len(t) /\ k - 1 \in 1..Len(q) /\ Shows(q, t, b, k - 1, b[k] - 1)
<1>1. /\ \A m \in 1..Len(q) : b[m] \in 1..Len(t)
      /\ \A l, m \in 1..Len(q) : l < m => b[l] < b[m]
      /\ Len(q) \in Nat /\ Len(t) \in Nat
  BY ThinnedIs DEF Faithful
<1>2. PICK p \in 1..Len(q) : p = k - 1 /\ p < k
  BY <1>1
<1>3. k \in 1..Len(q) /\ b[p] < b[k] /\ b[p] \in 1..Len(t) /\ b[k] \in 1..Len(t)
  BY <1>1, <1>2
<1>4. PICK j \in 1..Len(t) : j = b[k] - 1
  BY <1>1, <1>3
<1>5. PICK l : Shows(q, t, b, l, j)
  BY Shown
<1>6. l \in 1..Len(q) /\ b[l] <= j /\ \A m \in 1..Len(q) : b[m] <= j => m <= l
  BY <1>5, ShowsIs
<1>7. p <= l
  BY <1>2, <1>3, <1>4, <1>6
<1>8. l < k
  <2> SUFFICES ASSUME k <= l PROVE FALSE
    BY <1>2, <1>6
  <2>1. b[k] <= b[l] /\ b[l] \in 1..Len(t)
    BY <1>1, <1>3, <1>6
  <2> QED
    BY <1>3, <1>4, <1>6, <2>1
<1>9. l = p
  BY <1>2, <1>6, <1>7, <1>8
<1> QED
  BY <1>2, <1>4, <1>5, <1>9

\* The signal before it is the one drawn before.
LEMMA BeforeDrawn ==
    ASSUME NEW t \in Seq(Shots), NEW q \in Seq(Shots), NEW b, Faithful(q, t, b), NEW k \in 1..Len(q)
    PROVE  Before(q, k) = Before(t, b[k])
<1>1. /\ \A m \in 1..Len(q) : b[m] \in 1..Len(t) /\ q[m] = t[b[m]] /\ (m \in SignalSamples(q) <=> b[m] \in SignalSamples(t))
      /\ \A l, m \in 1..Len(q) : l < m => b[l] < b[m]
      /\ Len(q) \in Nat /\ Len(t) \in Nat
  BY ThinnedIs DEF Faithful
<1>2. b[k] \in Nat /\ k \in Nat /\ b[k] \in 1..Len(t)
  BY <1>1
<1>3. CASE \E j \in SignalSamples(t) : j < b[k]
  <2>1. PICK j : Prior(t, j, b[k])
    BY <1>2, <1>3, HasPrior
  <2>2. j \in SignalSamples(t) /\ j < b[k] /\ (\A i \in SignalSamples(t) : i < b[k] => i <= j) /\ j \in 1..Len(t)
    BY <2>1, OkIs DEF Prior
  <2>3. PICK l : Shows(q, t, b, l, j)
    BY <2>2, Shown
  <2>4. l \in 1..Len(q) /\ l \in SignalSamples(q) /\ q[l].rank = t[j].rank /\ b[l] <= j
        /\ \A m \in 1..Len(q) : b[m] <= j => m <= l
    BY <2>2, <2>3, ShowsIs
  <2>5. l < k
    <3> SUFFICES ASSUME k <= l PROVE FALSE
      BY <1>2, <2>4
    <3>1. b[k] <= b[l] /\ b[l] \in 1..Len(t)
      BY <1>1, <1>2, <2>4
    <3> QED
      BY <1>2, <2>2, <2>4, <3>1
  <2>6. ASSUME NEW m \in SignalSamples(q), m < k PROVE m <= l
    <3>1. m \in 1..Len(q)
      BY OkIs
    <3>2. b[m] \in SignalSamples(t) /\ b[m] < b[k]
      BY <1>1, <2>6, <3>1
    <3>3. b[m] <= j
      BY <2>2, <3>2
    <3> QED
      BY <2>4, <3>1, <3>3
  <2>7. Prior(q, l, k)
    BY <2>4, <2>5, <2>6 DEF Prior
  <2> QED
    BY <1>2, <2>1, <2>4, <2>7, BeforeIs
<1>4. CASE ~\E j \in SignalSamples(t) : j < b[k]
  <2>1. ASSUME NEW m \in SignalSamples(q) PROVE ~(m < k)
    <3>1. m \in 1..Len(q)
      BY OkIs
    <3> QED
      BY <1>1, <1>4, <3>1
  <2> QED
    BY <1>4, <2>1, BeforeNone
<1> QED
  BY <1>3, <1>4

\* All that changes is drawn.
LEMMA TurnDrawn ==
    ASSUME NEW t \in Seq(Shots), NEW q \in Seq(Shots), NEW b, Faithful(q, t, b), NEW i \in 1..Len(t),
           i = 1 \/ StateOf(t[i]) # StateOf(t[i - 1])
    PROVE  \E k \in 1..Len(q) : b[k] = i
  BY DEF Faithful, Turns

\* A signal that rises is a turn.
LEMMA RiseTurns ==
    ASSUME NEW t \in Seq(Shots), NEW i \in SignalSamples(t), t[i].rank > Before(t, i)
    PROVE  i \in 1..Len(t) /\ (i = 1 \/ StateOf(t[i]) # StateOf(t[i - 1]))
<1>1. i \in 1..Len(t) /\ t[i].kind = "ok" /\ t[i].rank \in Nat
  BY OkIs
<1> SUFFICES ASSUME i # 1, StateOf(t[i]) = StateOf(t[i - 1]) PROVE FALSE
  BY <1>1
<1>2. PICK p \in 1..Len(t) : p = i - 1 /\ p < i
  BY <1>1
<1>3. t[p].kind = "ok" /\ t[p].rank = t[i].rank
  BY <1>1, <1>2, StateSame
<1>4. p \in SignalSamples(t)
  BY <1>3, OkIs
<1>5. \A j \in SignalSamples(t) : j < i => j <= p
  BY <1>1, <1>2, OkIs
<1>6. Before(t, i) = t[p].rank
  <2>1. Prior(t, p, i)
    BY <1>2, <1>4, <1>5 DEF Prior
  <2> QED
    BY <1>1, <2>1, BeforeIs
<1> QED
  BY <1>1, <1>3, <1>6

\* What is raised is drawn, from what was raised before.
LEMMA RiseDrawn ==
    ASSUME NEW t \in Seq(Shots), NEW q \in Seq(Shots), NEW b, Faithful(q, t, b)
    PROVE  /\ \A i \in SignalSamples(t) : t[i].rank > Before(t, i) => \E k \in SignalSamples(q) : b[k] = i
           /\ \A k \in SignalSamples(q) : /\ b[k] \in SignalSamples(t) /\ q[k] = t[b[k]] /\ Before(q, k) = Before(t, b[k])
                                          /\ k \in 1..Len(q) /\ k \in Nat /\ b[k] \in Nat /\ b[k] \in 1..Len(t)
<1>1. ASSUME NEW i \in SignalSamples(t), t[i].rank > Before(t, i) PROVE \E k \in SignalSamples(q) : b[k] = i
  <2>1. i \in 1..Len(t) /\ (i = 1 \/ StateOf(t[i]) # StateOf(t[i - 1]))
    BY <1>1, RiseTurns
  <2>2. PICK k \in 1..Len(q) : b[k] = i
    BY <2>1, TurnDrawn
  <2>3. k \in SignalSamples(q)
    BY <2>2, ThinnedIs DEF Faithful
  <2> QED
    BY <2>2, <2>3
<1>2. ASSUME NEW k \in SignalSamples(q)
      PROVE /\ b[k] \in SignalSamples(t) /\ q[k] = t[b[k]] /\ Before(q, k) = Before(t, b[k])
            /\ k \in 1..Len(q) /\ k \in Nat /\ b[k] \in Nat /\ b[k] \in 1..Len(t)
  <2>1. k \in 1..Len(q)
    BY OkIs
  <2>2. b[k] \in SignalSamples(t) /\ q[k] = t[b[k]] /\ b[k] \in 1..Len(t)
    BY <2>1, ThinnedIs DEF Faithful
  <2> QED
    BY <2>1, <2>2, BeforeDrawn
<1> QED
  BY <1>1, <1>2

\* The changes of the signal drawn are those of all samples.
LEMMA ChangesDrawn ==
    ASSUME NEW t \in Seq(Shots), NEW q \in Seq(Shots), NEW b, Faithful(q, t, b)
    PROVE  Range(SignalChanges(q)) = Range(SignalChanges(t))
<1> DEFINE Of(s, i) == [stamp |-> s[i].stamp, severity |-> s[i].rank,
                        change |-> IF Before(s, i) = 0 THEN "raised" ELSE "escalated"]
           Rises(s) == {i \in SignalSamples(s) : s[i].rank > Before(s, i)}
<1>1. \A s : SignalChanges(s) = [i \in Rises(s) |-> Of(s, i)]
  BY DEF SignalChanges
<1>2. \A s : DOMAIN SignalChanges(s) = Rises(s) /\ \A i \in Rises(s) : SignalChanges(s)[i] = Of(s, i)
  BY <1>1
<1>3. \A s : \A x : x \in Range(SignalChanges(s)) <=> \E i \in Rises(s) : x = Of(s, i)
  BY <1>2 DEF Range
<1>4. \A i \in Rises(t) : \E k \in Rises(q) : Of(q, k) = Of(t, i)
  <2> SUFFICES ASSUME NEW i \in Rises(t) PROVE \E k \in Rises(q) : Of(q, k) = Of(t, i)
    OBVIOUS
  <2>1. PICK k \in SignalSamples(q) : b[k] = i
    BY RiseDrawn
  <2>2. q[k] = t[i] /\ Before(q, k) = Before(t, i)
    BY <2>1, RiseDrawn
  <2> QED
    BY <2>2
<1>5. \A k \in Rises(q) : \E i \in Rises(t) : Of(q, k) = Of(t, i)
  <2> SUFFICES ASSUME NEW k \in Rises(q) PROVE \E i \in Rises(t) : Of(q, k) = Of(t, i)
    OBVIOUS
  <2>1. q[k] = t[b[k]] /\ Before(q, k) = Before(t, b[k]) /\ b[k] \in SignalSamples(t)
    BY RiseDrawn
  <2>2. b[k] \in Rises(t)
    BY <2>1
  <2>3. Of(q, k) = Of(t, b[k])
    BY <2>1
  <2> QED
    BY <2>2, <2>3
<1> HIDE DEF Of, Rises
<1>6. \A x : x \in Range(SignalChanges(q)) <=> x \in Range(SignalChanges(t))
  BY <1>3, <1>4, <1>5
<1> QED
  BY <1>6

\* An episode is drawn with all its tiers.
LEMMA RunDrawn ==
    ASSUME NEW t \in Seq(Shots), NEW q \in Seq(Shots), NEW b, Faithful(q, t, b), NEW k \in SignalSamples(q)
    PROVE  /\ \A j \in Run(q, k) : \E i \in Run(t, b[k]) : q[j].rank = t[i].rank
           /\ \A i \in Run(t, b[k]) : \E j \in Run(q, k) : q[j].rank = t[i].rank
<1>1. /\ \A m \in 1..Len(q) : b[m] \in 1..Len(t) /\ q[m] = t[b[m]] /\ (m \in SignalSamples(q) <=> b[m] \in SignalSamples(t))
      /\ \A l, m \in 1..Len(q) : l < m => b[l] < b[m]
      /\ Len(q) \in Nat /\ Len(t) \in Nat
  BY ThinnedIs DEF Faithful
<1>2. k \in 1..Len(q) /\ b[k] \in SignalSamples(t)
  BY <1>1, OkIs
<1>3. \A l, m \in 1..Len(q) : l <= m => b[l] <= b[m]
  <2> SUFFICES ASSUME NEW l \in 1..Len(q), NEW m \in 1..Len(q), l <= m PROVE b[l] <= b[m]
    OBVIOUS
  <2>1. l = m \/ l < m
    OBVIOUS
  <2> QED
    BY <1>1, <2>1
<1>4. ASSUME NEW j \in Run(q, k) PROVE b[j] \in Run(t, b[k]) /\ q[j].rank = t[b[j]].rank
  <2>1. j \in SignalSamples(q) /\ j >= k /\ (\A m \in SignalSamples(q) \cap (k..j) : q[m].rank > 0) /\ j \in 1..Len(q)
    BY OkIs DEF Run
  <2>2. b[j] \in SignalSamples(t) /\ b[k] <= b[j] /\ b[j] \in 1..Len(t) /\ b[k] \in 1..Len(t)
    BY <1>1, <1>2, <1>3, <2>1
  <2>3. ASSUME NEW m \in SignalSamples(t) \cap (b[k]..b[j]) PROVE t[m].rank > 0
    <3>1. m \in 1..Len(t) /\ b[k] <= m /\ m <= b[j]
      BY <2>2, OkIs
    <3>2. PICK l : Shows(q, t, b, l, m)
      BY <3>1, Shown
    <3>3. l \in 1..Len(q) /\ l \in SignalSamples(q) /\ q[l].rank = t[m].rank /\ b[l] <= m
          /\ \A x \in 1..Len(q) : b[x] <= m => x <= l
      BY <3>1, <3>2, ShowsIs
    <3>4. k <= l
      BY <1>2, <3>1, <3>3
    <3>5. l <= j
      <4> SUFFICES ASSUME j < l PROVE FALSE
        BY <2>1, <3>3
      <4>1. b[j] < b[l] /\ b[l] \in 1..Len(t)
        BY <1>1, <2>1, <3>3
      <4> QED
        BY <2>2, <3>1, <3>3, <4>1
    <3>6. l \in SignalSamples(q) \cap (k..j)
      BY <3>3, <3>4, <3>5
    <3> QED
      BY <2>1, <3>3, <3>6
  <2>4. b[j] \in Run(t, b[k])
    BY <2>2, <2>3 DEF Run
  <2> QED
    BY <1>1, <2>1, <2>4
<1>5. ASSUME NEW i \in Run(t, b[k]) PROVE \E j \in Run(q, k) : q[j].rank = t[i].rank
  <2>1. i \in SignalSamples(t) /\ i >= b[k] /\ (\A m \in SignalSamples(t) \cap (b[k]..i) : t[m].rank > 0) /\ i \in 1..Len(t)
    BY OkIs DEF Run
  <2>2. PICK l : Shows(q, t, b, l, i)
    BY <2>1, Shown
  <2>3. l \in 1..Len(q) /\ l \in SignalSamples(q) /\ q[l].rank = t[i].rank /\ b[l] <= i /\ b[l] \in 1..Len(t)
        /\ \A x \in 1..Len(q) : b[x] <= i => x <= l
    BY <2>1, <2>2, ShowsIs
  <2>4. b[k] \in 1..Len(t) /\ k <= l
    BY <1>1, <1>2, <2>1, <2>3
  <2>5. ASSUME NEW m \in SignalSamples(q) \cap (k..l) PROVE q[m].rank > 0
    <3>1. m \in 1..Len(q) /\ k <= m /\ m <= l
      BY <2>4, OkIs
    <3>2. b[m] \in SignalSamples(t) /\ b[k] <= b[m] /\ b[m] <= b[l] /\ b[m] \in 1..Len(t) /\ q[m] = t[b[m]]
      BY <1>1, <1>2, <1>3, <2>3, <3>1
    <3>3. b[m] \in SignalSamples(t) \cap (b[k]..i)
      BY <2>1, <2>3, <2>4, <3>2
    <3> QED
      BY <2>1, <3>2, <3>3
  <2>6. l \in Run(q, k)
    BY <1>2, <2>3, <2>4, <2>5 DEF Run
  <2> QED
    BY <2>3, <2>6
<1> QED
  BY <1>4, <1>5

\* What SummaryCoversAll tells of the episodes.
ToldBy(samples) ==
    {<<AlertEpisodes(samples)[i].start, AlertEpisodes(samples)[i].severity>> : i \in DOMAIN AlertEpisodes(samples)}

\* So are the episodes.
LEMMA EpisodesDrawn ==
    ASSUME NEW t \in Seq(Shots), NEW q \in Seq(Shots), NEW b, Faithful(q, t, b)
    PROVE  ToldBy(q) = ToldBy(t)
<1>1. ASSUME NEW k \in Opens(q)
      PROVE  /\ b[k] \in Opens(t) /\ AlertEpisodes(q)[k].start = AlertEpisodes(t)[b[k]].start
             /\ AlertEpisodes(q)[k].severity = AlertEpisodes(t)[b[k]].severity
  <2>1. k \in SignalSamples(q) /\ q[k].rank > 0 /\ Before(q, k) = 0
    BY DEF Opens
  <2>2. b[k] \in Opens(t) /\ q[k] = t[b[k]]
    BY <2>1, RiseDrawn DEF Opens
  <2>3. PICK x \in Nat : /\ x = AlertEpisodes(q)[k].severity
                         /\ \E j \in Run(q, k) : x = q[j].rank
                         /\ \A j \in Run(q, k) : q[j].rank <= x
    BY EpisodesAre
  <2>4. PICK y \in Nat : /\ y = AlertEpisodes(t)[b[k]].severity
                         /\ \E j \in Run(t, b[k]) : y = t[j].rank
                         /\ \A j \in Run(t, b[k]) : t[j].rank <= y
    BY <2>2, EpisodesAre
  <2>5. x <= y
    <3>1. PICK j \in Run(q, k) : x = q[j].rank
      BY <2>3
    <3>2. PICK i \in Run(t, b[k]) : q[j].rank = t[i].rank
      BY <2>1, RunDrawn
    <3> QED
      BY <2>4, <3>1, <3>2
  <2>6. y <= x
    <3>1. PICK i \in Run(t, b[k]) : y = t[i].rank
      BY <2>4
    <3>2. PICK j \in Run(q, k) : q[j].rank = t[i].rank
      BY <2>1, RunDrawn
    <3> QED
      BY <2>3, <3>1, <3>2
  <2>7. AlertEpisodes(q)[k].start = AlertEpisodes(t)[b[k]].start
    BY <2>2, EpisodesAre
  <2> QED
    BY <2>2, <2>3, <2>4, <2>5, <2>6, <2>7
<1>2. ASSUME NEW i \in Opens(t) PROVE \E k \in Opens(q) : b[k] = i
  <2>1. i \in SignalSamples(t) /\ t[i].rank > 0 /\ Before(t, i) = 0
    BY DEF Opens
  <2>2. PICK k \in SignalSamples(q) : b[k] = i
    BY <2>1, RiseDrawn
  <2>3. k \in Opens(q)
    BY <2>1, <2>2, RiseDrawn DEF Opens
  <2> QED
    BY <2>2, <2>3
<1>3. DOMAIN AlertEpisodes(q) = Opens(q) /\ DOMAIN AlertEpisodes(t) = Opens(t)
  BY EpisodesAre
<1>4. \A x : x \in ToldBy(q) <=> \E k \in Opens(q) : x = <<AlertEpisodes(q)[k].start, AlertEpisodes(q)[k].severity>>
  BY <1>3 DEF ToldBy
<1>5. \A x : x \in ToldBy(t) <=> \E i \in Opens(t) : x = <<AlertEpisodes(t)[i].start, AlertEpisodes(t)[i].severity>>
  BY <1>3 DEF ToldBy
<1>6. \A x : x \in ToldBy(q) <=> x \in ToldBy(t)
  BY <1>1, <1>2, <1>4, <1>5
<1> QED
  BY <1>6

\* So are the exits.
LEMMA ExitsDrawn ==
    ASSUME NEW t \in Seq(Shots), NEW q \in Seq(Shots), NEW b, Faithful(q, t, b)
    PROVE  Exits(q) = Exits(t)
<1>1. /\ \A m \in 1..Len(q) : b[m] \in 1..Len(t) /\ q[m] = t[b[m]]
      /\ \A l, m \in 1..Len(q) : l < m => b[l] < b[m]
      /\ Len(q) \in Nat /\ Len(t) \in Nat /\ DOMAIN q = 1..Len(q) /\ DOMAIN t = 1..Len(t)
  BY ThinnedIs DEF Faithful
<1>2. \A x : x \in Exits(q) <=> \E k \in 1..Len(q) : k > 1 /\ q[k - 1].alive /\ ~q[k].alive /\ x = q[k].stamp
  BY <1>1 DEF Exits
<1>3. \A x : x \in Exits(t) <=> \E i \in 1..Len(t) : i > 1 /\ t[i - 1].alive /\ ~t[i].alive /\ x = t[i].stamp
  BY <1>1 DEF Exits
<1>4. ASSUME NEW k \in 1..Len(q), k > 1
      PROVE b[k] \in 1..Len(t) /\ b[k] > 1 /\ q[k] = t[b[k]] /\ q[k - 1].alive = t[b[k] - 1].alive
  <2>1. k \in 2..Len(q)
    BY <1>1, <1>4
  <2>2. b[k] - 1 \in 1..Len(t) /\ Shows(q, t, b, k - 1, b[k] - 1)
    BY <2>1, ShownBefore
  <2>3. q[k - 1].alive = t[b[k] - 1].alive
    BY <2>2, ShowsIs
  <2> QED
    BY <1>1, <2>2, <2>3
<1>5. ASSUME NEW i \in 1..Len(t), i > 1, t[i - 1].alive, ~t[i].alive
      PROVE \E k \in 1..Len(q) : b[k] = i /\ k > 1
  <2>1. StateOf(t[i]) # StateOf(t[i - 1])
    BY <1>5, StateSame
  <2>2. PICK k \in 1..Len(q) : b[k] = i
    BY <2>1, TurnDrawn
  <2>3. b[1] = 1
    BY FirstTurns
  <2> QED
    BY <1>1, <1>5, <2>2, <2>3
<1>6. ASSUME NEW x \in Exits(q) PROVE x \in Exits(t)
  <2>1. PICK k \in 1..Len(q) : k > 1 /\ q[k - 1].alive /\ ~q[k].alive /\ x = q[k].stamp
    BY <1>2
  <2>2. b[k] \in 1..Len(t) /\ b[k] > 1 /\ q[k] = t[b[k]] /\ q[k - 1].alive = t[b[k] - 1].alive
    BY <1>4, <2>1
  <2>3. t[b[k] - 1].alive /\ ~t[b[k]].alive /\ x = t[b[k]].stamp
    BY <2>1, <2>2
  <2> QED
    BY <1>3, <2>2, <2>3
<1>7. ASSUME NEW x \in Exits(t) PROVE x \in Exits(q)
  <2>1. PICK i \in 1..Len(t) : i > 1 /\ t[i - 1].alive /\ ~t[i].alive /\ x = t[i].stamp
    BY <1>3
  <2>2. PICK k \in 1..Len(q) : b[k] = i /\ k > 1
    BY <1>5, <2>1
  <2>3. q[k] = t[b[k]] /\ q[k - 1].alive = t[b[k] - 1].alive
    BY <1>4, <2>2
  <2>4. q[k - 1].alive /\ ~q[k].alive /\ x = q[k].stamp
    BY <2>1, <2>2, <2>3
  <2> QED
    BY <1>2, <2>2, <2>4
<1> QED
  BY <1>6, <1>7

\* A set of natural numbers has a least one.
LEMMA HasLeast ==
    ASSUME NEW S, S \subseteq Nat, S # {}
    PROVE  Min(S) \in S /\ \A n \in S : Min(S) <= n
<1> DEFINE R == OpToRel(<, Nat)
<1>1. R = {p \in Nat \X Nat : p[1] < p[2]}
  BY DEF OpToRel
<1>2. IsWellFoundedOn(R, Nat)
  BY NatLessThanWellFounded
<1> HIDE DEF R
<1>3. PICK x \in S : \A y \in S : ~(<<y, x>> \in R)
  BY <1>2, WFMin
<1>4. \A y \in S : x <= y
  <2> SUFFICES ASSUME NEW y \in S, y < x PROVE FALSE
    OBVIOUS
  <2>1. <<y, x>> \in R
    BY <1>1
  <2> QED
    BY <1>3, <2>1
<1>5. \E m \in S : \A n \in S : m <= n
  BY <1>4
<1> QED
  BY <1>5 DEF Min

Sorted(t) == \A i, j \in 1..Len(t) : i < j => t[i].stamp < t[j].stamp

Sounds(t) == {i \in SignalSamples(t) : t[i].rank > 0}

\* The alert a report is attributed by has the strongest tier there is.
LEMMA StrongestIs ==
    ASSUME NEW t \in Seq(Shots), Sorted(t), NEW x
    PROVE  x \in {s.rank : s \in StrongestAlert(t)}
             <=> \E i \in Sounds(t) : x = t[i].rank /\ \A j \in Sounds(t) : t[j].rank <= x
<1> DEFINE ranked == {t[i] : i \in Sounds(t)}
           strongest == {s \in ranked : \A u \in ranked : u.rank <= s.rank}
           R == {t[i].rank : i \in Sounds(t)}
<1>1. StrongestAlert(t) = IF ranked = {} THEN {} ELSE {CHOOSE s \in strongest : \A u \in strongest : u.stamp <= s.stamp}
  BY Zenon DEF StrongestAlert, Sounds
<1>2. \A i \in Sounds(t) : i \in 1..Len(t) /\ i \in Nat /\ t[i].rank \in Nat /\ t[i].stamp \in Nat
  BY OkIs DEF Sounds
<1>3. IsFiniteSet(Sounds(t))
  <2>1. Sounds(t) \subseteq SignalSamples(t)
    BY DEF Sounds
  <2> QED
    BY <2>1, OkIs, FS_Subset
<1>4. CASE Sounds(t) = {}
  <2>1. StrongestAlert(t) = {}
    BY <1>1, <1>4
  <2> QED
    BY <1>4, <2>1
<1>5. CASE Sounds(t) # {}
  <2>1. R \subseteq Nat /\ R # {} /\ IsFiniteSet(R)
    <3> DEFINE rank == [i \in Sounds(t) |-> t[i].rank]
    <3>1. rank \in Surjection(Sounds(t), R)
      BY DEF Surjection
    <3>2. R \subseteq Nat /\ R # {}
      BY <1>2, <1>5
    <3> HIDE DEF rank, R
    <3> QED
      BY <1>3, <3>1, <3>2, FS_Surjection
  <2>2. PICK w \in R : \A r \in R : r <= w
    <3> HIDE DEF R
    <3> QED
      BY <2>1, HasGreatest
  <2> DEFINE I == {i \in Sounds(t) : t[i].rank = w}
  <2>3. I \subseteq Nat /\ I # {} /\ IsFiniteSet(I)
    <3>1. I \subseteq Sounds(t) /\ I # {} /\ I \subseteq Nat
      BY <1>2, <2>2
    <3> HIDE DEF I
    <3> QED
      BY <1>3, <3>1, FS_Subset
  <2>4. PICK m \in I : \A i \in I : i <= m
    <3> HIDE DEF I
    <3> QED
      BY <2>3, HasGreatest
  <2>5. \A s : s \in strongest <=> \E i \in I : s = t[i]
    <3>1. \A i \in Sounds(t) : t[i].rank \in R
      OBVIOUS
    <3>2. ASSUME NEW s \in strongest PROVE \E i \in I : s = t[i]
      <4>1. PICK i \in Sounds(t) : s = t[i]
        OBVIOUS
      <4>2. w <= t[i].rank
        BY <2>2, <4>1
      <4>3. t[i].rank <= w /\ w \in Nat /\ t[i].rank \in Nat
        BY <1>2, <2>1, <2>2, <3>1
      <4> QED
        BY <4>1, <4>2, <4>3
    <3>3. ASSUME NEW i \in I PROVE t[i] \in strongest
      BY <2>2, <3>1
    <3> QED
      BY <3>2, <3>3
  <2> DEFINE c == CHOOSE s \in strongest : \A u \in strongest : u.stamp <= s.stamp
  <2>6. \A i \in I : t[i].stamp <= t[m].stamp
    <3> SUFFICES ASSUME NEW i \in I PROVE t[i].stamp <= t[m].stamp
      OBVIOUS
    <3>1. i <= m /\ i \in 1..Len(t) /\ m \in 1..Len(t) /\ t[i].stamp \in Nat /\ t[m].stamp \in Nat
      BY <1>2, <2>4
    <3>2. i = m \/ i < m
      BY <3>1
    <3> QED
      BY <3>1, <3>2 DEF Sorted
  <2>7. c \in strongest
    <3>1. \E s \in strongest : \A u \in strongest : u.stamp <= s.stamp
      BY <2>5, <2>6
    <3> HIDE DEF strongest
    <3> QED
      BY <3>1
  <2>8. ranked # {}
    BY <1>5
  <2>9. StrongestAlert(t) = {c}
    BY <1>1, <2>8, Zenon
  <2>10. c.rank = w
    BY <2>5, <2>7
  <2> HIDE DEF c, strongest, ranked, I
  <2>11. x \in {s.rank : s \in StrongestAlert(t)} <=> x = w
    BY <2>9, <2>10
  <2>12. \A i \in Sounds(t) : t[i].rank <= w
    BY <2>2
  <2>13. \E i \in Sounds(t) : t[i].rank = w
    BY <2>2
  <2>14. ASSUME NEW i \in Sounds(t), \A j \in Sounds(t) : t[j].rank <= t[i].rank PROVE t[i].rank = w
    <3>1. w <= t[i].rank /\ t[i].rank <= w /\ w \in Nat /\ t[i].rank \in Nat
      BY <1>2, <2>1, <2>2, <2>12, <2>13, <2>14
    <3> QED
      BY <3>1
  <2> QED
    BY <2>11, <2>12, <2>13, <2>14
<1> QED
  BY <1>4, <1>5

\* So is the strongest signal.
LEMMA StrongestDrawn ==
    ASSUME NEW t \in Seq(Shots), NEW q \in Seq(Shots), NEW b, Faithful(q, t, b), Sorted(t), Sorted(q)
    PROVE  {s.rank : s \in StrongestAlert(q)} = {s.rank : s \in StrongestAlert(t)}
<1>1. \A k \in Sounds(q) : \E i \in Sounds(t) : t[i].rank = q[k].rank
  BY RiseDrawn DEF Sounds
<1>2. ASSUME NEW i \in Sounds(t) PROVE \E k \in Sounds(q) : t[i].rank = q[k].rank
  <2>1. i \in 1..Len(t) /\ i \in SignalSamples(t) /\ t[i].rank > 0
    BY OkIs DEF Sounds
  <2>2. PICK l : Shows(q, t, b, l, i)
    BY <2>1, Shown
  <2>3. l \in SignalSamples(q) /\ q[l].rank = t[i].rank
    BY <2>1, <2>2, ShowsIs
  <2> QED
    BY <2>1, <2>3 DEF Sounds
<1>3. \A x : (\E i \in Sounds(q) : x = q[i].rank /\ \A j \in Sounds(q) : q[j].rank <= x)
               <=> (\E i \in Sounds(t) : x = t[i].rank /\ \A j \in Sounds(t) : t[j].rank <= x)
  BY <1>1, <1>2, Zenon
<1>4. \A x : x \in {s.rank : s \in StrongestAlert(q)} <=> x \in {s.rank : s \in StrongestAlert(t)}
  BY <1>3, StrongestIs
<1> QED
  BY <1>4

\* The lesser of two.
LEMMA MinLess == ASSUME NEW a \in Nat, NEW n \in Nat, a <= n PROVE Min({a, n}) = a
<1>1. a \in Int /\ n \in Int
  OBVIOUS
<1>2. Min({a, n}) = IF a <= n THEN a ELSE n
  BY <1>1, MinPair
<1> QED
  BY <1>2

\* The lesser of neighbours.
LEMMA MinNext == ASSUME NEW n \in Nat PROVE Min({n + 1, n}) = n
<1>1. PICK m \in Nat : m = n + 1
  OBVIOUS
<1>2. {n + 1, n} = {n, m} /\ n <= m
  BY <1>1
<1>3. Min({n, m}) = n
  BY <1>2, MinLess
<1> QED
  BY <1>2, <1>3, Zenon

Warming(t) == {i \in DOMAIN t : t[i].warming}

\* So is the span of the warm-up.
LEMMA WarmupDrawn ==
    ASSUME NEW t \in Seq(Shots), NEW q \in Seq(Shots), NEW b, Faithful(q, t, b)
    PROVE  WarmupSpan(q) = WarmupSpan(t)
<1> DEFINE n == Len(t)
           c == Len(q)
<1>1. /\ \A m \in 1..c : b[m] \in 1..n /\ q[m] = t[b[m]]
      /\ \A l, m \in 1..c : l < m => b[l] < b[m]
      /\ c \in Nat /\ n \in Nat /\ DOMAIN q = 1..c /\ DOMAIN t = 1..n /\ b[c] = n /\ c \in 1..c /\ b[1] = 1 /\ 1 \in 1..c
  BY ThinnedIs, FirstTurns DEF Faithful
<1>2. \A s : WarmupSpan(s) = IF Warming(s) = {} THEN <<>>
                             ELSE <<s[Min(Warming(s))].stamp, s[Min({Max(Warming(s)) + 1, Len(s)})].stamp>>
  BY DEF WarmupSpan, Warming
<1>3. \A m \in 1..c : m \in Warming(q) <=> b[m] \in Warming(t)
  BY <1>1 DEF Warming
<1>4. Warming(q) \subseteq 1..c /\ Warming(t) \subseteq 1..n
  BY <1>1 DEF Warming
<1>5. Warming(q) \subseteq Nat /\ Warming(t) \subseteq Nat /\ IsFiniteSet(Warming(t))
  BY <1>1, <1>4, PlacesFinite
<1>6. CASE Warming(t) = {}
  <2>1. Warming(q) = {}
    BY <1>3, <1>4, <1>6
  <2> QED
    BY <1>2, <1>6, <2>1
<1>7. CASE Warming(t) # {}
  <2>1. PICK i \in Warming(t) : i = Min(Warming(t)) /\ \A j \in Warming(t) : i <= j
    BY <1>5, <1>7, HasLeast
  <2>2. i \in 1..n /\ (i = 1 \/ StateOf(t[i]) # StateOf(t[i - 1]))
    <3>1. i \in 1..n
      BY <1>4, <2>1
    <3> SUFFICES ASSUME i # 1, StateOf(t[i]) = StateOf(t[i - 1]) PROVE FALSE
      BY <3>1
    <3>2. PICK p \in 1..n : p = i - 1 /\ p < i
      BY <1>1, <3>1
    <3>3. t[i].warming = t[p].warming
      BY <3>2, StateSame
    <3>4. p \in Warming(t)
      BY <1>1, <2>1, <3>2, <3>3 DEF Warming
    <3> QED
      BY <1>1, <2>1, <3>1, <3>2, <3>4
  <2>3. PICK k \in 1..c : b[k] = i
    BY <2>2, TurnDrawn
  <2>4. k \in Warming(q)
    BY <1>3, <2>1, <2>3
  <2>5. ASSUME NEW m \in Warming(q) PROVE k <= m
    <3>1. m \in 1..c /\ b[m] \in Warming(t) /\ b[m] \in 1..n
      BY <1>1, <1>3, <1>4
    <3>2. b[k] <= b[m] /\ b[k] \in 1..n
      BY <1>1, <2>1, <2>3, <3>1
    <3>3. m < k => b[m] < b[k]
      BY <1>1, <3>1
    <3> QED
      BY <1>1, <3>1, <3>2, <3>3
  <2>6. Min(Warming(q)) = k
    BY <1>5, <2>4, <2>5, MinOf
  <2>7. PICK j \in Warming(t) : j = Max(Warming(t)) /\ \A m \in Warming(t) : m <= j
    BY <1>5, <1>7, MaxIs
  <2>8. j \in 1..n
    BY <1>4, <2>7
  <2>9. q[Min(Warming(q))].stamp = t[Min(Warming(t))].stamp
    BY <1>1, <2>1, <2>3, <2>6
  <2>10. q[Min({Max(Warming(q)) + 1, c})].stamp = t[Min({Max(Warming(t)) + 1, n})].stamp
    <3>1. CASE j = n
      <4>1. c \in Warming(q)
        BY <1>1, <1>3, <2>7, <3>1
      <4>2. Max(Warming(q)) = c
        <5>1. \A m \in Warming(q) : m <= c
          BY <1>1, <1>4
        <5> QED
          BY <1>5, <4>1, <5>1, MaxOf
      <4>3. Min({c + 1, c}) = c /\ Min({n + 1, n}) = n
        BY <1>1, MinNext
      <4>4. Min({Max(Warming(q)) + 1, c}) = c
        BY <4>2, <4>3, Zenon
      <4>5. Min({Max(Warming(t)) + 1, n}) = n
        BY <2>7, <3>1, <4>3, Zenon
      <4>6. q[c] = t[n]
        BY <1>1
      <4> QED
        BY <4>4, <4>5, <4>6, Zenon
    <3>2. CASE j # n
      <4>0. n \in Nat /\ j \in 1..n /\ j # n
        BY <1>1, <2>8, <3>2
      <4>1. PICK a \in 1..n : a = j + 1
        BY <4>0
      <4>2. a \notin Warming(t)
        BY <2>7, <2>8, <4>1
      <4>3. t[a].warming # t[j].warming
        BY <1>1, <2>7, <4>2 DEF Warming
      <4>4. StateOf(t[a]) # StateOf(t[j])
        BY <4>3, StateSame
      <4>5. a - 1 = j
        BY <2>8, <4>1
      <4>6. PICK p \in 1..c : b[p] = a
        BY <4>4, <4>5, TurnDrawn
      <4>7. p \in 2..c
        <5>1. p # 1
          BY <1>1, <2>8, <4>1, <4>6
        <5> QED
          BY <1>1, <5>1
      <4>8. p - 1 \in 1..c /\ Shows(q, t, b, p - 1, j)
        BY <4>5, <4>6, <4>7, ShownBefore
      <4>9. PICK l \in 1..c : l = p - 1
        BY <4>8
      <4>10. q[l].warming = t[j].warming /\ \A m \in 1..c : b[m] <= j => m <= l
        BY <2>8, <4>8, <4>9, ShowsIs
      <4>11. l \in Warming(q)
        BY <1>1, <2>7, <4>10 DEF Warming
      <4>12. \A m \in Warming(q) : m <= l
        BY <1>3, <1>4, <2>7, <4>10
      <4>13. Max(Warming(q)) = l
        BY <1>5, <4>11, <4>12, MaxOf
      <4>14. l + 1 = p /\ p <= c /\ a <= n
        BY <1>1, <4>9
      <4>15. Min({p, c}) = p /\ Min({a, n}) = a
        BY <1>1, <4>14, MinLess
      <4>16. Min({Max(Warming(q)) + 1, c}) = p
        BY <4>13, <4>14, <4>15, Zenon
      <4>17. Min({Max(Warming(t)) + 1, n}) = a
        BY <2>7, <4>1, <4>15, Zenon
      <4>18. q[p] = t[a]
        BY <1>1, <4>6
      <4> QED
        BY <4>16, <4>17, <4>18, Zenon
    <3> QED
      BY <3>1, <3>2
  <2>11. Warming(q) # {}
    BY <2>4
  <2> QED
    BY <1>2, <1>7, <2>9, <2>10, <2>11
<1> QED
  BY <1>6, <1>7

PausedAt(t) == {i \in DOMAIN t : t[i].kind = "paused"}

PauseStarts(t) == {i \in PausedAt(t) : i - 1 \notin PausedAt(t)}

Afterwards(t, i) == {j \in DOMAIN t \ PausedAt(t) : j > i}

PauseEnd(t, i) == IF Afterwards(t, i) = {} THEN Len(t) ELSE Min(Afterwards(t, i))

\* The spans of pauses, each from its start to its end.
LEMMA PausesAre ==
    ASSUME NEW t
    PROVE  PausedSpans(t) = {<<t[i].stamp, t[PauseEnd(t, i)].stamp>> : i \in PauseStarts(t)}
  BY Zenon DEF PausedSpans, PauseStarts, PausedAt, PauseEnd, Afterwards

\* A pause ends with the next sample that is not paused, or the last sample.
LEMMA PauseEndIs ==
    ASSUME NEW t \in Seq(Shots), NEW i \in 1..Len(t)
    PROVE  /\ PauseEnd(t, i) \in i..Len(t) /\ i \in Nat
           /\ \A j \in i + 1..Len(t) : j < PauseEnd(t, i) \/ Afterwards(t, i) = {} => t[j].kind = "paused"
           /\ Afterwards(t, i) # {} => PauseEnd(t, i) \in Afterwards(t, i) /\ \A j \in Afterwards(t, i) : PauseEnd(t, i) <= j
           /\ Afterwards(t, i) = {} => PauseEnd(t, i) = Len(t)
           /\ Afterwards(t, i) = {j \in 1..Len(t) : t[j].kind # "paused" /\ j > i}
<1>1. DOMAIN t = 1..Len(t) /\ Len(t) \in Nat /\ i \in Nat
  OBVIOUS
<1>2. Afterwards(t, i) = {j \in 1..Len(t) : t[j].kind # "paused" /\ j > i}
  BY <1>1 DEF Afterwards, PausedAt
<1>3. Afterwards(t, i) \subseteq Nat
  BY <1>2
<1>4. CASE Afterwards(t, i) = {}
  <2>1. PauseEnd(t, i) = Len(t)
    BY <1>4 DEF PauseEnd
  <2>2. \A j \in i + 1..Len(t) : t[j].kind = "paused"
    BY <1>1, <1>2, <1>4
  <2>3. Len(t) \in i..Len(t)
    BY <1>1
  <2> QED
    BY <1>1, <1>2, <1>4, <2>1, <2>2, <2>3
<1>5. CASE Afterwards(t, i) # {}
  <2>1. PICK e : e = PauseEnd(t, i) /\ e \in Afterwards(t, i) /\ \A j \in Afterwards(t, i) : e <= j
    BY <1>3, <1>5, HasLeast DEF PauseEnd
  <2>2. e \in i..Len(t)
    BY <1>1, <1>2, <2>1
  <2>3. ASSUME NEW j \in i + 1..Len(t), j < e PROVE t[j].kind = "paused"
    <3> SUFFICES ASSUME t[j].kind # "paused" PROVE FALSE
      OBVIOUS
    <3>1. j \in Afterwards(t, i)
      BY <1>1, <1>2
    <3> QED
      BY <1>1, <2>1, <2>2, <2>3, <3>1
  <2> QED
    BY <1>1, <1>2, <1>5, <2>1, <2>2, <2>3
<1> QED
  BY <1>4, <1>5

\* A pause is drawn from its first sample to the one after it.
LEMMA PauseDrawn ==
    ASSUME NEW t \in Seq(Shots), NEW q \in Seq(Shots), NEW b, Faithful(q, t, b)
    PROVE  /\ \A k \in PauseStarts(q) : b[k] \in PauseStarts(t) /\ q[k] = t[b[k]] /\ q[PauseEnd(q, k)] = t[PauseEnd(t, b[k])]
           /\ \A i \in PauseStarts(t) : \E k \in PauseStarts(q) : b[k] = i
<1> DEFINE n == Len(t)
           c == Len(q)
<1>1. /\ \A m \in 1..c : b[m] \in 1..n /\ q[m] = t[b[m]]
      /\ \A l, m \in 1..c : l < m => b[l] < b[m]
      /\ c \in Nat /\ n \in Nat /\ DOMAIN q = 1..c /\ DOMAIN t = 1..n /\ b[c] = n /\ c \in 1..c /\ b[1] = 1 /\ 1 \in 1..c
  BY ThinnedIs, FirstTurns DEF Faithful
<1>2. PausedAt(t) = {i \in 1..n : t[i].kind = "paused"} /\ PausedAt(q) = {k \in 1..c : q[k].kind = "paused"}
  BY <1>1 DEF PausedAt
<1>3. ASSUME NEW k \in 1..c PROVE k - 1 \in PausedAt(q) <=> b[k] - 1 \in PausedAt(t)
  <2>1. CASE k = 1
    BY <1>1, <1>2, <2>1
  <2>2. CASE k # 1
    <3>1. k \in 2..c
      BY <1>1, <2>2
    <3>2. b[k] - 1 \in 1..n /\ k - 1 \in 1..c /\ Shows(q, t, b, k - 1, b[k] - 1)
      BY <3>1, ShownBefore
    <3>3. q[k - 1].kind = t[b[k] - 1].kind
      BY <3>2, ShowsIs
    <3> QED
      BY <1>2, <3>2, <3>3
  <2> QED
    BY <2>1, <2>2
<1>4. ASSUME NEW k \in 1..c PROVE k \in PauseStarts(q) <=> b[k] \in PauseStarts(t)
  <2>1. k \in PausedAt(q) <=> b[k] \in PausedAt(t)
    BY <1>1, <1>2
  <2> QED
    BY <1>3, <2>1 DEF PauseStarts
<1>5. ASSUME NEW i \in 1..n, t[i].kind # "paused" <=> i - 1 \in PausedAt(t), NEW j \in 1..n, j = i - 1
      PROVE  \E k \in 1..c : b[k] = i
  <2>1. t[i].kind # t[j].kind
    BY <1>2, <1>5
  <2>2. StateOf(t[i]) # StateOf(t[j])
    BY <2>1, StateSame
  <2> QED
    BY <1>5, <2>2, TurnDrawn
<1>6. ASSUME NEW i \in PauseStarts(t) PROVE \E k \in PauseStarts(q) : b[k] = i
  <2>1. i \in 1..n /\ t[i].kind = "paused" /\ i - 1 \notin PausedAt(t)
    BY <1>2 DEF PauseStarts
  <2>2. \E k \in 1..c : b[k] = i
    <3>1. CASE i = 1
      BY <1>1, <3>1
    <3>2. CASE i # 1
      <4>1. PICK j \in 1..n : j = i - 1
        BY <1>1, <2>1, <3>2
      <4> QED
        BY <1>5, <2>1, <4>1
    <3> QED
      BY <3>1, <3>2
  <2> QED
    BY <1>4, <2>2
<1>7. ASSUME NEW k \in PauseStarts(q) PROVE q[PauseEnd(q, k)] = t[PauseEnd(t, b[k])]
  <2>1. k \in 1..c /\ b[k] \in 1..n /\ q[k].kind = "paused" /\ t[b[k]].kind = "paused"
    BY <1>1, <1>2 DEF PauseStarts
  <2>2. Afterwards(q, k) = {j \in 1..c : q[j].kind # "paused" /\ j > k}
    BY <2>1, PauseEndIs
  <2>3. Afterwards(t, b[k]) = {j \in 1..n : t[j].kind # "paused" /\ j > b[k]}
    BY <2>1, PauseEndIs
  <2>4. \A m \in 1..c : m \in Afterwards(q, k) => b[m] \in Afterwards(t, b[k])
    BY <1>1, <2>1, <2>2, <2>3
  <2>5. CASE Afterwards(t, b[k]) = {}
    <3>1. Afterwards(q, k) = {}
      BY <2>2, <2>4, <2>5
    <3>2. PauseEnd(q, k) = c /\ PauseEnd(t, b[k]) = n
      BY <2>1, <2>5, <3>1, PauseEndIs
    <3> QED
      BY <1>1, <3>2
  <2>6. CASE Afterwards(t, b[k]) # {}
    <3>1. PICK e : /\ e = PauseEnd(t, b[k]) /\ e \in Afterwards(t, b[k]) /\ \A j \in Afterwards(t, b[k]) : e <= j
                   /\ \A j \in b[k] + 1..n : j < e => t[j].kind = "paused"
      BY <2>1, <2>6, PauseEndIs
    <3>2. e \in 1..n /\ t[e].kind # "paused" /\ e > b[k]
      BY <2>3, <3>1
    <3>3. PICK j \in 1..n : j = e - 1 /\ j >= b[k]
      BY <1>1, <2>1, <3>2
    <3>4. t[j].kind = "paused"
      <4>1. j = b[k] \/ j \in b[k] + 1..n
        BY <1>1, <2>1, <3>3
      <4> QED
        BY <2>1, <3>1, <3>2, <3>3, <4>1
    <3>5. PICK p \in 1..c : b[p] = e
      BY <1>2, <1>5, <3>2, <3>3, <3>4
    <3>6. p > k
      <4>1. p = k \/ p < k \/ p > k
        BY <1>1, <2>1
      <4>2. p < k => b[p] < b[k]
        BY <1>1, <2>1
      <4> QED
        BY <1>1, <2>1, <3>2, <3>5, <4>1, <4>2
    <3>7. p \in Afterwards(q, k)
      BY <1>1, <2>2, <3>2, <3>5, <3>6
    <3>8. ASSUME NEW m \in Afterwards(q, k) PROVE p <= m
      <4>1. m \in 1..c /\ e <= b[m] /\ b[m] \in 1..n
        BY <1>1, <2>2, <2>4, <3>1
      <4>2. m < p => b[m] < b[p]
        BY <1>1, <4>1
      <4> QED
        BY <1>1, <3>2, <3>5, <4>1, <4>2
    <3>9. PauseEnd(q, k) \in Afterwards(q, k) /\ \A m \in Afterwards(q, k) : PauseEnd(q, k) <= m
      BY <2>1, <3>7, PauseEndIs
    <3>10. PauseEnd(q, k) = p
      <4>1. PauseEnd(q, k) <= p /\ p <= PauseEnd(q, k)
        BY <3>7, <3>8, <3>9
      <4>2. PauseEnd(q, k) \in Nat
        BY <2>2, <3>9
      <4> QED
        BY <1>1, <4>1, <4>2
    <3> QED
      BY <1>1, <3>1, <3>5, <3>10
  <2> QED
    BY <2>5, <2>6
<1>8. ASSUME NEW k \in PauseStarts(q) PROVE b[k] \in PauseStarts(t) /\ q[k] = t[b[k]]
  <2>1. k \in 1..c
    BY <1>2 DEF PauseStarts
  <2> QED
    BY <1>1, <1>4, <2>1
<1> QED
  BY <1>6, <1>7, <1>8

\* So are the spans of pauses.
LEMMA PausesDrawn ==
    ASSUME NEW t \in Seq(Shots), NEW q \in Seq(Shots), NEW b, Faithful(q, t, b)
    PROVE  PausedSpans(q) = PausedSpans(t)
<1>1. \A s : \A x : x \in PausedSpans(s) <=> \E i \in PauseStarts(s) : x = <<s[i].stamp, s[PauseEnd(s, i)].stamp>>
  BY PausesAre
<1>2. ASSUME NEW x \in PausedSpans(q) PROVE x \in PausedSpans(t)
  <2>1. PICK k \in PauseStarts(q) : x = <<q[k].stamp, q[PauseEnd(q, k)].stamp>>
    BY <1>1
  <2>2. b[k] \in PauseStarts(t) /\ q[k] = t[b[k]] /\ q[PauseEnd(q, k)] = t[PauseEnd(t, b[k])]
    BY PauseDrawn
  <2>3. x = <<t[b[k]].stamp, t[PauseEnd(t, b[k])].stamp>>
    BY <2>1, <2>2
  <2> QED
    BY <1>1, <2>2, <2>3
<1>3. ASSUME NEW x \in PausedSpans(t) PROVE x \in PausedSpans(q)
  <2>1. PICK i \in PauseStarts(t) : x = <<t[i].stamp, t[PauseEnd(t, i)].stamp>>
    BY <1>1
  <2>2. PICK k \in PauseStarts(q) : b[k] = i
    BY PauseDrawn
  <2>3. q[k] = t[b[k]] /\ q[PauseEnd(q, k)] = t[PauseEnd(t, b[k])]
    BY PauseDrawn
  <2>4. x = <<q[k].stamp, q[PauseEnd(q, k)].stamp>>
    BY <2>1, <2>2, <2>3
  <2> QED
    BY <1>1, <2>4
<1> QED
  BY <1>2, <1>3

\* Under the shade of a pause nothing is measured.
LEMMA ShadeIs ==
    ASSUME NEW t \in Seq(Shots), Sorted(t), NEW shade \in PausedSpans(t), NEW i \in DOMAIN t,
           shade[1] < t[i].stamp, t[i].stamp < shade[2]
    PROVE  ChartSeries(t)[i] = -1
<1>1. PICK k \in PauseStarts(t) : shade = <<t[k].stamp, t[PauseEnd(t, k)].stamp>>
  BY PausesAre
<1>2. k \in 1..Len(t) /\ Len(t) \in Nat /\ i \in 1..Len(t)
  BY DEF PauseStarts, PausedAt
<1>3. PICK e \in k..Len(t) : /\ e = PauseEnd(t, k)
                             /\ \A j \in k + 1..Len(t) : j < e \/ Afterwards(t, k) = {} => t[j].kind = "paused"
                             /\ Afterwards(t, k) = {} => e = Len(t)
  BY <1>2, PauseEndIs
<1>4. e \in 1..Len(t) /\ shade[1] = t[k].stamp /\ shade[2] = t[e].stamp
  BY <1>1, <1>2, <1>3
<1>5. t[k].stamp \in Nat /\ t[i].stamp \in Nat /\ t[e].stamp \in Nat
  BY <1>2, <1>4, ShotIs
<1>6. k < i
  <2>1. i < k => t[i].stamp < t[k].stamp
    BY <1>2 DEF Sorted
  <2>2. i = k \/ i < k \/ k < i
    BY <1>2
  <2> QED
    BY <1>4, <1>5, <2>1, <2>2
<1>7. i < e
  <2>1. e < i => t[e].stamp < t[i].stamp
    BY <1>2, <1>4 DEF Sorted
  <2>2. i = e \/ i < e \/ e < i
    BY <1>2, <1>4
  <2> QED
    BY <1>4, <1>5, <2>1, <2>2
<1>8. t[i].kind = "paused"
  <2>1. i \in k + 1..Len(t)
    BY <1>2, <1>6
  <2> QED
    BY <1>3, <1>7, <2>1
<1> QED
  BY <1>8 DEF ChartSeries, MeasuredMetric, Measured

\* While every change of state has a pin and none was evicted, thinning loses nothing that is
\* drawn as a change.
LEMMA EpisodesFollow == WholeInv => EpisodesSurviveThinning
<1> SUFFICES ASSUME WholeInv, hist.count = Len(all), Changes <= Limit \div 4, \A i \in DOMAIN all : ~all[i].reset
             PROVE  LET drawn == LoadSamples(Stored(hist)) IN
                    /\ ToldBy(drawn) = ToldBy(all)
                    /\ Range(SignalChanges(drawn)) = Range(SignalChanges(all))
                    /\ {s.rank : s \in StrongestAlert(drawn)} = {s.rank : s \in StrongestAlert(all)}
                    /\ Exits(drawn) = Exits(all)
                    /\ WarmupSpan(drawn) = WarmupSpan(all)
                    /\ PausedSpans(drawn) = PausedSpans(all)
                    /\ \A shade \in PausedSpans(drawn) : \A i \in DOMAIN drawn :
                          shade[1] < drawn[i].stamp /\ drawn[i].stamp < shade[2] => ChartSeries(drawn)[i] = -1
  BY Zenon DEF EpisodesSurviveThinning, ToldBy
<1> DEFINE q == Stored(hist)
<1>1. all \in Seq(Shots) /\ OrderInv(all) /\ hist \in HistSet /\ HistInv(all, hist) /\ PinsInv(all, hist)
      /\ DOMAIN all = 1..Len(all) /\ Len(all) \in Nat
  BY DEF WholeInv, RecordInv
<1>2. Sorted(all)
  BY <1>1 DEF OrderInv, Sorted
<1>3. q \in Seq(Shots) /\ \E b : /\ Thinned(q, all, b)
                                 /\ hist.count = Len(all) /\ all # <<>> => q # <<>> /\ b[Len(q)] = Len(all)
                                 /\ hist.count = Len(all) =>
                                      \A k \in 1..Len(hist.entries) : \E j \in 1..Len(q) : b[j] = hist.entries[k].index + 1
  BY <1>1, StoredIs
<1> HIDE DEF q
<1>4. PICK b : /\ Thinned(q, all, b)
               /\ all # <<>> => q # <<>> /\ b[Len(q)] = Len(all)
               /\ \A k \in 1..Len(hist.entries) : \E j \in 1..Len(q) : b[j] = hist.entries[k].index + 1
  BY <1>3
<1>5. Sorted(q)
  <2>1. \A k \in 1..Len(q) : b[k] \in 1..Len(all) /\ q[k] = all[b[k]]
    BY <1>1, <1>3, <1>4, ThinnedIs
  <2>2. \A j, k \in 1..Len(q) : j < k => b[j] < b[k]
    BY <1>4 DEF Thinned
  <2> QED
    BY <1>2, <2>1, <2>2 DEF Sorted
<1>6. LoadSamples(q) = q
  BY <1>3, <1>5, LoadInOrder DEF Sorted
<1>7. \A shade \in PausedSpans(q) : \A i \in DOMAIN q :
         shade[1] < q[i].stamp /\ q[i].stamp < shade[2] => ChartSeries(q)[i] = -1
  BY <1>3, <1>5, ShadeIs
<1>8. CASE all = <<>>
  <2>1. Len(q) = 0
    <3>1. Len(q) \in Nat /\ Len(all) = 0 /\ \A k \in 1..Len(q) : b[k] \in 1..Len(all)
      BY <1>1, <1>3, <1>4, <1>8, ThinnedIs
    <3>2. 1 \notin 1..Len(q)
      BY <3>1
    <3> QED
      BY <3>1, <3>2
  <2>2. q = all
    BY <1>3, <1>8, <2>1
  <2> QED
    BY <1>6, <1>7, <2>2 DEF q
<1>9. CASE all # <<>>
  <2>1. Cardinality(Turns(all)) <= Limit \div 4
    <3>1. Changes = Cardinality(Turns(all))
      BY <1>1, Zenon DEF Changes, Turns
    <3> QED
      BY <3>1
  <2>2. ASSUME NEW i \in Turns(all) PROVE \E k \in 1..Len(q) : b[k] = i
    <3>1. PICK k \in 1..Len(hist.entries) : hist.entries[k].index = i - 1
      BY <1>1, <2>1 DEF PinsInv
    <3>2. i \in Nat
      BY <1>1 DEF Turns
    <3> QED
      BY <1>4, <3>1, <3>2
  <2>3. Faithful(q, all, b)
    BY <1>4, <1>9, <2>2 DEF Faithful
  <2>4. ToldBy(q) = ToldBy(all) /\ Range(SignalChanges(q)) = Range(SignalChanges(all))
    BY <1>1, <1>3, <2>3, EpisodesDrawn, ChangesDrawn
  <2>5. {s.rank : s \in StrongestAlert(q)} = {s.rank : s \in StrongestAlert(all)}
    BY <1>1, <1>2, <1>3, <1>5, <2>3, StrongestDrawn
  <2>6. Exits(q) = Exits(all) /\ WarmupSpan(q) = WarmupSpan(all) /\ PausedSpans(q) = PausedSpans(all)
    BY <1>1, <1>3, <2>3, ExitsDrawn, WarmupDrawn, PausesDrawn
  <2> QED
    BY <1>6, <1>7, <2>4, <2>5, <2>6, Zenon DEF q
<1> QED
  BY <1>8, <1>9

\* The facts, the thinned history, the reports and the timeline of a session all tell what its
\* samples were, for every length of the record (session_facts.py, history.py, analysis.py).
THEOREM RecordTrue == RecordSpec => []RecordIsTrue
<1>1. WholeInv => RecordIsTrue
  BY MatchFollows, EpisodesFollow, SummaryFollows, TimelineFollows DEF WholeInv, RecordIsTrue
<1> QED
  BY <1>1, WholeAlways, PTL
=============================================================================
