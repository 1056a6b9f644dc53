---------------------------- MODULE Subscription ----------------------------
(***************************************************************************)
(* Subscription and the shared callback workers (src/src/api.py).  Each    *)
(* subscription buffers a bounded number of events; a subscription with    *)
(* events waits its turn in one queue that all subscriptions of the        *)
(* process share, and a worker delivers one event per turn.                *)
(*                                                                         *)
(* One step is one section under the lock of a subscription, or one        *)
(* operation of the shared queue.  An event is the number of the offer it  *)
(* was made by.  A callback is user code: it returns, raises, or, for a    *)
(* subscription of "Hanging", may never end.                               *)
(***************************************************************************)
EXTENDS Naturals, Sequences, FiniteSets

CONSTANTS
    Subscriptions, \* the subscriptions
    Workers,     \* the callback workers (4 in the code)
    NoSub,       \* an idle worker's subscription
    QueueMax,    \* capacity of the shared queue (256)
    PendingMax,  \* events a subscription holds (64)
    Hanging,     \* subscriptions whose callback may never return
    MaxOffers    \* bound: events offered to one subscription

ASSUME SubsAssumption == NoSub \notin Subscriptions /\ Hanging \subseteq Subscriptions
ASSUME CapacityAssumption ==
    QueueMax \in Nat \ {0} /\ PendingMax \in Nat \ {0} /\ MaxOffers \in Nat

VARIABLES
    queue,      \* _CALLBACK_QUEUE
    holds,      \* the subscription a worker has taken
    at,         \* a worker: "idle", "taken" (before _deliver), "calling", "raised"
    pending,    \* _pending
    scheduled,  \* _scheduled
    closed,     \* _closed
    dropped,    \* _dropped
    failures,   \* _failures
    offered,    \* history: events offered while the subscription was open
    delivered   \* history: the events its callback was called with

workerVars == <<holds, at>>
bufferVars == <<pending, scheduled, closed, dropped, failures>>
historyVars == <<offered, delivered>>
dispatchVars == <<queue, workerVars, bufferVars, historyVars>>

DispatchTypeOK ==
    /\ queue \in Seq(Subscriptions) /\ Len(queue) <= QueueMax
    /\ holds \in [Workers -> Subscriptions \cup {NoSub}]
    /\ at \in [Workers -> {"idle", "taken", "calling", "raised"}]
    /\ pending \in [Subscriptions -> Seq(1..MaxOffers)]
    /\ \A s \in Subscriptions : Len(pending[s]) <= PendingMax
    /\ scheduled \in [Subscriptions -> BOOLEAN]
    /\ closed \in [Subscriptions -> BOOLEAN]
    /\ dropped \in [Subscriptions -> Nat]
    /\ failures \in [Subscriptions -> Nat]
    /\ offered \in [Subscriptions -> 0..MaxOffers]
    /\ delivered \in [Subscriptions -> Seq(1..MaxOffers)]

DispatchInit ==
    /\ queue = <<>>
    /\ holds = [w \in Workers |-> NoSub]
    /\ at = [w \in Workers |-> "idle"]
    /\ pending = [s \in Subscriptions |-> <<>>]
    /\ scheduled = [s \in Subscriptions |-> FALSE]
    /\ closed = [s \in Subscriptions |-> FALSE]
    /\ dropped = [s \in Subscriptions |-> 0]
    /\ failures = [s \in Subscriptions |-> 0]
    /\ offered = [s \in Subscriptions |-> 0]
    /\ delivered = [s \in Subscriptions |-> <<>>]

-----------------------------------------------------------------------------

\* Puts "s" in the shared queue, or drops all its events when that is full:
\* "events" is what it holds, "more" the events it has just dropped.
Schedule(s, events, more) ==
    IF Len(queue) < QueueMax
    THEN /\ queue' = Append(queue, s)
         /\ scheduled' = [scheduled EXCEPT ![s] = TRUE]
         /\ pending' = [pending EXCEPT ![s] = events]
         /\ dropped' = [dropped EXCEPT ![s] = @ + more]
    ELSE /\ dropped' = [dropped EXCEPT ![s] = @ + more + Len(events)]
         /\ pending' = [pending EXCEPT ![s] = <<>>]
         /\ scheduled' = [scheduled EXCEPT ![s] = FALSE]
         /\ UNCHANGED queue

\* _offer: a full buffer loses its oldest event.
Offer(s) ==
    /\ ~closed[s] /\ offered[s] < MaxOffers
    /\ offered' = [offered EXCEPT ![s] = @ + 1]
    /\ LET full == Len(pending[s]) = PendingMax
           events == Append(IF full THEN Tail(pending[s]) ELSE pending[s], offered[s] + 1)
           more == IF full THEN 1 ELSE 0
       IN IF scheduled[s]
          THEN /\ pending' = [pending EXCEPT ![s] = events]
               /\ dropped' = [dropped EXCEPT ![s] = @ + more]
               /\ UNCHANGED <<queue, scheduled>>
          ELSE Schedule(s, events, more)
    /\ UNCHANGED <<workerVars, closed, failures, delivered>>

\* close(): never waits for a callback that runs.
Close(s) ==
    /\ ~closed[s]
    /\ closed' = [closed EXCEPT ![s] = TRUE]
    /\ dropped' = [dropped EXCEPT ![s] = @ + Len(pending[s])]
    /\ pending' = [pending EXCEPT ![s] = <<>>]
    /\ UNCHANGED <<queue, workerVars, scheduled, failures, historyVars>>

\* A worker takes its next subscription.
Take(w) ==
    /\ at[w] = "idle" /\ queue # <<>>
    /\ holds' = [holds EXCEPT ![w] = Head(queue)]
    /\ at' = [at EXCEPT ![w] = "taken"]
    /\ queue' = Tail(queue)
    /\ UNCHANGED <<bufferVars, historyVars>>

ReleaseWorker(w) ==
    /\ holds' = [holds EXCEPT ![w] = NoSub]
    /\ at' = [at EXCEPT ![w] = "idle"]

\* _deliver finds nothing to do.
SkipTurn(w) ==
    /\ at[w] = "taken"
    /\ LET s == holds[w]
       IN /\ closed[s] \/ pending[s] = <<>>
          /\ scheduled' = [scheduled EXCEPT ![s] = FALSE]
    /\ ReleaseWorker(w)
    /\ UNCHANGED <<queue, pending, closed, dropped, failures, historyVars>>

\* Mutation: the turn is given back before the callback has run.
BeginCall_Unscheduled(w) ==
    /\ at[w] = "taken"
    /\ LET s == holds[w]
       IN /\ ~closed[s] /\ pending[s] # <<>>
          /\ delivered' = [delivered EXCEPT ![s] = Append(@, Head(pending[s]))]
          /\ pending' = [pending EXCEPT ![s] = Tail(@)]
          /\ scheduled' = [scheduled EXCEPT ![s] = FALSE]
    /\ at' = [at EXCEPT ![w] = "calling"]
    /\ UNCHANGED <<queue, holds, closed, dropped, failures, offered>>

\* _deliver takes one event and calls the user with it, outside the lock.
BeginCall(w) ==
    /\ at[w] = "taken"
    /\ LET s == holds[w]
       IN /\ ~closed[s] /\ pending[s] # <<>>
          /\ delivered' = [delivered EXCEPT ![s] = Append(@, Head(pending[s]))]
          /\ pending' = [pending EXCEPT ![s] = Tail(@)]
    /\ at' = [at EXCEPT ![w] = "calling"]
    /\ UNCHANGED <<queue, holds, scheduled, closed, dropped, failures, offered>>

\* The callback raises: a section of its own counts the failure.
CallRaises(w) ==
    /\ at[w] = "calling"
    /\ at' = [at EXCEPT ![w] = "raised"]
    /\ failures' = [failures EXCEPT ![holds[w]] = @ + 1]
    /\ UNCHANGED <<queue, holds, pending, scheduled, closed, dropped, offered, delivered>>

\* Mutation: a subscription with more events is not put back in the queue.
EndCall_NotRequeued(w) ==
    /\ at[w] \in {"calling", "raised"}
    /\ LET s == holds[w]
       IN /\ scheduled' = [scheduled EXCEPT ![s] = FALSE]
          /\ UNCHANGED <<queue, pending, dropped>>
    /\ ReleaseWorker(w)
    /\ UNCHANGED <<closed, failures, historyVars>>

\* The end of _deliver: the subscription goes back to the end of the queue
\* while it has events.
EndCall(w) ==
    /\ at[w] \in {"calling", "raised"}
    /\ LET s == holds[w]
       IN IF pending[s] # <<>> /\ ~closed[s]
          THEN Schedule(s, pending[s], 0)
          ELSE /\ scheduled' = [scheduled EXCEPT ![s] = FALSE]
               /\ UNCHANGED <<queue, pending, dropped>>
    /\ ReleaseWorker(w)
    /\ UNCHANGED <<closed, failures, historyVars>>

DispatchNext ==
    \/ \E s \in Subscriptions : Offer(s) \/ Close(s)
    \/ \E w \in Workers :
         Take(w) \/ SkipTurn(w) \/ BeginCall(w) \/ CallRaises(w) \/ EndCall(w)

\* Worker threads run; a callback that may hang need not end.
DispatchFairness ==
    \A w \in Workers :
        /\ WF_dispatchVars(Take(w)) /\ WF_dispatchVars(SkipTurn(w)) /\ WF_dispatchVars(BeginCall(w))
        /\ WF_dispatchVars(holds[w] \notin Hanging /\ EndCall(w))
        /\ WF_dispatchVars(at[w] = "raised" /\ EndCall(w))

DispatchSpec == DispatchInit /\ [][DispatchNext]_dispatchVars /\ DispatchFairness

-----------------------------------------------------------------------------
(* Correctness *)

Holders(s) == {w \in Workers : holds[w] = s}
Positions(s) == {i \in 1..Len(queue) : queue[i] = s}

\* The scheduled flag of a subscription stands for exactly one turn: one
\* place in the shared queue or one worker, never both or two.  Hence a
\* subscription runs at most one callback at a time.
\* (_offer 235-242, _deliver 247-268)
OneTurnEach ==
    \A s \in Subscriptions :
        Cardinality(Holders(s)) + Cardinality(Positions(s)) = IF scheduled[s] THEN 1 ELSE 0

\* No open subscription holds events without having a turn coming.
\* (_offer 235-242, _deliver 258-268)
NothingStranded ==
    \A s \in Subscriptions : pending[s] # <<>> => scheduled[s] /\ ~closed[s]

\* Both: a subscription's flag, its events and its turns tell the same story.
TurnsAreTrue == OneTurnEach /\ NothingStranded

\* To a subscriber the buffer is a queue that loses events only by count:
\* what is delivered comes once and in order, and offered = delivered +
\* pending + dropped at any time.
\* (close 221-226, _offer 228-242, _deliver 244-268)
Stream(s) == INSTANCE LossyQueue WITH
    sent <- offered[s], waiting <- pending[s],
    arrived <- delivered[s], lost <- dropped[s]
ImplementsLossyQueue ==
    /\ \A s \in Subscriptions : Stream(s)!Init
    /\ [][\A s \in Subscriptions : [Stream(s)!Next]_(Stream(s)!vars)]_dispatchVars

\* Hanging callbacks that leave a worker free stop no other subscription:
\* its buffer drains.
\* (_callback_worker 179-182, _deliver 244-268)
OthersDrain ==
    Cardinality(Hanging) < Cardinality(Workers) =>
        \A s \in Subscriptions \ Hanging : pending[s] # <<>> ~> pending[s] = <<>>
=============================================================================
