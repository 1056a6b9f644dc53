--------------------------- MODULE SessionProofs ----------------------------
(***************************************************************************)
(* Proofs about Session, Comparison, Baseline, Timeline and Privacy.       *)
(* Session: for queues of any length and any number of samples, errors and *)
(* presses of Ctrl+C.  Comparison and Baseline: for any reports, resources,*)
(* processes, groups of runs and limits.  Timeline: for any resources,     *)
(* processes, numbers of samples and limits.  Privacy: for any reports,    *)
(* PIDs, times and texts.                                                  *)
(***************************************************************************)
EXTENDS Session, Baseline, Timeline, Privacy, FiniteSetTheorems, SequenceTheorems, TLAPS


(***************************************************************************)
(* The cleanup of a session                                                *)
(***************************************************************************)

TypeInv == hits \in Nat /\ errors \in Nat

\* What is frozen is tracked, what is called complete is released, and no
\* cleanup ends unattempted.
TargetInv ==
    /\ tracked = "none" => ~frozen
    /\ cleanup = "complete" => tracked = "none"
    /\ pc \in {"new", "opened"} => tracked = "none" /\ cleanup = "not_attempted"
    /\ pc \in {"close", "failed", "ended", "over"} => cleanup # "not_attempted"

\* A thread no longer known has ended, and no thread runs before the first
\* sample nor beside the last.
SamplerInv ==
    /\ ~thread => sampler = "none"
    /\ pc \in {"new", "opened", "first", "ready", "last"} => sampler = "none"

\* An abort and a forced cleanup have their cause, and a cleanup that raised
\* once is about to be finished by force.
CauseInv ==
    /\ pc \in {"stop", "join"} => phase \in {"final", "abort", "shutdown", "force"}
    /\ pc \in {"cleanup", "close"} => phase \in {"abort", "shutdown", "force"}
    /\ phase = "final" => pc \in {"stop", "join", "poll", "last"}
    /\ phase \in {"abort", "force"} => hits + errors >= 1
    /\ half => hits + errors >= 1
    /\ half /\ hits + errors = 1 => phase = "force" /\ pc \in {"stop", "join", "cleanup"}

SessionInv == TypeInv /\ TargetInv /\ SamplerInv /\ CauseInv

-----------------------------------------------------------------------------
\* The sampling thread touches nothing but its own place and the stream, and
\* does not come back once it has ended.
LEMMA SamplingKeeps == ASSUME SessionInv, Sampling PROVE SessionInv'
<1> USE DEF SessionInv, TypeInv, TargetInv, SamplerInv, CauseInv
<1>1. UNCHANGED <<pc, phase, hits, errors, sessionVars, managerVars, thread, stopped>>
  BY DEF Sampling
<1>2. sampler = "none" => sampler' = "none"
  BY DEF Sampling, Wake, Exit, Collected, LookFull, Evict, Put, PublishRaises
<1> QED
  BY <1>1, <1>2 DEF sessionVars, managerVars

\* A cleanup operation leaves nothing frozen that is not tracked, and what it
\* records is what it left.
LEMMA AttemptTells ==
    ASSUME SessionInv, NEW outcomes \in SUBSET Left, NEW raises \in BOOLEAN, Attempt(outcomes, raises)
    PROVE  /\ (tracked' = "none" => ~frozen')
           /\ (cleanup' = "complete" => tracked' = "none") /\ cleanup' # "not_attempted"
           /\ half' = raises /\ UNCHANGED <<attached, thread, sampler>>
<1>1. PICK left \in Left : tracked' = left.tracked /\ frozen' = left.frozen /\ cleanup' = State(left, raises)
                           /\ half' = raises /\ UNCHANGED <<attached, store, samplerVars, streamVars>>
  BY DEF Attempt
<1>2. left.tracked = "none" => ~left.frozen
  <2>1. CASE left = Done
    BY <2>1 DEF Done
  <2>2. CASE left # Done
    <3>1. left.tracked \in Kept /\ left.frozen \in {frozen, FALSE}
      BY <2>2 DEF Left
    <3> QED
      BY <3>1 DEF Kept, SessionInv, TargetInv
  <2> QED
    BY <2>1, <2>2
<1> QED
  BY <1>1, <1>2 DEF State, samplerVars

\* The target, its pauses and its kill.
LEMMA TargetKeeps ==
    ASSUME SessionInv, TargetExits \/ Pause \/ Resume \/ KillCommand PROVE SessionInv'
<1> USE DEF SessionInv, TypeInv, TargetInv, SamplerInv, CauseInv, sessionVars, managerVars, samplerVars
<1>1. CASE TargetExits
  BY <1>1 DEF TargetExits
<1>2. CASE Pause \/ Resume
  BY <1>2 DEF Pause, Resume
<1>3. CASE KillCommand
  BY <1>3, AttemptTells DEF KillCommand
<1> QED
  BY <1>1, <1>2, <1>3

\* From the start to the end of monitoring, and the last sample.
LEMMA MonitorKeeps ==
    ASSUME SessionInv,
           OpenStore \/ Acquire \/ FirstSample \/ StartSampler \/ Started \/ Drain \/ Finish
             \/ SignalStop \/ Join \/ Polled \/ LastSample
    PROVE  SessionInv'
<1> USE DEF SessionInv, TypeInv, TargetInv, SamplerInv, CauseInv, sessionVars, managerVars, samplerVars,
            KeepTarget, KeepRest, Step
<1>1. CASE OpenStore \/ Acquire \/ FirstSample
  BY <1>1 DEF OpenStore, Acquire, FirstSample
<1>2. CASE StartSampler
  BY <1>2 DEF StartSampler
<1>3. CASE Started
  BY <1>3 DEF Started
<1>4. CASE Drain
  BY <1>4 DEF Drain
<1>5. CASE Finish \/ SignalStop \/ LastSample
  BY <1>5 DEF Finish, SignalStop, LastSample
<1>6. CASE Join
  <2>1. thread' = IsRunning /\ UNCHANGED <<sampler, hits, errors, phase, attached, cleanup, half, tracked, frozen>>
    BY <1>6 DEF Join
  <2>2. pc = "join" /\ pc' = IF phase = "final" THEN "poll" ELSE "cleanup"
    BY <1>6 DEF Join
  <2>3. ~thread' => sampler' = "none"
    BY <2>1 DEF IsRunning
  <2> QED
    BY <2>1, <2>2, <2>3
<1>7. CASE Polled
  BY <1>7 DEF Polled, IsRunning
<1> QED
  BY <1>1, <1>2, <1>3, <1>4, <1>5, <1>6, <1>7

\* The cleanup, whether it returns or raises, and what follows it.
LEMMA CleanUpKeeps ==
    ASSUME SessionInv, CleanUp \/ CleanUpRaises \/ Close \/ ShutDownFailed \/ Over PROVE SessionInv'
<1> USE DEF SessionInv, TypeInv, TargetInv, SamplerInv, CauseInv, sessionVars, managerVars, samplerVars,
            KeepTarget, KeepRest, Step
<1>1. CASE CleanUp /\ Op = "nothing"
  BY <1>1 DEF CleanUp, Op
<1>2. CASE CleanUp /\ Op # "nothing"
  <2>1. Finished(Op) \in SUBSET Left
    BY DEF Finished, Left
  <2> QED
    BY <1>2, <2>1, AttemptTells DEF CleanUp
<1>3. CASE CleanUpRaises
  <2>1. /\ (tracked' = "none" => ~frozen')
        /\ (cleanup' = "complete" => tracked' = "none") /\ cleanup' # "not_attempted"
        /\ half' = TRUE /\ UNCHANGED <<attached, thread, sampler>>
    BY <1>3, AttemptTells DEF CleanUpRaises
  <2>2. /\ hits' \in Nat /\ errors' \in Nat
        /\ hits' + errors' >= 1 /\ (hits + errors >= 1 => hits' + errors' # 1)
    <3>1. hits \in Nat /\ errors \in Nat
      OBVIOUS
    <3>2. hits' \in Nat /\ errors' \in Nat
      BY <1>3 DEF CleanUpRaises
    <3>3. \/ hits' = hits + 1 /\ errors' = errors
          \/ hits' = hits /\ errors' = errors + 1
      BY <1>3 DEF CleanUpRaises
    <3>4. CASE hits' = hits + 1 /\ errors' = errors
      BY ONLY <3>1, <3>4
    <3>5. CASE hits' = hits /\ errors' = errors + 1
      BY ONLY <3>1, <3>5
    <3> QED
      BY <3>2, <3>3, <3>4, <3>5
  <2>3. pc = "cleanup" /\ Raised
    BY <1>3 DEF CleanUpRaises, Raised
  <2>4. CASE phase = "shutdown"
    <3>1. pc' = "stop" /\ phase' = "force"
      BY <2>3, <2>4 DEF Raised
    <3> QED
      BY <2>1, <2>2, <3>1
  <2>5. CASE phase # "shutdown"
    <3>1. phase \in {"abort", "force"} /\ hits' + errors' # 1
      BY <2>2, <2>3, <2>5
    <3>2. pc' = "close" /\ phase' = phase
      BY <2>3, <2>5 DEF Raised
    <3> QED
      BY <2>1, <2>2, <3>1, <3>2
  <2> QED
    BY <2>4, <2>5
<1>4. CASE Close
  BY <1>4 DEF Close
<1>5. CASE ShutDownFailed
  BY <1>5 DEF ShutDownFailed
<1>6. CASE Over
  BY <1>6 DEF Over
<1> QED
  BY <1>1, <1>2, <1>3, <1>4, <1>5, <1>6

\* Errors and Ctrl+C between the steps.
LEMMA DisturbanceKeeps == ASSUME SessionInv, Interrupt \/ Error PROVE SessionInv'
<1> USE DEF SessionInv, TypeInv, TargetInv, SamplerInv, CauseInv, sessionVars, managerVars, samplerVars, KeepTarget
<1>1. /\ hits' \in Nat /\ errors' \in Nat
      /\ hits' + errors' >= 1 /\ (hits + errors >= 1 => hits' + errors' # 1)
  <2>1. hits \in Nat /\ errors \in Nat
    OBVIOUS
  <2>2. hits' \in Nat /\ errors' \in Nat
    BY DEF Interrupt, Error
  <2>3. \/ hits' = hits + 1 /\ errors' = errors
        \/ hits' = hits /\ errors' = errors + 1
    BY DEF Interrupt, Error
  <2>4. CASE hits' = hits + 1 /\ errors' = errors
    BY ONLY <2>1, <2>4
  <2>5. CASE hits' = hits /\ errors' = errors + 1
    BY ONLY <2>1, <2>5
  <2> QED
    BY <2>2, <2>3, <2>4, <2>5
<1>2. /\ UNCHANGED <<attached, half, frozen, thread, sampler, cleanup>>
      /\ tracked' \in IF pc = "opened" THEN {"none", "root"} ELSE {tracked}
  BY DEF Interrupt, Error
<1>3. Handled
  BY DEF Interrupt, Error
<1>4. CASE pc \in {"new", "opened", "first", "ready", "started"} /\ pc' = "stop" /\ phase' = "abort"
  BY <1>1, <1>2, <1>4
<1>5. CASE pc' = "stop" /\ phase' = "shutdown" /\ pc # "opened"
  BY <1>1, <1>2, <1>5
<1>6. CASE pc \in {"stop", "join"} /\ pc' = "stop" /\ phase' = "force"
  BY <1>1, <1>2, <1>6
<1>7. CASE pc \in {"stop", "join"} /\ phase \in {"abort", "force"} /\ pc' = "cleanup" /\ phase' = phase
  BY <1>1, <1>2, <1>7
<1>8. CASE pc = "close" /\ pc' = (IF phase = "abort" THEN "failed" ELSE "ended") /\ phase' = phase
  BY <1>1, <1>2, <1>8
<1> QED
  BY <1>3, <1>4, <1>5, <1>6, <1>7, <1>8 DEF Handled

(* Whatever errors and presses of Ctrl+C fall between or into the steps of *)
(* a session, and even if its sampling thread never ends: a cleanup called *)
(* complete has released everything, one disturbance leaves nothing half   *)
(* handled, and nobody samples beside the thread (session.py start,        *)
(* shutdown, _abort_start and _force_cleanup; leak_detector.py start and   *)
(* stop).                                                                  *)
THEOREM CleanupTrue == Spec => []CleanupIsTrue
<1>1. Init => SessionInv
  BY DEF Init, SessionInv, TypeInv, TargetInv, SamplerInv, CauseInv
<1>2. SessionInv /\ UNCHANGED vars => SessionInv'
  BY DEF vars, sessionVars, managerVars, samplerVars, SessionInv, TypeInv, TargetInv, SamplerInv, CauseInv
<1>3. SessionInv /\ [Next]_vars => SessionInv'
  BY <1>2, SamplingKeeps, TargetKeeps, MonitorKeeps, CleanUpKeeps, DisturbanceKeeps DEF Next, Main
<1>4. SessionInv => CleanupIsTrue
  BY DEF SessionInv, TypeInv, TargetInv, SamplerInv, CauseInv,
         CleanupIsTrue, NeverHalfHandled, CleanupTold, OneSampler
<1> QED
  BY <1>1, <1>3, <1>4, PTL DEF Spec

(***************************************************************************)
(* The stream of a session implements LossyQueue                           *)
(***************************************************************************)

\* Samples are numbered in the order they were taken: the queue and what
\* arrived are sequences of numbers, whatever the thread and its reader do.
StreamInv ==
    /\ sent \in Nat /\ dropped \in Nat
    /\ queue \in Seq(Nat) /\ arrived \in Seq(Nat)

Advance == [Stream!Next]_(Stream!vars)

\* A queue with a sample in it: its first sample and the rest.
LEMMA FirstAndRest ==
    ASSUME NEW X, NEW s \in Seq(X), s # <<>>
    PROVE  /\ Len(s) \in Nat /\ Len(s) >= 1 /\ s[1] \in X
           /\ SubSeq(s, 2, Len(s)) = Tail(s) /\ Tail(s) \in Seq(X) /\ Len(Tail(s)) = Len(s) - 1
           /\ \A a \in Seq(X) : Append(a, Head(s)) = a \o SubSeq(s, 1, 1) /\ Append(a, Head(s)) \in Seq(X)
<1>1. Len(s) \in Nat /\ Len(s) >= 1
  BY EmptySeq
<1>2. Head(s) = s[1] /\ s[1] \in X
  BY <1>1
<1>3. Tail(s) \in Seq(X) /\ Len(Tail(s)) = Len(s) - 1 /\ \A i \in 1..Len(s) - 1 : Tail(s)[i] = s[i + 1]
  BY HeadTailProperties
<1>4. SubSeq(s, 2, Len(s)) = Tail(s)
  BY TailIsSubSeq
<1>5. ASSUME NEW a \in Seq(X)
      PROVE  Append(a, Head(s)) = a \o SubSeq(s, 1, 1) /\ Append(a, Head(s)) \in Seq(X)
  <2>1. SubSeq(s, 1, 1) = <<s[1]>>
    <3>1. SubSeq(s, 1, 1) \in Seq(X) /\ Len(SubSeq(s, 1, 1)) = 1 /\ SubSeq(s, 1, 1)[1] = s[1]
      BY <1>1, <1>2, SubSeqProperties
    <3>2. <<s[1]>> \in Seq(X) /\ Len(<<s[1]>>) = 1 /\ <<s[1]>>[1] = s[1]
      BY <1>2
    <3> DEFINE t == SubSeq(s, 1, 1)
               u == <<s[1]>>
    <3>3. t \in Seq(X) /\ u \in Seq(X) /\ Len(t) = Len(u) /\ t[1] = u[1] /\ Len(t) = 1
      BY <3>1, <3>2
    <3> HIDE DEF t, u
    <3>4. \A i \in 1..Len(t) : t[i] = u[i]
      BY <3>3
    <3>5. t = u
      BY <3>3, <3>4, SeqEqual
    <3> QED
      BY <3>5 DEF t, u
  <2>2. Append(a, s[1]) = a \o <<s[1]>> /\ Append(a, s[1]) \in Seq(X)
    BY <1>2
  <2> QED
    BY <1>2, <2>1, <2>2
<1> QED
  BY <1>1, <1>2, <1>3, <1>4, <1>5

\* A put is a send that loses nothing (publish 633-642).
LEMMA PutSends == ASSUME StreamInv, Put PROVE Stream!Send
<1> USE DEF StreamInv
<1> DEFINE longer == Append(queue, sent + 1)
<1>1. longer \in Seq(Nat) /\ Len(longer) = Len(queue) + 1
  OBVIOUS
<1>2. queue' = longer /\ sent' = sent + 1 /\ UNCHANGED <<dropped, arrived>>
  BY DEF Put
<1> HIDE DEF longer
<1>3. Stream!Selected(longer, 0 + 1 .. Len(longer)) = SubSeq(longer, 0 + 1, Len(longer))
  BY <1>1, Stream!SelectedEnd
<1>4. SubSeq(longer, 0 + 1, Len(longer)) = longer
  BY <1>1
<1>5. Stream!Selected(longer, 1..Len(longer)) = longer
  BY <1>3, <1>4
<1>6. dropped' = dropped + Len(longer) - Len(queue')
  <2>1. dropped \in Nat /\ Len(longer) \in Nat
    BY <1>1
  <2> QED
    BY <1>2, <2>1
<1>7. Stream!Keeps(longer)
  BY <1>2, <1>5, <1>6 DEF Stream!Keeps
<1> QED
  BY <1>2, <1>7 DEF Stream!Send, longer

\* A drain takes the oldest sample, and loses nothing (drain 658-666).
LEMMA DrainTakes == ASSUME StreamInv, Drain PROVE Stream!Take
<1>1. queue # <<>> /\ arrived' = Append(arrived, Head(queue)) /\ queue' = Tail(queue) /\ UNCHANGED <<sent, dropped>>
  BY DEF Drain
<1> DEFINE rest == Tail(queue)
<1>2. queue \in Seq(Nat) /\ arrived \in Seq(Nat) /\ dropped \in Nat
  BY DEF StreamInv
<1>3. Len(queue) \in Nat /\ Len(queue) >= 1 /\ rest = SubSeq(queue, 2, Len(queue)) /\ rest \in Seq(Nat)
  BY <1>1, <1>2, FirstAndRest
<1>4. arrived' = arrived \o SubSeq(queue, 1, 1)
  BY <1>1, <1>2, FirstAndRest
<1> HIDE DEF rest
<1>5. Stream!Selected(rest, 0 + 1 .. Len(rest)) = SubSeq(rest, 0 + 1, Len(rest))
  BY <1>3, Stream!SelectedEnd
<1>6. SubSeq(rest, 0 + 1, Len(rest)) = rest
  BY <1>3
<1>7. Stream!Selected(rest, 1..Len(rest)) = rest
  BY <1>5, <1>6
<1>8. dropped' = dropped + Len(rest) - Len(queue')
  BY <1>1, <1>2, <1>3 DEF rest
<1>9. Stream!Keeps(rest)
  BY <1>1, <1>7, <1>8 DEF Stream!Keeps, rest
<1>10. 1 \in 0..Len(queue) /\ Stream!Keeps(SubSeq(queue, 1 + 1, Len(queue)))
  BY <1>3, <1>9
<1> QED
  BY <1>1, <1>4, <1>10 DEF Stream!Take

\* An eviction takes nothing, and loses and counts the oldest sample (publish
\* 628-632).
LEMMA EvictTakes == ASSUME StreamInv, Evict, queue # <<>> PROVE Stream!Take
<1>1. arrived' = arrived /\ queue' = Tail(queue) /\ dropped' = dropped + 1 /\ UNCHANGED sent
  BY DEF Evict
<1>2. queue \in Seq(Nat) /\ arrived \in Seq(Nat) /\ dropped \in Nat
  BY DEF StreamInv
<1>3. /\ Len(queue) \in Nat /\ Len(queue) >= 1
      /\ SubSeq(queue, 2, Len(queue)) = Tail(queue) /\ Len(Tail(queue)) = Len(queue) - 1
  BY <1>2, FirstAndRest
<1>4. arrived' = arrived \o SubSeq(queue, 1, 0)
  <2>1. SubSeq(queue, 1, 0) = <<>>
    BY <1>2
  <2> QED
    BY <1>1, <1>2, <2>1
<1>5. Stream!Selected(queue, 1 + 1 .. Len(queue)) = SubSeq(queue, 1 + 1, Len(queue))
  BY <1>2, Stream!SelectedEnd
<1>6. 2..Len(queue) \in SUBSET (1..Len(queue)) /\ queue' = Stream!Selected(queue, 2..Len(queue))
  BY <1>1, <1>3, <1>5
<1>7. dropped' = dropped + Len(queue) - Len(queue')
  BY <1>1, <1>2, <1>3
<1>8. Stream!Keeps(queue)
  BY <1>6, <1>7 DEF Stream!Keeps
<1>9. 0 \in 0..Len(queue) /\ SubSeq(queue, 0 + 1, Len(queue)) = queue
  BY <1>2, <1>3
<1>10. Stream!Keeps(SubSeq(queue, 0 + 1, Len(queue)))
  BY <1>8, <1>9
<1> QED
  BY <1>1, <1>4, <1>9, <1>10 DEF Stream!Take

\* Every other step leaves the stream alone.
LEMMA StreamAdvances == ASSUME StreamInv, [Next]_vars PROVE Advance /\ StreamInv'
<1>1. CASE UNCHANGED <<sent, queue, dropped, arrived>>
  BY <1>1 DEF Advance, StreamInv, Stream!vars
<1>2. CASE Put
  <2>1. StreamInv'
    BY <1>2 DEF Put, StreamInv
  <2> QED
    BY <1>2, <2>1, PutSends DEF Advance, Stream!Next
<1>3. CASE Drain
  <2>1. StreamInv'
    BY <1>3, FirstAndRest DEF Drain, StreamInv
  <2> QED
    BY <1>3, <2>1, DrainTakes DEF Advance, Stream!Next
<1>4. CASE Evict /\ queue # <<>>
  <2>1. StreamInv'
    <3>1. queue \in Seq(Nat) /\ queue # <<>>
      BY <1>4 DEF StreamInv
    <3>2. Tail(queue) \in Seq(Nat)
      BY <3>1, FirstAndRest
    <3>3. dropped \in Nat /\ sent \in Nat /\ arrived \in Seq(Nat)
      BY DEF StreamInv
    <3>4. queue' = Tail(queue) /\ dropped' = dropped + 1 /\ UNCHANGED <<sent, arrived>>
      BY <1>4 DEF Evict
    <3> QED
      BY <3>2, <3>3, <3>4 DEF StreamInv
  <2> QED
    BY <1>4, <2>1, EvictTakes DEF Advance, Stream!Next
<1>5. CASE Main
  <2> SUFFICES ASSUME ~Drain PROVE UNCHANGED <<sent, queue, dropped, arrived>>
    BY <1>1, <1>3
  <2> QED
    BY <1>5 DEF Main, OpenStore, Acquire, FirstSample, StartSampler, Started, SignalStop, Join, Polled, LastSample,
       CleanUp, Attempt, Close, Over, KeepTarget, streamVars
<1>6. CASE Sampling
  <2> SUFFICES ASSUME ~Put, ~(Evict /\ queue # <<>>) PROVE UNCHANGED <<sent, queue, dropped, arrived>>
    BY <1>1, <1>2, <1>4
  <2> QED
    BY <1>6 DEF Sampling, Wake, Exit, Collected, LookFull, Evict, PublishRaises, streamVars
<1>7. CASE TargetExits \/ Pause \/ Resume \/ KillCommand \/ Finish \/ ShutDownFailed \/ CleanUpRaises \/ Interrupt \/ Error
  BY <1>1, <1>7 DEF TargetExits, Pause, Resume, KillCommand, Attempt, Finish, ShutDownFailed, CleanUpRaises, Interrupt,
     Error, KeepTarget, streamVars
<1>8. CASE UNCHANGED vars
  BY <1>1, <1>8 DEF vars, streamVars
<1> QED
  BY <1>5, <1>6, <1>7, <1>8 DEF Next

(* MetricsStream implements LossyQueue: it loses samples only by counting  *)
(* them, and hands out the rest once each and in order, wherever the reader*)
(* comes between the look of publish and its eviction (events.py 596-674). *)
THEOREM StreamImplemented == Spec => ImplementsLossyQueue
<1>1. Init => Stream!Init /\ StreamInv
  BY DEF Init, Stream!Init, StreamInv
<1>2. StreamInv /\ [Next]_vars => Advance /\ StreamInv'
  BY StreamAdvances
<1>3. Init /\ [][Next]_vars => Stream!Init /\ [][Stream!Next]_(Stream!vars)
  BY <1>1, <1>2, PTL DEF Advance
<1> QED
  BY <1>3, PTL DEF Spec, ImplementsLossyQueue, Stream!Spec

(***************************************************************************)
(* The approved baseline                                                   *)
(***************************************************************************)

AuditTypes ==
    /\ today \in Nat
    /\ audit \in Seq(Entries)
    /\ cached \in [Procs -> Seq(Entries)]
    /\ pending \in [Procs -> Entries \cup {None}]
    /\ opened \subseteq Procs

\* One process has the store open, and what it read is what is there.
WriterInv ==
    /\ \A p, q \in opened : p = q
    /\ \A p \in opened : cached[p] = audit

AuditInv == AuditTypes /\ WriterInv

-----------------------------------------------------------------------------
\* A step that leaves the manifest alone keeps the one writer's copy of it.
LEMMA OthersKeepAudit ==
    ASSUME BaselineAssumption, AuditInv, NEW p \in Procs,
           Open(p) \/ CloseStore(p) \/ Publish(p)
             \/ (\E group \in Groups : Check(p, group) \/ \E accepted \in BOOLEAN : Promote(p, group, accepted))
             \/ (\E resource \in Resources, kind \in Kinds, expires \in 1..(MaxTime + MaxDays) :
                    Suppress(p, resource, kind, expires))
    PROVE  AuditInv' /\ audit' = audit
<1> USE DEF AuditInv, AuditTypes, WriterInv, storeVars, procVars
<1>1. CASE Open(p)
  BY <1>1 DEF Open, Opened
<1>2. CASE CloseStore(p)
  BY <1>2 DEF CloseStore, Leaves
<1>3. CASE Publish(p)
  BY <1>3 DEF Publish
<1>4. ASSUME NEW group \in Groups, Check(p, group)
      PROVE  AuditInv' /\ audit' = audit
  BY <1>4 DEF Check
<1>5. ASSUME NEW group \in Groups, NEW accepted \in BOOLEAN, Promote(p, group, accepted)
      PROVE  AuditInv' /\ audit' = audit
  BY <1>5 DEF Promote, Entries
<1>6. ASSUME NEW resource \in Resources, NEW kind \in Kinds, NEW expires \in 1..(MaxTime + MaxDays),
             Suppress(p, resource, kind, expires)
      PROVE  AuditInv' /\ audit' = audit
  BY <1>6 DEF Suppress, Entries, BaselineAssumption
<1> QED
  BY <1>1, <1>2, <1>3, <1>4, <1>5, <1>6

\* A stamp changes the time of an entry, nothing else.
LEMMA StampedIsEntry ==
    ASSUME AuditTypes, NEW entry \in Entries PROVE Stamped(entry) \in Entries
  BY DEF AuditTypes, Stamped, Entries

\* Whoever replaces the manifest has the store, and so its whole audit.
LEMMA AppendExtends ==
    ASSUME AuditInv, NEW p \in Procs, AppendEntry(p)
    PROVE  /\ AuditInv'
           /\ Len(audit) <= Len(audit')
           /\ \A i \in DOMAIN audit : audit'[i] = audit[i]
<1>1. p \in opened /\ pending[p] \in Entries /\ cached[p] = audit
  BY DEF AppendEntry, Ready, AuditInv, AuditTypes, WriterInv
<1>2. audit' = Append(audit, Stamped(pending[p])) /\ cached' = [cached EXCEPT ![p] = audit']
  BY <1>1 DEF AppendEntry
<1>3. audit' \in Seq(Entries)
  BY <1>1, <1>2, StampedIsEntry DEF AuditInv, AuditTypes
<1>4. AuditInv'
  BY <1>1, <1>2, <1>3 DEF AuditInv, AuditTypes, WriterInv, AppendEntry
<1> QED
  BY <1>1, <1>2, <1>4 DEF AuditInv, AuditTypes

\* Every step.
LEMMA StepExtends ==
    ASSUME BaselineAssumption, AuditInv, BaselineNext
    PROVE  /\ AuditInv'
           /\ audit' = audit \/ (Len(audit) <= Len(audit') /\ \A i \in DOMAIN audit : audit'[i] = audit[i])
<1>1. CASE \E p \in Procs : AppendEntry(p)
  BY <1>1, AppendExtends
<1>2. CASE \E p \in Procs : Operation(p) /\ ~AppendEntry(p)
  BY <1>2, OthersKeepAudit DEF Operation
<1>3. CASE SetClock
  BY <1>3 DEF SetClock, AuditInv, AuditTypes, WriterInv, storeVars, procVars, BaselineAssumption
<1>4. ASSUME NEW run \in stored, Damage(run) PROVE AuditInv' /\ audit' = audit
  BY <1>4 DEF Damage, AuditInv, AuditTypes, WriterInv, procVars
<1> QED
  BY <1>1, <1>2, <1>3, <1>4 DEF BaselineNext

(* An approval once recorded is never lost to another writer, whatever     *)
(* dies between two writes, is damaged or sets the clock: there is one     *)
(* process with the store open, and it appends to all that is there        *)
(* (baseline_control, __init__ and _append).                               *)
THEOREM AuditGrows == BaselineSpec => AuditOnlyGrows
<1>1. BaselineInit => AuditInv
  BY DEF BaselineInit, AuditInv, AuditTypes, WriterInv
<1>2. AuditInv /\ [BaselineNext]_baselineVars => AuditInv'
  BY StepExtends, BaselineAssumption DEF AuditInv, AuditTypes, WriterInv, baselineVars, storeVars, procVars
<1>3. AuditInv /\ [BaselineNext]_baselineVars =>
          [/\ Len(audit) <= Len(audit')
           /\ \A i \in DOMAIN audit : audit'[i] = audit[i]]_audit
  BY StepExtends, BaselineAssumption DEF baselineVars, storeVars
<1> QED
  BY <1>1, <1>2, <1>3, PTL DEF BaselineSpec, AuditOnlyGrows
-----------------------------------------------------------------------------
Evidence == UNION {Runs(group) : group \in Groups}

\* What a promotion still owes is all that is missing of its evidence; what is
\* on record owes nothing.
EvidenceInv ==
    /\ unpublished \in [Procs -> Seq(Evidence)]
    /\ \A p \in opened : pending[p] # None /\ pending[p].action = "promote" =>
           Runs(pending[p].runs) \subseteq stored \cup Runs(unpublished[p])
    /\ \A p \in Procs \ opened : pending[p] = None
    /\ BaselineReadable

StoreInv == AuditInv /\ EvidenceInv

\* None is no entry of the manifest.
LEMMA NoneIsNoEntry == None \notin Entries
  BY BaselineAssumption DEF BaselineAssumption

\* The first report a promotion owes is the one that is published.
LEMMA HeadIsPaid ==
    ASSUME NEW S, NEW seq \in Seq(S), seq # <<>>
    PROVE  Runs(seq) \subseteq {Head(seq)} \cup Runs(Tail(seq)) /\ Tail(seq) \in Seq(S)
<1>1. ASSUME NEW i \in DOMAIN seq, i # 1 PROVE seq[i] \in Runs(Tail(seq))
  <2>1. i - 1 \in DOMAIN Tail(seq) /\ Tail(seq)[i - 1] = seq[i]
    BY <1>1
  <2> QED
    BY <2>1 DEF Runs
<1> QED
  BY <1>1 DEF Runs

\* Steps that publish nothing leave the evidence an accepted run rests on.
LEMMA OthersKeepEvidence ==
    ASSUME BaselineAssumption, StoreInv, NEW p \in Procs,
           Open(p) \/ CloseStore(p) \/ Publish(p)
             \/ (\E group \in Groups : Check(p, group) \/ \E accepted \in BOOLEAN : Promote(p, group, accepted))
             \/ (\E resource \in Resources, kind \in Kinds, expires \in 1..(MaxTime + MaxDays) :
                    Suppress(p, resource, kind, expires))
    PROVE  EvidenceInv'
<1>0. audit' = audit /\ AuditInv'
  BY OthersKeepAudit DEF StoreInv
<1> USE <1>0, NoneIsNoEntry DEF StoreInv, AuditInv, AuditTypes, EvidenceInv, BaselineReadable, Replayable, Promotions, storeVars,
            procVars
<1>1. CASE Open(p)
  BY <1>1 DEF Open, Opened, Leaves
<1>2. CASE CloseStore(p)
  BY <1>2 DEF CloseStore, Leaves
<1>3. CASE Publish(p)
  <2>1. Runs(unpublished[p]) \subseteq {Head(unpublished[p])} \cup Runs(Tail(unpublished[p])) /\ Tail(unpublished[p]) \in Seq(Evidence)
    BY <1>3, HeadIsPaid DEF Publish
  <2> QED
    BY <1>3, <2>1 DEF Publish
<1>4. ASSUME NEW group \in Groups, Check(p, group) PROVE EvidenceInv'
  BY <1>4 DEF Check
<1>5. ASSUME NEW group \in Groups, NEW accepted \in BOOLEAN, Promote(p, group, accepted) PROVE EvidenceInv'
  <2>1. group \in Seq(Evidence)
    <3>1. group \in Seq(Runs(group)) /\ Runs(group) \subseteq Evidence
      BY DEF BaselineAssumption, Evidence
    <3> QED
      BY <3>1, SeqMonotonic
  <2> DEFINE entry == [action |-> "promote", runs |-> group, accepted |-> accepted]
  <2>2. /\ unpublished' = [unpublished EXCEPT ![p] = group] /\ pending' = [pending EXCEPT ![p] = entry]
        /\ p \in opened /\ UNCHANGED <<audit, stored, opened>>
    BY <1>5 DEF Promote, AtRest
  <2>3. pending'[p].runs = group /\ unpublished'[p] = group
    BY <2>2
  <2>4. \A q \in Procs \ {p} : pending'[q] = pending[q] /\ unpublished'[q] = unpublished[q]
    BY <2>2
  <2>5. \A q \in opened' : pending'[q] # None /\ pending'[q].action = "promote" =>
           Runs(pending'[q].runs) \subseteq stored' \cup Runs(unpublished'[q])
    BY <2>2, <2>3, <2>4
  <2>6. \A q \in Procs \ opened' : pending'[q] = None
    BY <2>2, <2>4
  <2>7. unpublished' \in [Procs -> Seq(Evidence)] /\ BaselineReadable'
    BY <2>1, <2>2
  <2> QED
    BY ONLY <2>5, <2>6, <2>7 DEF EvidenceInv
<1>6. ASSUME NEW resource \in Resources, NEW kind \in Kinds, NEW expires \in 1..(MaxTime + MaxDays),
             Suppress(p, resource, kind, expires)
      PROVE  EvidenceInv'
  <2>1. /\ p \in opened /\ UNCHANGED <<audit, stored, opened, unpublished>>
        /\ pending' = [pending EXCEPT ![p] = [action |-> "suppress", resource |-> resource, kind |-> kind,
                                             expires |-> expires, at |-> today]]
    BY <1>6 DEF Suppress, AtRest
  <2>2. /\ pending'[p].action = "suppress"
        /\ \A q \in Procs \ {p} : pending'[q] = pending[q]
    BY <2>1
  <2>3. \A q \in opened' : pending'[q] # None /\ pending'[q].action = "promote" =>
           Runs(pending'[q].runs) \subseteq stored' \cup Runs(unpublished'[q])
    BY <2>1, <2>2
  <2>4. \A q \in Procs \ opened' : pending'[q] = None
    BY <2>1, <2>2
  <2>5. unpublished' \in [Procs -> Seq(Evidence)] /\ BaselineReadable'
    BY <2>1
  <2> QED
    BY ONLY <2>3, <2>4, <2>5 DEF EvidenceInv
<1> QED
  BY <1>1, <1>2, <1>3, <1>4, <1>5, <1>6

\* The manifest is replaced once nothing is owed, by an audit that replays.
LEMMA AppendKeepsEvidence ==
    ASSUME BaselineAssumption, StoreInv, NEW p \in Procs, AppendEntry(p)
    PROVE  EvidenceInv'
<1> DEFINE entry == pending[p]
           stamp == Stamped(entry)
<1>1. /\ p \in opened /\ entry \in Entries /\ cached[p] = audit /\ unpublished[p] = <<>>
      /\ \A q \in opened : q = p
  BY NoneIsNoEntry DEF AppendEntry, Ready, StoreInv, AuditInv, AuditTypes, WriterInv
<1>2. audit' = Append(audit, stamp) /\ Replayable(audit') /\ stored' = stored /\ opened' = opened
  BY <1>1 DEF AppendEntry
<1>3. stamp \in Entries /\ AuditInv'
  BY <1>1, StampedIsEntry, AppendExtends DEF StoreInv, AuditInv
<1>4. stamp.action = "promote" => stamp.action = entry.action /\ stamp.runs = entry.runs
  BY <1>1 DEF Stamped, Entries
<1>5. entry.action = "promote" => Runs(entry.runs) \subseteq stored
  BY <1>1 DEF StoreInv, EvidenceInv, Runs
<1>6. \A i \in Promotions(audit') : Runs(audit'[i].runs) \subseteq stored'
  <2> SUFFICES ASSUME NEW i \in Promotions(audit') PROVE Runs(audit'[i].runs) \subseteq stored
    BY <1>2
  <2>1. CASE i \in DOMAIN audit
    <3>1. audit'[i] = audit[i]
      BY <1>2, <2>1 DEF StoreInv, AuditInv, AuditTypes
    <3> QED
      BY <2>1, <3>1 DEF Promotions, StoreInv, EvidenceInv, BaselineReadable
  <2>2. CASE i \notin DOMAIN audit
    <3>1. audit'[i] = stamp
      BY <1>2, <1>3, <2>2 DEF StoreInv, AuditInv, AuditTypes, Promotions
    <3> QED
      BY <3>1, <1>4, <1>5 DEF Promotions
  <2> QED
    BY <2>1, <2>2
<1>7. unpublished' \in [Procs -> Seq(Evidence)]
  BY DEF AppendEntry, StoreInv, EvidenceInv
<1>8. pending' = [pending EXCEPT ![p] = None]
  BY DEF AppendEntry
<1> QED
  BY <1>1, <1>2, <1>6, <1>7, <1>8 DEF EvidenceInv, BaselineReadable, StoreInv, AuditInv, AuditTypes

\* Every step keeps the manifest readable.
LEMMA StepKeepsStore ==
    ASSUME BaselineAssumption, StoreInv, [BaselineNext]_baselineVars
    PROVE  EvidenceInv'
<1>1. CASE \E p \in Procs : AppendEntry(p)
  BY <1>1, AppendKeepsEvidence
<1>2. CASE \E p \in Procs : Operation(p) /\ ~AppendEntry(p)
  BY <1>2, OthersKeepEvidence DEF Operation
<1>3. CASE SetClock \/ UNCHANGED baselineVars
  BY <1>3 DEF SetClock, StoreInv, EvidenceInv, BaselineReadable, storeVars, procVars, baselineVars
<1>4. ASSUME NEW run \in stored, Damage(run) PROVE EvidenceInv'
  BY <1>4 DEF Damage, StoreInv, EvidenceInv, BaselineReadable, procVars
<1> QED
  BY <1>1, <1>2, <1>3, <1>4 DEF BaselineNext

(* Whatever process dies between which writes: the manifest opens, and     *)
(* every report an approved baseline refers to was published before it     *)
(* (baseline_control, promote and _append).                                *)
THEOREM ManifestOpens == BaselineSpec => []BaselineReadable
<1>1. BaselineInit => StoreInv
  BY DEF BaselineInit, StoreInv, AuditInv, AuditTypes, WriterInv, EvidenceInv, BaselineReadable, Replayable, Promotions
<1>2. StoreInv /\ [BaselineNext]_baselineVars => AuditInv'
  BY StepExtends, BaselineAssumption
     DEF StoreInv, AuditInv, AuditTypes, WriterInv, baselineVars, storeVars, procVars
<1>3. StoreInv /\ [BaselineNext]_baselineVars => StoreInv'
  BY <1>2, StepKeepsStore, BaselineAssumption DEF StoreInv
<1>4. StoreInv => BaselineReadable
  BY DEF StoreInv, EvidenceInv
<1> QED
  BY <1>1, <1>3, <1>4, PTL DEF BaselineSpec

(***************************************************************************)
(* Comparing groups of runs                                                *)
(***************************************************************************)

Lists == INSTANCE Selection

Ended(T) == (\E x \in T : \A y \in T : x <= y) /\ (\E x \in T : \A y \in T : x >= y)

\* One more value is between the ends, or is one of them.
LEMMA OneMoreValue ==
    ASSUME NEW T, T \subseteq Int, NEW a \in Int, T # {} => Ended(T)
    PROVE  Ended(T \cup {a})
  BY DEF Ended

\* The values of a group have a least and a greatest.
LEMMA Ends ==
    ASSUME NEW n \in Nat, NEW v, \A i \in 1..n : v[i] \in Int,
           NEW T, T # {}, \A x \in T : \E i \in 1..n : x = v[i]
    PROVE  /\ Least(T) \in T /\ \A x \in T : Least(T) <= x
           /\ Greatest(T) \in T /\ \A x \in T : Greatest(T) >= x
<1> DEFINE W(m) == T \cap {v[i] : i \in 1..m}
           S == {m \in Nat : m <= n /\ W(m) # {} => Ended(W(m))}
<1>1. 0 \in S
  OBVIOUS
<1>2. ASSUME NEW m \in Nat, m \in S PROVE m + 1 \in S
  <2> SUFFICES ASSUME m + 1 <= n, W(m + 1) # {} PROVE Ended(W(m + 1))
    OBVIOUS
  <2> DEFINE a == v[m + 1]
  <2>1. a \in Int /\ (W(m + 1) = W(m) \/ W(m + 1) = W(m) \cup {a})
    OBVIOUS
  <2>2. W(m) # {} => Ended(W(m))
    BY <1>2
  <2>3. W(m) \subseteq Int
    OBVIOUS
  <2> HIDE DEF a, W
  <2>4. Ended(W(m) \cup {a})
    BY <2>1, <2>2, <2>3, OneMoreValue
  <2> QED
    BY <2>1, <2>2, <2>4
<1>3. n \in S
  <2> HIDE DEF S
  <2> QED
    BY <1>1, <1>2, Lists!Climb
<1>4. W(n) = T
  OBVIOUS
<1>5. Ended(T)
  <2> HIDE DEF W
  <2> QED
    BY <1>3, <1>4
<1> QED
  BY <1>5 DEF Least, Greatest, Ended

-----------------------------------------------------------------------------
\* The extremes of measured drifts bound them, and twice their median is at
\* least twice the smallest: the element with k values up to it exists.
LEMMA SpreadBounds ==
    ASSUME NEW values \in Seq(Int), values # <<>>, NEW spread, spread = Spread(values)
    PROVE  /\ spread.low \in Int /\ spread.high \in Int /\ spread.median2 \in Int
           /\ \A i \in DOMAIN values : spread.low <= values[i] /\ values[i] <= spread.high
           /\ spread.median2 >= 2 * spread.low
<1> DEFINE n == Len(values)
           known == {values[i] : i \in DOMAIN values}
           upTo(x) == {i \in DOMAIN values : values[i] <= x}
           above(k) == {x \in known : k <= Cardinality(upTo(x))}
           low == Least(known)
           high == Greatest(known)
<1>1. n \in Nat /\ n >= 1 /\ DOMAIN values = 1..n /\ \A i \in 1..n : values[i] \in Int
  OBVIOUS
<1>2. /\ spread.low = low /\ spread.high = high
      /\ spread.median2 = Least(above((n + 1) \div 2)) + Least(above(n \div 2 + 1))
  BY DEF Spread
<1> HIDE DEF n
<1>3. known # {} /\ known \subseteq Int /\ \A x \in known : \E i \in 1..n : x = values[i]
  BY <1>1
<1>4. low \in known /\ high \in known /\ \A x \in known : low <= x /\ x <= high
  <2> HIDE DEF known
  <2> QED
    BY <1>1, <1>3, Ends
<1>5. \A i \in DOMAIN values : low <= values[i] /\ values[i] <= high
  <2> HIDE DEF low, high
  <2> QED
    BY <1>4
<1>6. Cardinality(upTo(high)) = n
  <2>1. upTo(high) = 1..n
    BY <1>1, <1>5
  <2>2. Cardinality(1..n) = n
    BY <1>1, FS_Interval
  <2> QED
    BY <2>1, <2>2
<1>7. ASSUME NEW k \in 1..n PROVE Least(above(k)) \in Int /\ Least(above(k)) >= low
  <2>1. high \in above(k)
    <3> HIDE DEF known, upTo, high
    <3> QED
      BY <1>1, <1>4, <1>6
  <2>2. above(k) \subseteq known /\ \A x \in above(k) : \E i \in 1..n : x = values[i]
    BY <1>3
  <2> HIDE DEF above
  <2>3. Least(above(k)) \in above(k)
    BY <1>1, <2>1, <2>2, Ends
  <2>4. Least(above(k)) \in known
    BY <2>2, <2>3
  <2> HIDE DEF known, low
  <2> QED
    BY <1>3, <1>4, <2>4
<1>8. (n + 1) \div 2 \in 1..n /\ n \div 2 + 1 \in 1..n
  BY <1>1
<1>9. low \in Int /\ high \in Int
  <2> HIDE DEF known, low, high
  <2> QED
    BY <1>3, <1>4
<1> HIDE DEF above, low, high
<1>10. spread.median2 \in Int /\ spread.median2 >= 2 * low
  <2> DEFINE p == Least(above((n + 1) \div 2))
             q == Least(above(n \div 2 + 1))
  <2>1. p \in Int /\ q \in Int /\ p >= low /\ q >= low
    BY <1>7, <1>8
  <2>2. spread.median2 = p + q
    BY <1>2
  <2> HIDE DEF p, q
  <2> QED
    BY <1>9, <2>1, <2>2
<1> QED
  BY <1>2, <1>5, <1>9, <1>10

\* The ranks of a group lie between a least and a greatest of them.
LEMMA RankEnds ==
    ASSUME ComparisonAssumption, NEW group \in Compared, NEW resource \in Resources
    PROVE  LET ranks == Ranks(group, resource)
           IN /\ Least(ranks) \in Nat /\ Greatest(ranks) \in Nat
              /\ \A run \in Runs(group) :
                     /\ run.resources[resource].rank \in Nat
                     /\ Least(ranks) <= run.resources[resource].rank
                     /\ run.resources[resource].rank <= Greatest(ranks)
              /\ \E run \in Runs(group) : run.resources[resource].rank = Greatest(ranks)
<1> DEFINE n == Len(group)
           v == [i \in 1..n |-> group[i].resources[resource].rank]
           T == Ranks(group, resource)
<1>1. group \in Seq(Runs(group)) /\ group # <<>> /\ \A run \in Runs(group) : IsReport(run)
  BY DEF ComparisonAssumption
<1>2. n \in Nat /\ n >= 1 /\ DOMAIN group = 1..n
  BY <1>1
<1>3. \A i \in 1..n : v[i] \in Nat
  BY <1>1, <1>2 DEF IsReport, Runs
<1>4. T = {v[i] : i \in 1..n} /\ T # {} /\ T \subseteq Nat
  <2>1. T = {run.resources[resource].rank : run \in {group[i] : i \in 1..n}}
    BY <1>2 DEF Ranks, Runs
  <2>2. \A i \in 1..n : v[i] = group[i].resources[resource].rank
    OBVIOUS
  <2> HIDE DEF n, v, T
  <2>3. T = {v[i] : i \in 1..n}
    BY <2>1, <2>2
  <2> QED
    BY <1>2, <1>3, <2>3
<1> HIDE DEF n, v
<1>5. /\ Least(T) \in T /\ \A x \in T : Least(T) <= x
      /\ Greatest(T) \in T /\ \A x \in T : Greatest(T) >= x
  <2> HIDE DEF T
  <2>1. (\A i \in 1..n : v[i] \in Int) /\ T # {} /\ \A x \in T : \E i \in 1..n : x = v[i]
    BY <1>3, <1>4
  <2> QED
    BY <1>2, <2>1, Ends
<1>6. \A run \in Runs(group) : run.resources[resource].rank \in T
  BY DEF Ranks
<1>7. \E run \in Runs(group) : run.resources[resource].rank = Greatest(T)
  BY <1>5 DEF Ranks
<1> HIDE DEF T
<1>8. Least(T) \in Nat /\ Greatest(T) \in Nat
  BY <1>4, <1>5
<1>9. \A run \in Runs(group) :
          /\ run.resources[resource].rank \in Nat /\ Least(T) <= run.resources[resource].rank
          /\ run.resources[resource].rank <= Greatest(T)
  BY <1>4, <1>5, <1>6, <1>8
<1> QED
  BY <1>7, <1>8, <1>9 DEF T

\* The runs of two groups are those of either.
LEMMA ConcatRuns ==
    ASSUME NEW S, NEW s \in Seq(S), NEW T, NEW t \in Seq(T)
    PROVE  Runs(s \o t) = Runs(s) \cup Runs(t)
<1> DEFINE m == Len(s)
           n == Len(t)
<1>1. m \in Nat /\ n \in Nat /\ DOMAIN s = 1..m /\ DOMAIN t = 1..n
  OBVIOUS
<1>2. /\ DOMAIN (s \o t) = 1..(m + n)
      /\ \A i \in 1..(m + n) : (s \o t)[i] = IF i <= m THEN s[i] ELSE t[i - m]
  OBVIOUS
<1> DEFINE c == s \o t
<1> HIDE DEF m, n, c
<1>3. ASSUME NEW i \in 1..m PROVE s[i] \in Runs(c)
  <2>1. i \in DOMAIN c /\ c[i] = s[i]
    BY <1>1, <1>2 DEF c
  <2> QED
    BY <2>1 DEF Runs
<1>4. ASSUME NEW i \in 1..n PROVE t[i] \in Runs(c)
  <2>1. m + i \in DOMAIN c /\ c[m + i] = t[i]
    BY <1>1, <1>2 DEF c
  <2> QED
    BY <2>1 DEF Runs
<1>5. ASSUME NEW i \in DOMAIN c PROVE c[i] \in Runs(s) \cup Runs(t)
  <2>1. (i \in 1..m /\ c[i] = s[i]) \/ (i - m \in 1..n /\ c[i] = t[i - m])
    BY <1>1, <1>2 DEF c
  <2> QED
    BY <1>1, <2>1 DEF Runs
<1>6. Runs(c) \subseteq Runs(s) \cup Runs(t)
  BY <1>5 DEF Runs
<1>7. Runs(s) \subseteq Runs(c) /\ Runs(t) \subseteq Runs(c)
  BY <1>1, <1>3, <1>4 DEF Runs
<1> QED
  BY <1>6, <1>7 DEF c

-----------------------------------------------------------------------------
\* A fall of the ranges beyond the noise of the medians is one of every pair.
LEMMA FallIsImproved ==
    ASSUME ComparisonAssumption, NEW before \in Int, NEW after \in Int,
           NEW low \in Int, NEW high \in Int, NEW median2 \in Int, NEW noise \in Int,
           low > 0, low <= before, after <= high, median2 >= 2 * low,
           noise >= 20 * DriftFloor, noise >= median2, 20 * high < 20 * low - noise
    PROVE  DriftTrend(before, after) = "improved"
<1>1. DriftFloor \in Nat /\ None \notin {before, after}
  BY DEF ComparisonAssumption
<1>2. after < before /\ Size(after - before) = before - after /\ Size(before) = before
  BY <1>1 DEF Size
<1>3. 10 * (before - after) > 10 * DriftFloor /\ 10 * (before - after) > before
  BY <1>1
<1>4. 10 * (before - after) > Size(after)
  BY <1>1, <1>3 DEF Size
<1>5. 10 * (before - after) > NoiseBand(before, after)
  BY <1>2, <1>3, <1>4 DEF NoiseBand, Larger
<1>6. NoiseBand(before, after) \in Int
  BY <1>1 DEF NoiseBand, Larger, Size
<1> HIDE DEF NoiseBand, Size
<1>7. ~(10 * Size(after - before) <= NoiseBand(before, after))
  BY <1>2, <1>5, <1>6
<1> QED
  BY <1>1, <1>2, <1>7 DEF DriftTrend

\* A rise beyond it, from a run that was not shrinking, is one of the pair.
LEMMA RiseIsRegressed ==
    ASSUME ComparisonAssumption, NEW before \in Int, NEW after \in Int,
           NEW low \in Int, NEW high \in Int, NEW median2 \in Int, NEW noise \in Int,
           before >= 0, low > 0, low <= after, before <= high, median2 >= 2 * low,
           noise >= 20 * DriftFloor, noise >= median2, 20 * low > 20 * high + noise
    PROVE  DriftTrend(before, after) = "regressed"
<1>1. DriftFloor \in Nat /\ None \notin {before, after}
  BY DEF ComparisonAssumption
<1>2. /\ before < after /\ after > DriftFloor /\ Size(after - before) = after - before
      /\ Size(before) = before /\ Size(after) = after
  BY <1>1 DEF Size
<1>3. 10 * (after - before) > 10 * DriftFloor /\ 10 * (after - before) > after
  BY <1>1
<1>4. 10 * (after - before) > NoiseBand(before, after)
  BY <1>1, <1>2, <1>3 DEF NoiseBand, Larger
<1>5. NoiseBand(before, after) \in Int
  BY <1>1, <1>2 DEF NoiseBand, Larger
<1> HIDE DEF NoiseBand, Size
<1>6. ~(10 * Size(after - before) <= NoiseBand(before, after))
  BY <1>2, <1>4, <1>5
<1> QED
  BY <1>1, <1>2, <1>6 DEF DriftTrend

\* What measured drifts of a group are, run by run.
LEMMA DriftsOfRuns ==
    ASSUME ComparisonAssumption, NEW group \in Compared, NEW resource \in Resources,
           \A run \in Runs(group) : run.resources[resource].drift # None
    PROVE  LET drifts == Drifts(group, resource)
           IN /\ drifts \in Seq(Int) /\ drifts # <<>>
              /\ \A run \in Runs(group) :
                     \E i \in DOMAIN drifts : drifts[i] = run.resources[resource].drift
<1>1. group \in Seq(Runs(group)) /\ group # <<>> /\ \A run \in Runs(group) : IsReport(run)
  BY DEF ComparisonAssumption
<1>2. \A i \in 1..Len(group) : group[i].resources[resource].drift \in Int
  BY <1>1 DEF Runs, IsReport
<1>3. DOMAIN group = 1..Len(group) /\ Len(group) \in Nat /\ Len(group) >= 1
  BY <1>1
<1> DEFINE n == Len(group)
           drifts == [i \in 1..n |-> group[i].resources[resource].drift]
<1>4. Drifts(group, resource) = drifts
  BY <1>3 DEF Drifts
<1>5. drifts \in Seq(Int) /\ Len(drifts) = n
  BY <1>2, <1>3
<1>6. drifts # <<>>
  BY <1>3, <1>5
<1>7. \A i \in 1..n : drifts[i] = group[i].resources[resource].drift
  OBVIOUS
<1>8. DOMAIN drifts = 1..n /\ \A run \in Runs(group) : \E i \in 1..n : run = group[i]
  BY <1>3 DEF Runs
<1> HIDE DEF drifts, n
<1>9. \A run \in Runs(group) : \E i \in DOMAIN drifts : drifts[i] = run.resources[resource].drift
  BY ONLY <1>7, <1>8
<1> QED
  BY ONLY <1>4, <1>5, <1>6, <1>9

\* A verdict says which of its conditions held.
LEMMA VerdictBecause ==
    ASSUME ComparisonAssumption, NEW old \in Compared, NEW new \in Compared, NEW resource \in Resources,
           GroupVerdict(old, new, resource) \in {"regressed", "improved", "unchanged"}
    PROVE  LET a == Spread(Drifts(old, resource))
               b == Spread(Drifts(new, resource))
               oldRanks == Ranks(old, resource)
               newRanks == Ranks(new, resource)
               noise == Larger(20 * DriftFloor, Larger(Size(a.median2), Size(b.median2)))
               verdict == GroupVerdict(old, new, resource)
           IN /\ \A run \in Runs(old) \cup Runs(new) : run.resources[resource].drift # None
              /\ verdict = "regressed" => \/ Greatest(newRanks) > Greatest(oldRanks)
                                          \/ 20 * b.low > 20 * a.high + noise /\ b.low > 0
              /\ verdict = "improved" => \/ 20 * b.high < 20 * a.low - noise /\ a.low > 0
                                         \/ Greatest(newRanks) < Least(oldRanks)
              /\ verdict = "unchanged" => /\ ~(Greatest(newRanks) > Greatest(oldRanks))
                                          /\ ~(Greatest(newRanks) < Least(oldRanks))
                                          /\ Greatest(newRanks) = Least(newRanks)
                                          /\ Greatest(oldRanks) = Least(oldRanks)
<1>1. Runs(old \o new) = Runs(old) \cup Runs(new)
  BY ConcatRuns DEF ComparisonAssumption
<1> HIDE DEF Spread, Drifts, Ranks, Larger, Size, Least, Greatest
<1> QED
  BY <1>1 DEF GroupVerdict

\* The noise of two medians covers the floor and each of them.
LEMMA NoiseCovers ==
    ASSUME ComparisonAssumption, NEW p \in Int, NEW q \in Int, NEW noise,
           noise = Larger(20 * DriftFloor, Larger(Size(p), Size(q)))
    PROVE  noise \in Int /\ noise >= 20 * DriftFloor /\ noise >= p /\ noise >= q
<1>1. DriftFloor \in Nat
  BY DEF ComparisonAssumption
<1> QED
  BY <1>1 DEF Larger, Size

\* Two ranks of which the newer is lower, or the same.
LEMMA SignalOf ==
    ASSUME NEW before \in Nat, NEW after \in Nat
    PROVE  /\ after < before => SignalChange(before, after) \in {"resolved", "eased"}
           /\ after = before => SignalChange(before, after) \in {"clear", "persists"}
           /\ after > before => SignalChange(before, after) \in {"new", "worsened"}
  BY DEF SignalChange

\* A pair of runs of an improved group, and of an unchanged one.
LEMMA PairAgrees ==
    ASSUME ComparisonAssumption, NEW old \in Compared, NEW new \in Compared, NEW resource \in Resources,
           NEW before \in Runs(old), NEW after \in Runs(new),
           NEW item, item = ResourceComparison(before, after, resource)
    PROVE  /\ GroupVerdict(old, new, resource) = "improved" => Improved(item)
           /\ GroupVerdict(old, new, resource) = "unchanged" => item.signal \in {"clear", "persists"}
<1> DEFINE x == before.resources[resource].rank
           y == after.resources[resource].rank
           o == before.resources[resource].drift
           n == after.resources[resource].drift
           oldRanks == Ranks(old, resource)
           newRanks == Ranks(new, resource)
           verdict == GroupVerdict(old, new, resource)
           a == Spread(Drifts(old, resource))
           b == Spread(Drifts(new, resource))
           noise == Larger(20 * DriftFloor, Larger(Size(a.median2), Size(b.median2)))
<1>1. item.signal = SignalChange(x, y) /\ item.trend = DriftTrend(o, n)
  BY DEF ResourceComparison
<1>2. /\ Least(oldRanks) \in Nat /\ Greatest(oldRanks) \in Nat /\ x \in Nat
      /\ Least(oldRanks) <= x /\ x <= Greatest(oldRanks)
  BY RankEnds
<1>3. /\ Least(newRanks) \in Nat /\ Greatest(newRanks) \in Nat /\ y \in Nat
      /\ Least(newRanks) <= y /\ y <= Greatest(newRanks)
  BY RankEnds
<1>4. ASSUME verdict = "unchanged" PROVE x = y
  <2>1. /\ ~(Greatest(newRanks) > Greatest(oldRanks)) /\ ~(Greatest(newRanks) < Least(oldRanks))
        /\ Greatest(newRanks) = Least(newRanks) /\ Greatest(oldRanks) = Least(oldRanks)
    BY <1>4, VerdictBecause
  <2> HIDE DEF x, y, oldRanks, newRanks
  <2> QED
    BY <1>2, <1>3, <2>1
<1>5. ASSUME verdict = "improved" PROVE Improved(item)
  <2>1. \/ 20 * b.high < 20 * a.low - noise /\ a.low > 0
        \/ Greatest(newRanks) < Least(oldRanks)
    BY <1>5, VerdictBecause
  <2>2. CASE Greatest(newRanks) < Least(oldRanks)
    <3>1. y < x
      <4> HIDE DEF x, y, oldRanks, newRanks
      <4> QED
        BY <1>2, <1>3, <2>2
    <3> QED
      BY <1>1, <1>2, <1>3, <3>1, SignalOf DEF Improved
  <2>3. CASE 20 * b.high < 20 * a.low - noise /\ a.low > 0
    <3>1. \A run \in Runs(old) \cup Runs(new) : run.resources[resource].drift # None
      BY <1>5, VerdictBecause
    <3>2. /\ Drifts(old, resource) \in Seq(Int) /\ Drifts(old, resource) # <<>>
          /\ \E i \in DOMAIN Drifts(old, resource) : Drifts(old, resource)[i] = o
      BY <3>1, DriftsOfRuns
    <3>3. /\ Drifts(new, resource) \in Seq(Int) /\ Drifts(new, resource) # <<>>
          /\ \E i \in DOMAIN Drifts(new, resource) : Drifts(new, resource)[i] = n
      BY <3>1, DriftsOfRuns
    <3>4. a.low \in Int /\ a.median2 \in Int /\ a.median2 >= 2 * a.low /\ o \in Int /\ a.low <= o
      <4> HIDE DEF o
      <4> QED
        BY <3>2, SpreadBounds
    <3>5. b.high \in Int /\ b.median2 \in Int /\ n \in Int /\ n <= b.high
      <4> HIDE DEF n
      <4> QED
        BY <3>3, SpreadBounds
    <3> HIDE DEF a, b, o, n
    <3>6. noise \in Int /\ noise >= 20 * DriftFloor /\ noise >= a.median2
      BY <3>4, <3>5, NoiseCovers
    <3> HIDE DEF noise
    <3>7. DriftTrend(o, n) = "improved"
      BY <2>3, <3>4, <3>5, <3>6, FallIsImproved
    <3> QED
      BY <1>1, <3>7 DEF Improved
  <2> QED
    BY <2>1, <2>2, <2>3
<1>6. ASSUME verdict = "unchanged" PROVE item.signal \in {"clear", "persists"}
  BY <1>1, <1>2, <1>4, <1>6, SignalOf
<1> QED
  BY <1>5, <1>6

\* A regressed group has a pair that regressed, if some run of the old one
\* was not shrinking.
LEMMA PairRegressed ==
    ASSUME ComparisonAssumption, NEW old \in Compared, NEW new \in Compared, NEW resource \in Resources,
           GroupVerdict(old, new, resource) = "regressed",
           NEW before \in Runs(old), before.resources[resource].drift >= 0
    PROVE  \E item \in Items(old, new, resource) : Regressed(item)
<1> DEFINE x == before.resources[resource].rank
           o == before.resources[resource].drift
           oldRanks == Ranks(old, resource)
           newRanks == Ranks(new, resource)
           a == Spread(Drifts(old, resource))
           b == Spread(Drifts(new, resource))
           noise == Larger(20 * DriftFloor, Larger(Size(a.median2), Size(b.median2)))
<1>1. \/ Greatest(newRanks) > Greatest(oldRanks)
      \/ 20 * b.low > 20 * a.high + noise /\ b.low > 0
  BY VerdictBecause
<1>2. PICK after \in Runs(new) : after.resources[resource].rank = Greatest(newRanks)
  BY RankEnds
<1> DEFINE y == after.resources[resource].rank
           n == after.resources[resource].drift
           item == ResourceComparison(before, after, resource)
<1>3. item.signal = SignalChange(x, y) /\ item.trend = DriftTrend(o, n)
  BY DEF ResourceComparison
<1>4. item \in Items(old, new, resource)
  BY DEF Items
<1>5. CASE Greatest(newRanks) > Greatest(oldRanks)
  <2>1. Greatest(oldRanks) \in Nat /\ x \in Nat /\ x <= Greatest(oldRanks)
    BY RankEnds
  <2>2. y \in Nat /\ y = Greatest(newRanks)
    BY <1>2, RankEnds
  <2>3. y > x
    <3> HIDE DEF x, y, oldRanks, newRanks
    <3> QED
      BY <1>5, <2>1, <2>2
  <2>4. item.signal \in {"new", "worsened"}
    BY <1>3, <2>1, <2>2, <2>3, SignalOf
  <2> QED
    BY <1>4, <2>4 DEF Regressed
<1>6. CASE 20 * b.low > 20 * a.high + noise /\ b.low > 0
  <2>1. \A run \in Runs(old) \cup Runs(new) : run.resources[resource].drift # None
    BY VerdictBecause
  <2>2. /\ Drifts(old, resource) \in Seq(Int) /\ Drifts(old, resource) # <<>>
        /\ \E i \in DOMAIN Drifts(old, resource) : Drifts(old, resource)[i] = o
    BY <2>1, DriftsOfRuns
  <2>3. /\ Drifts(new, resource) \in Seq(Int) /\ Drifts(new, resource) # <<>>
        /\ \E i \in DOMAIN Drifts(new, resource) : Drifts(new, resource)[i] = n
    BY <2>1, DriftsOfRuns
  <2>4. a.high \in Int /\ a.median2 \in Int /\ o \in Int /\ o <= a.high /\ o >= 0
    <3>1. o >= 0
      OBVIOUS
    <3> HIDE DEF o
    <3> QED
      BY <2>2, <3>1, SpreadBounds
  <2>5. b.low \in Int /\ b.median2 \in Int /\ b.median2 >= 2 * b.low /\ n \in Int /\ b.low <= n
    <3> HIDE DEF n
    <3> QED
      BY <2>3, SpreadBounds
  <2> HIDE DEF a, b, o, n
  <2>6. noise \in Int /\ noise >= 20 * DriftFloor /\ noise >= b.median2
    BY <2>4, <2>5, NoiseCovers
  <2> HIDE DEF noise
  <2>7. DriftTrend(o, n) = "regressed"
    BY <1>6, <2>4, <2>5, <2>6, RiseIsRegressed
  <2> HIDE DEF item
  <2> QED
    BY <1>3, <1>4, <2>7 DEF Regressed
<1> QED
  BY <1>1, <1>5, <1>6

\* What is said of two groups is what their pairs say.
LEMMA GroupsAgree == ASSUME ComparisonAssumption PROVE GroupedVerdictsHold
<1> SUFFICES ASSUME NEW old \in Compared, NEW new \in Compared, NEW resource \in Resources
             PROVE  LET verdict == GroupVerdict(old, new, resource)
                        items == Items(old, new, resource)
                    IN /\ verdict = "improved" => \A item \in items : Improved(item)
                       /\ verdict = "unchanged" => \A item \in items : item.signal \in {"clear", "persists"}
                       /\ (verdict = "regressed" /\ \E run \in Runs(old) : run.resources[resource].drift >= 0) =>
                              \E item \in items : Regressed(item)
  BY DEF GroupedVerdictsHold
<1>1. ASSUME NEW item \in Items(old, new, resource)
      PROVE  /\ GroupVerdict(old, new, resource) = "improved" => Improved(item)
             /\ GroupVerdict(old, new, resource) = "unchanged" => item.signal \in {"clear", "persists"}
  <2>1. PICK before \in Runs(old), after \in Runs(new) : item = ResourceComparison(before, after, resource)
    BY DEF Items
  <2> QED
    BY <2>1, PairAgrees
<1> QED
  BY <1>1, PairRegressed

-----------------------------------------------------------------------------
\* Which of two reports comes first makes no difference to any one caveat.
LEMMA CaveatsSwap ==
    ASSUME ComparisonAssumption, NEW a \in Reports, NEW b \in Reports
    PROVE  /\ ExperimentCaveats(a, b) = ExperimentCaveats(b, a)
           /\ RecipeCaveats(a, b) = RecipeCaveats(b, a)
           /\ EnvironmentCaveats(a, b) = EnvironmentCaveats(b, a)
           /\ SettingsDiffer(a, b) = SettingsDiffer(b, a)
           /\ (2 * Least({a.duration, b.duration}) < Larger(a.duration, b.duration)) =
                  (2 * Least({b.duration, a.duration}) < Larger(b.duration, a.duration))
<1>1. IsReport(a) /\ IsReport(b) /\ None \notin Int
  BY DEF ComparisonAssumption
<1>2. \A x, y : (Differ(x, y) <=> Differ(y, x)) /\ (OnlyOne(x, y) <=> OnlyOne(y, x))
  BY DEF Differ, OnlyOne
<1>3. ExperimentCaveats(a, b) = ExperimentCaveats(b, a)
  <2> DEFINE Apart(r, s) ==
                 \/ OnlyOne(r.operations, s.operations)
                 \/ /\ None \notin {r.operations, s.operations}
                    /\ 10 * Size(r.operations - s.operations) > Larger(r.operations, s.operations)
  <2>1. Apart(a, b) <=> Apart(b, a)
    <3>1. CASE None \in {a.operations, b.operations}
      BY <1>2, <3>1
    <3>2. CASE None \notin {a.operations, b.operations}
      <4>1. a.operations \in Nat /\ b.operations \in Nat
        BY <1>1, <3>2 DEF IsReport
      <4> DEFINE x == a.operations
                 y == b.operations
      <4> HIDE DEF x, y
      <4>2. x \in Nat /\ y \in Nat
        BY <4>1 DEF x, y
      <4>3. Size(x - y) = Size(y - x) /\ Larger(x, y) = Larger(y, x)
        BY <4>2 DEF Size, Larger
      <4> QED
        BY <1>2, <4>3 DEF x, y
    <3> QED
      BY <3>1, <3>2
  <2>2. (a.workload # b.workload) <=> (b.workload # a.workload)
    OBVIOUS
  <2> HIDE DEF Apart
  <2>3. Caveat(Apart(a, b), "operations", "not comparable") = Caveat(Apart(b, a), "operations", "not comparable")
    BY <2>1 DEF Caveat
  <2>4. Caveat(a.workload # b.workload, "workload", "not comparable") =
        Caveat(b.workload # a.workload, "workload", "not comparable")
    BY <2>2 DEF Caveat
  <2>5. Caveat(Differ(a.arguments, b.arguments) \/ OnlyOne(a.arguments, b.arguments),
               "arguments", "not comparable") =
        Caveat(Differ(b.arguments, a.arguments) \/ OnlyOne(b.arguments, a.arguments),
               "arguments", "not comparable")
    BY <1>2 DEF Caveat
  <2> QED
    BY <2>3, <2>4, <2>5 DEF ExperimentCaveats, Apart
<1>4. RecipeCaveats(a, b) = RecipeCaveats(b, a)
  <2>1. RecipeUnsupported(a, b) <=> RecipeUnsupported(b, a)
    BY DEF RecipeUnsupported
  <2>2. CASE RecipeUnsupported(a, b)
    BY <2>1, <2>2 DEF RecipeCaveats
  <2>3. CASE ~RecipeUnsupported(a, b)
    <3>1. (a.recipe = None) <=> (b.recipe = None)
      <4>1. None \in {a.recipe, b.recipe} => {a.recipe, b.recipe} = {None}
        BY <2>3 DEF RecipeUnsupported
      <4>2. a.recipe \in {a.recipe, b.recipe} /\ b.recipe \in {a.recipe, b.recipe}
        OBVIOUS
      <4>3. {a.recipe, b.recipe} = {None} => a.recipe = None /\ b.recipe = None
        BY <4>2
      <4> QED
        BY <4>1, <4>3
    <3>2. CASE a.recipe = None
      BY <2>1, <2>3, <3>1, <3>2 DEF RecipeCaveats
    <3>3. CASE a.recipe # None
      <4>1. Caveat(a.recipe.choices # b.recipe.choices, "recipe", "not comparable") =
            Caveat(b.recipe.choices # a.recipe.choices, "recipe", "not comparable")
        BY DEF Caveat
      <4>2. (IF a.recipe.clean /\ b.recipe.clean THEN Caveat(TRUE, "clean recipe platform basics", None)
             ELSE Caveat(TRUE, "recipe environment", "not comparable")) =
            (IF b.recipe.clean /\ a.recipe.clean THEN Caveat(TRUE, "clean recipe platform basics", None)
             ELSE Caveat(TRUE, "recipe environment", "not comparable"))
        OBVIOUS
      <4>3. Caveat(~a.recipe.complete \/ ~b.recipe.complete, "recipe outcome", "insufficient coverage") =
            Caveat(~b.recipe.complete \/ ~a.recipe.complete, "recipe outcome", "insufficient coverage")
        BY DEF Caveat
      <4> HIDE DEF Caveat
      <4> QED
        BY <2>1, <2>3, <3>1, <3>3, <4>1, <4>2, <4>3 DEF RecipeCaveats
    <3> QED
      BY <3>2, <3>3
  <2> QED
    BY <2>2, <2>3
<1>5. EnvironmentCaveats(a, b) = EnvironmentCaveats(b, a)
  <2>1. (None \in {a.machine, b.machine}) <=> (None \in {b.machine, a.machine})
    OBVIOUS
  <2>2. {key \in {"counters", "capacity"} : Differ(a.machine[key], b.machine[key])} =
        {key \in {"counters", "capacity"} : Differ(b.machine[key], a.machine[key])}
    BY <1>2
  <2> QED
    BY <2>1, <2>2 DEF EnvironmentCaveats
<1>6. SettingsDiffer(a, b) = SettingsDiffer(b, a)
  BY DEF SettingsDiffer
<1>7. (2 * Least({a.duration, b.duration}) < Larger(a.duration, b.duration)) =
          (2 * Least({b.duration, a.duration}) < Larger(b.duration, a.duration))
  <2>1. {a.duration, b.duration} = {b.duration, a.duration}
    OBVIOUS
  <2>2. Larger(a.duration, b.duration) = Larger(b.duration, a.duration)
    BY <1>1 DEF IsReport, Larger
  <2> QED
    BY <2>1, <2>2
<1> QED
  BY <1>3, <1>4, <1>5, <1>6, <1>7

\* A caveat blocks what its kind blocks.
LEMMA CaveatBlocks ==
    ASSUME NEW when \in BOOLEAN, NEW kind, NEW blocks, NEW caveat \in Caveat(when, kind, blocks)
    PROVE  caveat.blocks = blocks
<1>1. caveat = [kind |-> kind, blocks |-> blocks]
  BY DEF Caveat
<1> QED
  BY <1>1

\* A run is no shorter than itself.
LEMMA SameLength == ASSUME NEW d \in Nat PROVE ~(2 * Least({d, d}) < Larger(d, d))
<1>1. \E x \in {d} : \A y \in {d} : x <= y
  OBVIOUS
<1>2. Least({d}) \in {d}
  BY <1>1 DEF Least
<1>3. {d, d} = {d}
  OBVIOUS
<1>4. Least({d, d}) = d
  BY <1>2, <1>3
<1>5. Larger(d, d) = d
  BY DEF Larger
<1> QED
  BY <1>4, <1>5

\* A report differs from itself in nothing: what refuses it is its own.
LEMMA SelfRefused ==
    ASSUME ComparisonAssumption, NEW a \in Reports, NEW caveat \in ComparabilityCaveats(a, a),
           caveat.blocks = "not comparable"
    PROVE  a.private \/ (a.recipe # None /\ ~a.recipe.clean)
<1>1. IsReport(a) /\ None \notin Int
  BY DEF ComparisonAssumption
<1>2. \A kind : caveat \notin Caveat(TRUE, kind, None)
  BY CaveatBlocks, CaveatAssumption
<1>3. \A kind, blocks : Caveat(FALSE, kind, blocks) = {}
  BY DEF Caveat
<1>4. \A x : Differ(x, x) = FALSE /\ OnlyOne(x, x) = FALSE
  BY DEF Differ, OnlyOne
<1>5. caveat \notin ExperimentCaveats(a, a)
  <2>1. Caveat(a.workload # a.workload, "workload", "not comparable") = {}
    BY DEF Caveat
  <2>2. Caveat(Differ(a.arguments, a.arguments) \/ OnlyOne(a.arguments, a.arguments),
               "arguments", "not comparable") = {}
    BY <1>4 DEF Caveat
  <2>3. ASSUME None \notin {a.operations, a.operations}
        PROVE  ~(10 * Size(a.operations - a.operations) > Larger(a.operations, a.operations))
    <3>1. a.operations \in Nat
      BY <1>1, <2>3 DEF IsReport
    <3> QED
      BY ONLY <3>1 DEF Size, Larger
  <2>4. Caveat(\/ OnlyOne(a.operations, a.operations)
               \/ /\ None \notin {a.operations, a.operations}
                  /\ 10 * Size(a.operations - a.operations) > Larger(a.operations, a.operations),
               "operations", "not comparable") = {}
    BY <1>4, <2>3 DEF Caveat
  <2> QED
    BY <2>1, <2>2, <2>4 DEF ExperimentCaveats
<1>6. ASSUME caveat \in RecipeCaveats(a, a) PROVE a.recipe # None /\ ~a.recipe.clean
  <2>1. ~RecipeUnsupported(a, a)
    BY DEF RecipeUnsupported
  <2>2. a.recipe # None
    BY <1>6, <2>1 DEF RecipeCaveats
  <2>3. RecipeCaveats(a, a) =
            UNION {Caveat(a.recipe.choices # a.recipe.choices, "recipe", "not comparable"),
                   IF a.recipe.clean /\ a.recipe.clean THEN Caveat(TRUE, "clean recipe platform basics", None)
                   ELSE Caveat(TRUE, "recipe environment", "not comparable"),
                   Caveat(~a.recipe.complete \/ ~a.recipe.complete, "recipe outcome", "insufficient coverage")}
    BY <2>1, <2>2 DEF RecipeCaveats
  <2>4. Caveat(a.recipe.choices # a.recipe.choices, "recipe", "not comparable") = {}
    BY DEF Caveat
  <2>5. caveat \notin Caveat(~a.recipe.complete \/ ~a.recipe.complete, "recipe outcome", "insufficient coverage")
    <3>1. (~a.recipe.complete \/ ~a.recipe.complete) \in BOOLEAN /\ "insufficient coverage" # "not comparable"
      OBVIOUS
    <3> QED
      BY <3>1, CaveatBlocks
  <2>6. ASSUME a.recipe.clean PROVE FALSE
    <3>1. RecipeCaveats(a, a) =
            UNION {{}, Caveat(TRUE, "clean recipe platform basics", None),
                   Caveat(~a.recipe.complete \/ ~a.recipe.complete, "recipe outcome", "insufficient coverage")}
      BY <2>3, <2>4, <2>6
    <3> QED
      BY ONLY <1>2, <1>6, <2>5, <3>1
  <2> QED
    BY <2>2, <2>6
<1>7. ASSUME caveat \in OwnCaveats(a) PROVE a.private
  <2>1. /\ caveat \notin Caveat(a.recovered, "recovered checkpoint", "insufficient coverage")
        /\ caveat \notin Caveat(~a.judged, "inconclusive", "insufficient coverage")
        /\ caveat \notin Caveat(a.partial # {}, "partial coverage", "insufficient coverage")
        /\ caveat \notin Caveat(a.thinned /\ ~a.exact, "thinned", None)
    <3>1. (~a.judged) \in BOOLEAN /\ (a.partial # {}) \in BOOLEAN /\ (a.thinned /\ ~a.exact) \in BOOLEAN
      OBVIOUS
    <3>2. "insufficient coverage" # "not comparable"
      OBVIOUS
    <3>3. caveat \notin Caveat(a.recovered, "recovered checkpoint", "insufficient coverage")
      BY <1>1, <3>2, CaveatBlocks DEF IsReport
    <3> QED
      BY <3>1, <3>2, <3>3, CaveatBlocks, CaveatAssumption
  <2>2. caveat \in Caveat(a.private, "privacy", "not comparable")
    BY <1>7, <2>1 DEF OwnCaveats
  <2> QED
    BY <2>2 DEF Caveat
<1>8. EnvironmentCaveats(a, a) = {}
  <2>1. {key \in {"counters", "capacity"} : Differ(a.machine[key], a.machine[key])} = {}
    BY <1>4
  <2>2. \A blocks : Caveat({} # {}, "environment", blocks) = {}
    BY DEF Caveat
  <2> HIDE DEF Caveat
  <2> QED
    BY <2>1, <2>2 DEF EnvironmentCaveats
<1>9. Caveat(a.target # a.target, "target", "not comparable") = {}
  BY DEF Caveat
<1>10. Caveat(SettingsDiffer(a, a), "settings", "not comparable") = {}
  BY DEF Caveat, SettingsDiffer
<1>11. Caveat(2 * Least({a.duration, a.duration}) < Larger(a.duration, a.duration),
              "duration", "not comparable") = {}
  <2>1. a.duration \in Nat
    BY <1>1 DEF IsReport
  <2>2. ~(2 * Least({a.duration, a.duration}) < Larger(a.duration, a.duration))
    BY <2>1, SameLength
  <2> QED
    BY <2>2 DEF Caveat
<1>12. caveat \in ExperimentCaveats(a, a) \/ caveat \in RecipeCaveats(a, a) \/ caveat \in OwnCaveats(a)
  <2> HIDE DEF Caveat
  <2>1. ComparabilityCaveats(a, a) =
            UNION {{}, ExperimentCaveats(a, a), RecipeCaveats(a, a), OwnCaveats(a), OwnCaveats(a), {}, {}, {}}
    BY <1>8, <1>9, <1>10, <1>11 DEF ComparabilityCaveats
  <2> QED
    BY ONLY <2>1, caveat \in ComparabilityCaveats(a, a)
<1> QED
  BY <1>5, <1>6, <1>7, <1>12

\* The order of two reports never decides, nor is one refused without cause.
LEMMA RefusalAgrees == ASSUME ComparisonAssumption PROVE RefusalIsSymmetric
<1>1. ASSUME NEW a \in Reports, NEW b \in Reports
      PROVE  ComparabilityCaveats(a, b) = ComparabilityCaveats(b, a)
  <2>1. Caveat(a.target # b.target, "target", "not comparable") =
        Caveat(b.target # a.target, "target", "not comparable")
    BY DEF Caveat
  <2>2. Caveat(SettingsDiffer(a, b), "settings", "not comparable") =
        Caveat(SettingsDiffer(b, a), "settings", "not comparable")
    BY CaveatsSwap
  <2>3. Caveat(2 * Least({a.duration, b.duration}) < Larger(a.duration, b.duration),
               "duration", "not comparable") =
        Caveat(2 * Least({b.duration, a.duration}) < Larger(b.duration, a.duration),
               "duration", "not comparable")
    BY CaveatsSwap
  <2>4. /\ ExperimentCaveats(a, b) = ExperimentCaveats(b, a) /\ RecipeCaveats(a, b) = RecipeCaveats(b, a)
        /\ EnvironmentCaveats(a, b) = EnvironmentCaveats(b, a)
    BY CaveatsSwap
  <2> QED
    BY <2>1, <2>2, <2>3, <2>4 DEF ComparabilityCaveats
<1>2. ASSUME NEW a \in Reports, Comparability(ComparabilityCaveats(a, a)) = "not comparable"
      PROVE  a.private \/ (a.recipe # None /\ ~a.recipe.clean)
  <2>1. \E caveat \in ComparabilityCaveats(a, a) : caveat.blocks = "not comparable"
    BY <1>2 DEF Comparability
  <2> QED
    BY <2>1, SelfRefused
<1> QED
  BY <1>1, <1>2 DEF RefusalIsSymmetric

-----------------------------------------------------------------------------
(* Approving a baseline                                                    *)

\* A promotion that may be recorded: blameless and no worse than the baseline
\* it replaces, or accepted as it is.
Earned(log, entry) ==
    /\ Identified(entry.runs)
    /\ \/ entry.accepted
       \/ /\ Blameless(entry.runs)
          /\ Promotions(log) # {} => NoWorse(Approved(log), entry.runs)

\* What is about to be recorded was earned against what is on record, which
\* is why the last promotion can answer for itself once it is replaced.
EarnedInv ==
    /\ \A p \in opened : pending[p] # None /\ pending[p].action = "promote" => Earned(audit, pending[p])
    /\ \A i \in Promotions(audit) : Identified(audit[i].runs)
    /\ OnlyApprovedGetsWorse

ApprovalInv == StoreInv /\ EarnedInv

\* The baseline of an audit is its last promotion.
LEMMA LastPromotion ==
    ASSUME NEW X, NEW log \in Seq(X), Promotions(log) # {}
    PROVE  /\ Greatest(Promotions(log)) \in Promotions(log)
           /\ \A i \in Promotions(log) : i <= Greatest(Promotions(log))
<1> DEFINE P == Promotions(log)
           v == [i \in 1..Len(log) |-> i]
<1>1. Len(log) \in Nat /\ DOMAIN log = 1..Len(log)
  OBVIOUS
<1>2. /\ \A i \in 1..Len(log) : v[i] \in Int
      /\ \A x \in P : \E i \in 1..Len(log) : x = v[i]
  BY <1>1 DEF Promotions
<1> HIDE DEF P, v
<1>3. P # {}
  BY DEF P
<1>4. Greatest(P) \in P /\ \A x \in P : Greatest(P) >= x
  BY <1>1, <1>2, <1>3, Ends
<1>5. P \subseteq Nat
  BY <1>1 DEF P, Promotions
<1>6. \A i \in P : i <= Greatest(P)
  BY <1>4, <1>5
<1> QED
  BY <1>4, <1>6 DEF P

\* Where nothing got worse and nothing is undecided, it got better or stayed.
LEMMA MeasuredOtherwise ==
    ASSUME NEW old, NEW new, "regressed" \notin GroupVerdicts(old, new)
    PROVE  /\ GroupMeasured(old, new) \notin {"regressed", "mixed"}
           /\ ~Inconclusive(old, new) => GroupMeasured(old, new) \in {"improved", "unchanged"}
<1> DEFINE results == GroupVerdicts(old, new)
<1>1. GroupMeasured(old, new) =
          IF results \cap {"overlap", "unknown"} # {} THEN "inconclusive"
          ELSE IF "improved" \in results THEN "improved" ELSE "unchanged"
  BY DEF GroupMeasured
<1>2. Inconclusive(old, new) <=> results \cap {"overlap", "unknown"} # {}
  BY DEF Inconclusive
<1> HIDE DEF results
<1> QED
  BY <1>1, <1>2

LEMMA MeasuredWorse ==
    ASSUME NEW old, NEW new, "regressed" \in GroupVerdicts(old, new)
    PROVE  GroupMeasured(old, new) \in {"regressed", "mixed"}
  BY DEF GroupMeasured

\* What a promotion decides is what it must have earned.
LEMMA PromoteEarns ==
    ASSUME StoreInv, NEW p \in Procs, NEW group \in Groups, NEW accepted \in BOOLEAN, Promote(p, group, accepted)
    PROVE  Earned(audit, pending'[p])
<1>1. cached[p] = audit /\ Identified(group)
  BY DEF Promote, AtRest, StoreInv, AuditInv, WriterInv
<1>2. pending'[p].runs = group /\ pending'[p].accepted = accepted
  BY DEF Promote, StoreInv, AuditInv, AuditTypes
<1>3. ASSUME ~accepted
      PROVE  /\ Blameless(group)
             /\ Promotions(audit) # {} => NoWorse(Approved(audit), group)
  <2>1. ~NeedsApproval(audit, group)
    BY <1>1, <1>3 DEF Promote
  <2>2. ASSUME Promotions(audit) # {}
        PROVE  NoWorse(Approved(audit), group)
    <3>1. ~Inconclusive(Approved(audit), group)
      BY <1>1, <2>2 DEF Promote, Comparable
    <3>2. GroupMeasured(Approved(audit), group) \notin {"regressed", "mixed"}
      BY <2>1, <2>2 DEF NeedsApproval
    <3>3. OverBudget(Approved(audit)[1].budgets, GroupPeaks(group)) = {}
      BY <2>1, <2>2 DEF NeedsApproval, Budgets
    <3>4. GroupMeasured(Approved(audit), group) \in {"improved", "unchanged"}
      BY <3>1, <3>2, MeasuredOtherwise, MeasuredWorse
    <3> QED
      BY <3>3, <3>4 DEF NoWorse
  <2> QED
    BY <2>1, <2>2 DEF NeedsApproval, Blameless
<1> QED
  BY <1>1, <1>2, <1>3 DEF Earned

\* A step that leaves the audit alone and records nothing keeps what is owed.
LEMMA OthersKeepEarned ==
    ASSUME BaselineAssumption, ApprovalInv, NEW p \in Procs,
           Open(p) \/ CloseStore(p) \/ Publish(p)
             \/ (\E group \in Groups : Check(p, group) \/ \E accepted \in BOOLEAN : Promote(p, group, accepted))
             \/ (\E resource \in Resources, kind \in Kinds, expires \in 1..(MaxTime + MaxDays) :
                    Suppress(p, resource, kind, expires))
    PROVE  EarnedInv'
<1>1. audit' = audit
  BY OthersKeepAudit DEF ApprovalInv, StoreInv
<1>2. ASSUME \A q \in opened' : pending'[q] # None /\ pending'[q].action = "promote" => Earned(audit, pending'[q])
      PROVE  EarnedInv'
  BY <1>1, <1>2 DEF ApprovalInv, EarnedInv, OnlyApprovedGetsWorse
<1>3. CASE Open(p)
  <2>1. opened' = {p} /\ pending' = pending /\ p \notin opened
    BY <1>3 DEF Open, Opened
  <2>2. pending[p] = None
    BY <2>1 DEF ApprovalInv, StoreInv, EvidenceInv
  <2> QED
    BY <1>2, <2>1, <2>2
<1>4. CASE CloseStore(p)
  <2>1. opened' = opened \ {p} /\ pending' = [pending EXCEPT ![p] = None]
    BY <1>4 DEF CloseStore, Leaves
  <2>2. \A q \in opened' : q \in opened /\ pending'[q] = pending[q]
    BY <2>1 DEF ApprovalInv, StoreInv, AuditInv, AuditTypes
  <2> QED
    BY <1>2, <2>2 DEF ApprovalInv, EarnedInv
<1>5. CASE Publish(p) \/ \E group \in Groups : Check(p, group)
  <2>1. opened' = opened /\ pending' = pending
    BY <1>5 DEF Publish, Check, procVars
  <2> QED
    BY <1>2, <2>1 DEF ApprovalInv, EarnedInv
<1>6. ASSUME NEW group \in Groups, NEW accepted \in BOOLEAN, Promote(p, group, accepted)
      PROVE  EarnedInv'
  <2>1. opened' = opened /\ Earned(audit, pending'[p])
    BY <1>6, PromoteEarns DEF Promote, ApprovalInv
  <2>2. \A q \in opened : q = p
    BY <1>6 DEF Promote, AtRest, ApprovalInv, StoreInv, AuditInv, WriterInv
  <2> QED
    BY <1>2, <2>1, <2>2
<1>7. ASSUME NEW resource \in Resources, NEW kind \in Kinds, NEW expires \in 1..(MaxTime + MaxDays),
             Suppress(p, resource, kind, expires)
      PROVE  EarnedInv'
  <2>1. opened' = opened /\ pending'[p].action = "suppress"
    BY <1>7 DEF Suppress, ApprovalInv, StoreInv, AuditInv, AuditTypes
  <2>2. \A q \in opened : q = p
    BY <1>7 DEF Suppress, AtRest, ApprovalInv, StoreInv, AuditInv, WriterInv
  <2> QED
    BY <1>2, <2>1, <2>2
<1> QED
  BY <1>3, <1>4, <1>5, <1>6, <1>7

\* What is recorded answers for itself against the promotion before it.
LEMMA AppendKeepsEarned ==
    ASSUME BaselineAssumption, ApprovalInv, NEW p \in Procs, AppendEntry(p)
    PROVE  EarnedInv'
<1> DEFINE entry == pending[p]
           stamp == Stamped(entry)
           n == Len(audit)
<1>1. /\ p \in opened /\ entry \in Entries /\ cached[p] = audit /\ \A q \in opened : q = p
      /\ audit \in Seq(Entries) /\ n \in Nat /\ DOMAIN audit = 1..n
  BY NoneIsNoEntry DEF AppendEntry, Ready, ApprovalInv, StoreInv, AuditInv, AuditTypes, WriterInv
<1>2. audit' = Append(audit, stamp) /\ opened' = opened /\ pending' = [pending EXCEPT ![p] = None]
  BY <1>1 DEF AppendEntry
<1>3. entry.action = "promote" => stamp = entry
  BY DEF Stamped
<1>4. stamp.action = entry.action
  BY <1>1 DEF Stamped, Entries
<1>5. /\ DOMAIN audit' = 1..n + 1 /\ audit'[n + 1] = stamp
      /\ \A i \in 1..n : audit'[i] = audit[i]
  BY <1>1, <1>2
<1> HIDE DEF n
<1>6. \A i \in Promotions(audit') : i \in Promotions(audit) \/ (i = n + 1 /\ stamp.action = "promote")
  BY <1>1, <1>5 DEF Promotions
<1>7. Promotions(audit) \subseteq Promotions(audit') /\ Promotions(audit) \subseteq 1..n
  BY <1>1, <1>5 DEF Promotions
<1>8. ASSUME stamp.action = "promote" PROVE Earned(audit, stamp)
  <2>1. stamp = entry /\ entry # None /\ entry.action = "promote"
    BY <1>1, <1>3, <1>4, <1>8, NoneIsNoEntry
  <2> HIDE DEF entry, stamp
  <2>2. entry = pending[p]
    BY DEF entry
  <2> QED
    BY <1>1, <2>1, <2>2 DEF ApprovalInv, EarnedInv
<1>9. \A q \in opened' : pending'[q] = None
  BY <1>1, <1>2 DEF ApprovalInv, StoreInv, AuditInv, AuditTypes
<1>10. \A i \in Promotions(audit') : Identified(audit'[i].runs)
  BY <1>5, <1>6, <1>7, <1>8 DEF ApprovalInv, EarnedInv, Earned
<1>11. OnlyApprovedGetsWorse'
  <2> SUFFICES ASSUME NEW i \in Promotions(audit'), ~audit'[i].accepted
               PROVE  /\ Blameless(audit'[i].runs)
                      /\ \A j \in Promotions(audit') :
                             (j < i /\ \A k \in Promotions(audit') : k <= j \/ k >= i) =>
                                 NoWorse(audit'[j].runs, audit'[i].runs)
    BY DEF OnlyApprovedGetsWorse
  <2>1. CASE i \in Promotions(audit)
    <3>1. i \in 1..n /\ audit'[i] = audit[i]
      BY <1>5, <1>7, <2>1
    <3>2. ASSUME NEW j \in Promotions(audit'), j < i PROVE j \in Promotions(audit) /\ audit'[j] = audit[j]
      <4>1. j # n + 1
        BY <1>1, <3>1, <3>2
      <4>2. j \in Promotions(audit)
        BY <1>6, <4>1
      <4> QED
        BY <1>5, <1>7, <4>2
    <3> QED
      BY <1>7, <2>1, <3>1, <3>2 DEF ApprovalInv, EarnedInv, OnlyApprovedGetsWorse
  <2>2. CASE i \notin Promotions(audit)
    <3>1. i = n + 1 /\ audit'[i] = stamp /\ stamp.action = "promote"
      BY <1>5, <1>6, <2>2
    <3>2. Blameless(stamp.runs)
      BY <1>8, <3>1 DEF Earned
    <3>3. ASSUME NEW j \in Promotions(audit'), j < i, \A k \in Promotions(audit') : k <= j \/ k >= i
          PROVE  NoWorse(audit'[j].runs, stamp.runs)
      <4>1. j \in Promotions(audit) /\ audit'[j] = audit[j]
        <5>1. j \in Promotions(audit) \/ j = n + 1
          BY <1>6, <3>3
        <5>2. j \in Promotions(audit) /\ j \in 1..n
          BY <1>1, <1>7, <3>1, <3>3, <5>1
        <5> QED
          BY <1>5, <5>2
      <4>2. \A k \in Promotions(audit) : k <= j
        BY <1>1, <1>7, <3>1, <3>3
      <4>3. j = Greatest(Promotions(audit))
        <5>1. /\ Greatest(Promotions(audit)) \in Promotions(audit)
              /\ \A k \in Promotions(audit) : k <= Greatest(Promotions(audit))
          BY <1>1, <4>1, LastPromotion
        <5> DEFINE g == Greatest(Promotions(audit))
        <5>2. g \in 1..n /\ j \in 1..n /\ g <= j /\ j <= g
          BY <1>7, <4>1, <4>2, <5>1
        <5> HIDE DEF g
        <5>3. g = j
          BY <1>1, <5>2
        <5> QED
          BY <5>3 DEF g
      <4>4. Approved(audit) = audit[j].runs
        BY <4>3 DEF Approved
      <4> QED
        BY <1>8, <3>1, <4>1, <4>4 DEF Earned
    <3> QED
      BY <3>1, <3>2, <3>3
  <2> QED
    BY <2>1, <2>2
<1> QED
  BY <1>9, <1>10, <1>11 DEF EarnedInv

\* Findings of a check, and what grouped diff makes of none.
LEMMA NothingFound ==
    ASSUME NEW old, NEW new, NEW budgets, Found(old, new, budgets) = {}
    PROVE  OverBudget(budgets, GroupPeaks(new)) = {} /\ "regressed" \notin GroupVerdicts(old, new)
<1>1. \A r \in OverBudget(budgets, GroupPeaks(new)) : [resource |-> r, kind |-> "budget"] \in Found(old, new, budgets)
  BY DEF Found
<1>2. \A r \in Resources : GroupVerdict(old, new, r) = "regressed" =>
          [resource |-> r, kind |-> "regression"] \in Found(old, new, budgets)
  BY DEF Found
<1> QED
  BY <1>1, <1>2 DEF GroupVerdicts

\* A check that passes found nothing that is not excepted.
LEMMA PassMeans ==
    ASSUME NEW log, NEW group, CheckCode(log, group) = 0
    PROVE  /\ Identified(group) /\ Readable(log) /\ Independent(Approved(log), group)
           /\ Comparable(Approved(log), group)
           /\ \A f \in Found(Approved(log), group, Budgets(log)) : Suppressed(log, f)
<1> DEFINE found == Found(Approved(log), group, Budgets(log))
           left == {f \in found : ~Suppressed(log, f)}
           kinds == {f.kind : f \in left}
<1>1. /\ Identified(group) /\ Readable(log) /\ Independent(Approved(log), group)
      /\ Comparable(Approved(log), group) /\ "regression" \notin kinds /\ "budget" \notin kinds
  BY DEF CheckCode
<1>2. \A f \in found : f.kind = "regression" \/ f.kind = "budget"
  BY DEF Found
<1> HIDE DEF found
<1>3. \A f \in left : f.kind \in kinds
  OBVIOUS
<1>4. \A f \in found : Suppressed(log, f)
  BY <1>1, <1>2, <1>3
<1> QED
  BY <1>1, <1>4 DEF found

\* A check that passes is one whose findings were excepted, now and for this
\* baseline.
LEMMA CheckEarns ==
    ASSUME ApprovalInv, NEW p \in Procs, NEW group \in Groups, Check(p, group)
    PROVE  PassIsEarned'
<1>1. cached[p] = audit /\ audit \in Seq(Entries) /\ DOMAIN audit = 1..Len(audit) /\ Len(audit) \in Nat
  BY DEF Check, AtRest, ApprovalInv, StoreInv, AuditInv, AuditTypes, WriterInv
<1>2. audit' = audit /\ today' = today /\ stored' = stored /\ damaged' = damaged
  BY DEF Check, storeVars
<1>3. CASE CheckCode(audit, group) # 0
  BY <1>1, <1>3 DEF Check, PassIsEarned
<1>4. CASE CheckCode(audit, group) = 0
  <2> DEFINE base == Greatest(Promotions(audit))
             old == audit[base].runs
             found == Found(old, group, old[1].budgets)
  <2>1. told' = group /\ Promotions(audit) # {}
    BY <1>1, <1>4 DEF Check
  <2>2. base \in Promotions(audit) /\ base \in 1..Len(audit)
    BY <1>1, <2>1, LastPromotion DEF Promotions
  <2>3. Approved(audit) = old /\ Budgets(audit) = old[1].budgets
    BY DEF Approved, Budgets
  <2>4. Identified(old)
    BY <2>2 DEF ApprovalInv, EarnedInv
  <2> HIDE DEF base, old
  <2>5. /\ Identified(group) /\ Readable(audit) /\ Independent(old, group) /\ Comparable(old, group)
        /\ \A f \in found : Suppressed(audit, f)
    BY <1>4, <2>3, PassMeans
  <2>6. ASSUME NEW f \in found
        PROVE  \E i \in base + 1..Len(audit) :
                   /\ audit[i].action = "suppress" /\ audit[i].resource = f.resource /\ audit[i].kind = f.kind
                   /\ today < audit[i].expires
    <3>1. Suppressed(audit, f)
      BY <2>5
    <3>2. PICK e \in Exceptions(audit) : e.expires > today /\ e.resource = f.resource /\ e.kind = f.kind
      BY <3>1 DEF Suppressed
    <3>3. PICK i \in DOMAIN audit : e = audit[i] /\ audit[i].action = "suppress" /\ i > base
      BY DEF Exceptions, base
    <3>4. i \in base + 1..Len(audit)
      BY <1>1, <2>2, <3>3
    <3> QED
      BY <3>2, <3>3, <3>4
  <2>7. ASSUME found = {} PROVE GroupExit(old, group, TRUE, old[1].budgets) = 0
    <3>1. OverBudget(old[1].budgets, GroupPeaks(group)) = {} /\ "regressed" \notin GroupVerdicts(old, group)
      BY <2>7, NothingFound
    <3>2. GroupMeasured(old, group) \notin {"regressed", "mixed"}
      BY <3>1, MeasuredOtherwise
    <3>3. Comparability(GroupCaveats(old, group)) = "comparable"
      BY <2>5 DEF Comparable
    <3>4. ~(Len(old) < 2) /\ ~(Len(group) < 2)
      BY <2>4, <2>5 DEF Identified
    <3> QED
      BY <2>5, <3>1, <3>2, <3>3, <3>4 DEF GroupExit, DiffCode
  <2>8. Readable(audit)'
    BY <1>2, <2>5 DEF Readable
  <2> QED
    BY <1>2, <2>1, <2>6, <2>7, <2>8 DEF PassIsEarned, base, old
<1> QED
  BY <1>3, <1>4

\* Every step keeps what an approval rests on.
LEMMA StepKeepsEarned ==
    ASSUME BaselineAssumption, ApprovalInv, [BaselineNext]_baselineVars
    PROVE  EarnedInv'
<1>1. CASE \E p \in Procs : AppendEntry(p)
  BY <1>1, AppendKeepsEarned
<1>2. CASE \E p \in Procs : Operation(p) /\ ~AppendEntry(p)
  BY <1>2, OthersKeepEarned DEF Operation
<1>3. CASE SetClock \/ (\E run \in stored : Damage(run)) \/ UNCHANGED baselineVars
  <2>1. audit' = audit /\ opened' = opened /\ pending' = pending
    BY <1>3 DEF SetClock, Damage, storeVars, procVars, baselineVars
  <2> QED
    BY <2>1 DEF ApprovalInv, EarnedInv, OnlyApprovedGetsWorse
<1> QED
  BY <1>1, <1>2, <1>3 DEF BaselineNext

\* Nothing but a check says that runs passed, and any step after it ends that.
LEMMA StepKeepsTold ==
    ASSUME ApprovalInv, PassIsEarned, [BaselineNext]_baselineVars
    PROVE  PassIsEarned'
<1>1. CASE \E p \in Procs, group \in Groups : Check(p, group)
  BY <1>1, CheckEarns
<1>2. CASE BaselineNext /\ ~\E p \in Procs, group \in Groups : Check(p, group)
  <2>1. told' = NotPassed
    BY <1>2 DEF BaselineNext, Operation, Open, CloseStore, Publish, AppendEntry, Promote, Suppress, SetClock, Damage
  <2> QED
    BY <2>1 DEF PassIsEarned
<1>3. CASE UNCHANGED baselineVars
  BY <1>3 DEF baselineVars, storeVars, PassIsEarned, Readable
<1> QED
  BY <1>1, <1>2, <1>3

(* What a comparison says its runs support, in either order, and nothing   *)
(* becomes a baseline or passes a check that is worse than the one before  *)
(* unless somebody accepted or excepted it (compare_repeated_reports,      *)
(* comparability_caveats; baseline_control, promote and check).            *)
THEOREM ComparisonTrue == BaselineSpec => []ComparisonHolds
<1>1. GroupedVerdictsHold /\ RefusalIsSymmetric
  BY GroupsAgree, RefusalAgrees, ComparisonAssumption
<1>2. BaselineInit => ApprovalInv /\ PassIsEarned
  <2>1. BaselineInit => StoreInv
    BY DEF BaselineInit, StoreInv, AuditInv, AuditTypes, WriterInv, EvidenceInv, BaselineReadable, Replayable, Promotions
  <2>2. BaselineInit => EarnedInv /\ PassIsEarned
    BY DEF BaselineInit, EarnedInv, OnlyApprovedGetsWorse, Promotions, PassIsEarned
  <2> QED
    BY <2>1, <2>2 DEF ApprovalInv
<1>3. ApprovalInv /\ [BaselineNext]_baselineVars => ApprovalInv'
  <2>1. ApprovalInv /\ [BaselineNext]_baselineVars => AuditInv'
    BY StepExtends, BaselineAssumption
       DEF ApprovalInv, StoreInv, AuditInv, AuditTypes, WriterInv, baselineVars, storeVars, procVars
  <2> QED
    BY <2>1, StepKeepsStore, StepKeepsEarned, BaselineAssumption DEF ApprovalInv, StoreInv
<1>4. ApprovalInv /\ PassIsEarned /\ [BaselineNext]_baselineVars => PassIsEarned'
  BY StepKeepsTold
<1>5. ApprovalInv /\ PassIsEarned => ComparisonHolds
  BY <1>1 DEF ApprovalInv, EarnedInv, ComparisonHolds, ApprovalsHold
<1> QED
  BY <1>2, <1>3, <1>4, <1>5, PTL DEF BaselineSpec

(***************************************************************************)
(* The annotations of a session                                            *)
(***************************************************************************)

NoteKinds == {"pause", "access", "warm-up", "started", "exited", "signal", "marker"}

Notes == [kind : NoteKinds, of : SUBSET (Signalled \cup Pids), says : Nat]

Lifecycle == [pid : Pids, kind : {"started", "exited"}]

Samples ==
    [failed : BOOLEAN, paused : BOOLEAN, warming : BOOLEAN, unread : SUBSET Pids, present : SUBSET Pids,
     severity : [Signalled -> Levels], events : SUBSET Lifecycle]

Views ==
    [shown : [seen : BOOLEAN, paused : BOOLEAN, warming : BOOLEAN], severity : [Signalled -> Levels],
     unread : SUBSET Pids, error : BOOLEAN, marks : Seq(Notes), evicted : BOOLEAN]

About(mark, kind, of) == mark.kind = kind /\ mark.of = of

Has(marks, kind, of) == \E i \in 1..Len(marks) : About(marks[i], kind, of)

\* The last annotation of this kind, if there is one, says x.
Tells(marks, kind, of, x) ==
    \A i \in 1..Len(marks) :
        About(marks[i], kind, of) /\ (\A j \in 1..Len(marks) : j > i => ~About(marks[j], kind, of)) => marks[i].says = x

PauseOf(paused) == IF paused THEN 1 ELSE 0

\* What a view says of itself: its last annotations are what it holds, and
\* what it holds is annotated or was evicted.
SignalsTold(v) ==
    \A r \in Signalled :
        /\ Tells(v.marks, "signal", {r}, v.severity[r])
        /\ v.severity[r] # 0 /\ ~v.evicted => Has(v.marks, "signal", {r})

AccessTold(v) ==
    /\ \A i \in v.unread : Tells(v.marks, "access", {i}, 0)
    /\ ~v.shown.seen => \A i \in Pids : ~Has(v.marks, "access", {i})

PauseTold(v) ==
    /\ v.shown.seen => Tells(v.marks, "pause", {}, PauseOf(v.shown.paused))
    /\ ~v.shown.seen => ~Has(v.marks, "pause", {})

ViewInv(v) == v \in Views /\ SignalsTold(v) /\ AccessTold(v) /\ PauseTold(v)

\* A view without error is what the last sample measured.
Synced(v, s) ==
    ~v.error /\ v.shown.seen =>
        /\ v.shown.paused = s.paused
        /\ ~s.paused => v.severity = s.severity /\ v.unread = s.unread

TimelineInv ==
    /\ now \in Samples /\ samples \in Nat /\ stream \in Seq(Samples) /\ markers \in Seq(Nat)
    /\ ViewInv(view)
    /\ stream # <<>> => stream[Len(stream)] = now
    /\ stream = <<>> => Synced(view, now)

-----------------------------------------------------------------------------
\* There is a last annotation of a kind if there is any at all.
LEMMA LastExists ==
    ASSUME NEW n \in Nat, NEW I, I \subseteq 1..n, I # {}
    PROVE  Max(I) \in I /\ \A i \in I : Max(I) >= i
<1> DEFINE v == [i \in 1..n |-> i]
<1>1. Greatest(I) \in I /\ \A x \in I : Greatest(I) >= x
  <2>1. \A i \in 1..n : v[i] \in Int
    OBVIOUS
  <2>2. \A x \in I : \E i \in 1..n : x = v[i]
    OBVIOUS
  <2> HIDE DEF v
  <2> QED
    BY <2>1, <2>2, Ends
<1> QED
  BY <1>1 DEF Max

\* LastOf is where the last annotation of a kind is.
LEMMA LastPlace ==
    ASSUME NEW kind, NEW of, view.marks \in Seq(Notes)
    PROVE  /\ LastOf(kind, of) = 0 <=> ~Has(view.marks, kind, of)
           /\ \A x : Tells(view.marks, kind, of, x) /\ LastOf(kind, of) # 0 => Says(kind, of, 0) = x
<1> DEFINE marks == view.marks
           n == Len(marks)
           I == {i \in 1..n : About(marks[i], kind, of)}
<1>1. n \in Nat
  OBVIOUS
<1>2. LastOf(kind, of) = IF I # {} THEN Max(I) ELSE 0
  BY DEF LastOf, SelectLastInSeq, About
<1>3. I = {} <=> ~Has(marks, kind, of)
  BY DEF Has
<1>4. CASE I = {}
  BY <1>2, <1>3, <1>4
<1>5. CASE I # {}
  <2>1. Max(I) \in I /\ \A i \in I : Max(I) >= i
    BY <1>1, <1>5, LastExists
  <2>2. LastOf(kind, of) = Max(I) /\ Max(I) \in 1..n /\ About(marks[Max(I)], kind, of)
    BY <1>2, <1>5, <2>1
  <2>3. \A j \in 1..n : j > Max(I) => ~About(marks[j], kind, of)
    BY <1>1, <2>1, <2>2
  <2>4. \A x : Tells(marks, kind, of, x) => marks[Max(I)].says = x
    BY <2>2, <2>3 DEF Tells
  <2>5. LastOf(kind, of) # 0
    BY <1>1, <2>2
  <2> QED
    BY <1>3, <1>5, <2>2, <2>4, <2>5 DEF Says
<1> QED
  BY <1>4, <1>5

\* Later annotations come last.
LEMMA ConcatTells ==
    ASSUME NEW a \in Seq(Notes), NEW b \in Seq(Notes), NEW kind, NEW of
    PROVE  /\ a \o b \in Seq(Notes)
           /\ Has(a \o b, kind, of) <=> Has(a, kind, of) \/ Has(b, kind, of)
           /\ \A x : Tells(b, kind, of, x) /\ (Has(b, kind, of) \/ Tells(a, kind, of, x)) => Tells(a \o b, kind, of, x)
<1> DEFINE c == a \o b
           m == Len(a)
           n == Len(b)
<1>1. c \in Seq(Notes) /\ Len(c) = m + n /\ m \in Nat /\ n \in Nat
  OBVIOUS
<1>2. /\ \A i \in 1..m : c[i] = a[i]
      /\ \A i \in 1..n : c[i + m] = b[i]
  OBVIOUS
<1>3. \A i \in 1..m + n : i \in 1..m \/ (i - m \in 1..n /\ i = (i - m) + m)
  BY <1>1
<1>4. \A i \in 1..m : i \in 1..m + n
  BY <1>1
<1>5. \A i \in 1..n : i + m \in 1..m + n /\ i + m > m
  BY <1>1
<1> HIDE DEF c, m, n
<1>6. Has(c, kind, of) <=> Has(a, kind, of) \/ Has(b, kind, of)
  <2>1. ASSUME Has(c, kind, of) PROVE Has(a, kind, of) \/ Has(b, kind, of)
    <3>1. PICK i \in 1..m + n : About(c[i], kind, of)
      BY <1>1, <2>1 DEF Has
    <3>2. CASE i \in 1..m
      BY <1>2, <3>1, <3>2 DEF Has, m
    <3>3. CASE i - m \in 1..n /\ i = (i - m) + m
      BY <1>2, <3>1, <3>3 DEF Has, n
    <3> QED
      BY <1>3, <3>2, <3>3
  <2>2. ASSUME Has(a, kind, of) PROVE Has(c, kind, of)
    BY <1>1, <1>2, <1>4, <2>2 DEF Has, m, n
  <2>3. ASSUME Has(b, kind, of) PROVE Has(c, kind, of)
    BY <1>1, <1>2, <1>5, <2>3 DEF Has, m, n
  <2> QED
    BY <2>1, <2>2, <2>3
<1>7. ASSUME NEW x, Tells(b, kind, of, x), Has(b, kind, of) \/ Tells(a, kind, of, x)
      PROVE  Tells(c, kind, of, x)
  <2> SUFFICES ASSUME NEW i \in 1..m + n, About(c[i], kind, of),
                      \A j \in 1..m + n : j > i => ~About(c[j], kind, of)
               PROVE  c[i].says = x
    BY <1>1 DEF Tells
  <2>1. CASE i \in 1..m
    <3>1. \A j \in 1..n : ~About(b[j], kind, of)
      BY <1>1, <1>2, <1>5, <2>1
    <3>2. Tells(a, kind, of, x)
      BY <1>7, <3>1 DEF Has, n
    <3>3. \A j \in 1..m : j > i => ~About(a[j], kind, of)
      BY <1>1, <1>2, <1>4
    <3> QED
      BY <1>2, <2>1, <3>2, <3>3 DEF Tells, m
  <2>2. CASE i - m \in 1..n /\ i = (i - m) + m
    <3> DEFINE k == i - m
    <3>1. k \in 1..n /\ c[i] = b[k]
      BY <1>2, <2>2
    <3>2. \A j \in 1..n : j > k => ~About(b[j], kind, of)
      BY <1>1, <1>2, <1>5, <2>2
    <3> HIDE DEF k
    <3> QED
      BY <1>7, <3>1, <3>2 DEF Tells, n
  <2> QED
    BY <1>3, <2>1, <2>2
<1> QED
  BY <1>1, <1>6, <1>7 DEF c

\* What is kept of the annotations are the last ones.
LEMMA SuffixTells ==
    ASSUME NEW s \in Seq(Notes), NEW k \in Nat, NEW kind, NEW of
    PROVE  LET t == SubSeq(s, k + 1, Len(s))
           IN /\ t \in Seq(Notes)
              /\ Has(t, kind, of) => Has(s, kind, of)
              /\ \A x : Tells(s, kind, of, x) => Tells(t, kind, of, x)
<1> DEFINE t == SubSeq(s, k + 1, Len(s))
           n == Len(s)
           m == Len(t)
<1>1. /\ t \in Seq(Notes) /\ n \in Nat /\ m \in Nat
      /\ m = IF k + 1 <= n THEN n - k ELSE 0
      /\ \A i \in 1..n - k : t[i] = s[i + k]
  <2>1. n \in Nat /\ k + 1 \in Int
    OBVIOUS
  <2>2. \A i \in k + 1..n : s[i] \in Notes
    OBVIOUS
  <2>3. /\ t \in Seq(Notes)
        /\ m = IF k + 1 <= n THEN n - (k + 1) + 1 ELSE 0
        /\ \A i \in 1..n - (k + 1) + 1 : t[i] = s[k + 1 + i - 1]
    BY <2>1, <2>2, SubSeqProperties
  <2> HIDE DEF t
  <2> QED
    BY <2>1, <2>3
<1> HIDE DEF t, n, m
<1>2. \A i \in 1..m : i + k \in 1..n /\ t[i] = s[i + k]
  BY <1>1
<1>3. \A j \in 1..n : j > k => j - k \in 1..m /\ s[j] = t[j - k]
  BY <1>1
<1>4. Has(t, kind, of) => Has(s, kind, of)
  BY <1>2 DEF Has, m, n
<1>5. ASSUME NEW x, Tells(s, kind, of, x) PROVE Tells(t, kind, of, x)
  <2> SUFFICES ASSUME NEW i \in 1..m, About(t[i], kind, of),
                      \A j \in 1..m : j > i => ~About(t[j], kind, of)
               PROVE  t[i].says = x
    BY DEF Tells, m
  <2>1. ASSUME NEW j \in 1..n, j > i + k PROVE ~About(s[j], kind, of)
    <3>1. j > k /\ j - k > i
      BY <1>1, <2>1
    <3> QED
      BY <1>3, <3>1
  <2> QED
    BY <1>2, <1>5, <2>1 DEF Tells, n
<1> QED
  BY <1>1, <1>4, <1>5 DEF t, n

-----------------------------------------------------------------------------
\* What is annotated of finitely many things is a list of just these.
LEMMA ListedOnce ==
    ASSUME NEW S, IsFiniteSet(S)
    PROVE  /\ SetToSeq(S) \in Seq(S)
           /\ \A m \in S : \E i \in 1..Len(SetToSeq(S)) : SetToSeq(S)[i] = m
<1> DEFINE n == Cardinality(S)
           l == SetToSeq(S)
<1>1. n \in Nat /\ Bijection(1..n, S) # {}
  BY FS_CardinalityType DEF ExistsBijection
<1>2. \E f \in [1..n -> S] : IsInjective(f)
  BY <1>1 DEF Bijection, Injection
<1>3. l \in [1..n -> S] /\ IsInjective(l)
  BY <1>2 DEF SetToSeq
<1> HIDE DEF l
<1>4. l \in Injection(1..n, S)
  BY <1>3 DEF Injection
<1>5. IsFiniteSet(1..n) /\ Cardinality(1..n) = n
  BY <1>1, FS_Interval
<1>6. l \in Surjection(1..n, S)
  BY <1>4, <1>5, FS_Injection
<1>7. l \in Seq(S) /\ Len(l) = n
  BY <1>1, <1>3
<1> QED
  BY <1>6, <1>7 DEF Surjection, l

LEMMA ImageFinite ==
    ASSUME NEW D, IsFiniteSet(D), NEW f, NEW S, \A m \in S : \E x \in D : m = f[x]
    PROVE  IsFiniteSet(S)
<1> DEFINE T == {f[x] : x \in D}
           g == [x \in D |-> f[x]]
<1>1. g \in Surjection(D, T)
  BY DEF Surjection
<1>2. IsFiniteSet(T) /\ S \subseteq T
  BY <1>1, FS_Surjection
<1> QED
  BY <1>2, FS_Subset

\* So the list has an annotation exactly if one of the set is about it, and
\* tells what they agree on.
LEMMA ListTells ==
    ASSUME NEW S, S \subseteq Notes, IsFiniteSet(S)
    PROVE  /\ SetToSeq(S) \in Seq(Notes)
           /\ \A kind, of : Has(SetToSeq(S), kind, of) <=> \E m \in S : About(m, kind, of)
           /\ \A kind, of, x : (\A m \in S : About(m, kind, of) => m.says = x) => Tells(SetToSeq(S), kind, of, x)
<1> DEFINE l == SetToSeq(S)
<1>1. /\ l \in Seq(S)
      /\ \A m \in S : \E i \in 1..Len(l) : l[i] = m
  BY ListedOnce
<1> HIDE DEF l
<1>2. /\ l \in Seq(Notes)
      /\ \A i \in 1..Len(l) : l[i] \in S
  BY <1>1
<1>3. \A kind, of : Has(l, kind, of) <=> \E m \in S : About(m, kind, of)
  BY <1>1, <1>2 DEF Has
<1>4. \A kind, of, x : (\A m \in S : About(m, kind, of) => m.says = x) => Tells(l, kind, of, x)
  BY <1>2 DEF Tells
<1> QED
  BY <1>2, <1>3, <1>4 DEF l

LEMMA NoMark == \A kind, of : <<>> \in Seq(Notes) /\ ~Has(<<>>, kind, of) /\ \A x : Tells(<<>>, kind, of, x)
  BY DEF Has, Tells

LEMMA OneMark ==
    ASSUME NEW m \in Notes
    PROVE  /\ <<m>> \in Seq(Notes)
           /\ \A kind, of : Has(<<m>>, kind, of) <=> About(m, kind, of)
           /\ \A kind, of, x : Tells(<<m>>, kind, of, x) <=> (About(m, kind, of) => m.says = x)
  BY DEF Has, Tells

LEMMA MarkIsNote ==
    ASSUME NEW kind \in NoteKinds, NEW of \in SUBSET (Signalled \cup Pids), NEW says \in Nat
    PROVE  Mark(kind, of, says) \in Notes
  BY DEF Mark, Notes

-----------------------------------------------------------------------------
\* What one sample adds, by kind.
LEMMA PauseMarks ==
    ASSUME NEW v \in Views, NEW s \in Samples
    PROVE  /\ MarkPause(v, s) \in Seq(Notes)
           /\ \A kind, of : Has(MarkPause(v, s), kind, of) => kind = "pause"
           /\ v.shown.seen /\ s.paused # v.shown.paused => Has(MarkPause(v, s), "pause", {})
           /\ Has(MarkPause(v, s), "pause", {}) => v.shown.seen /\ s.paused # v.shown.paused
           /\ Tells(MarkPause(v, s), "pause", {}, PauseOf(s.paused))
<1> DEFINE m == Mark("pause", {}, IF s.paused THEN 1 ELSE 0)
<1>1. m \in Notes
  <2>1. "pause" \in NoteKinds /\ {} \in SUBSET (Signalled \cup Pids) /\ (IF s.paused THEN 1 ELSE 0) \in Nat
    BY DEF NoteKinds
  <2> QED
    BY <2>1, MarkIsNote
<1>3. \A k, o : About(m, k, o) <=> "pause" = k /\ {} = o
  BY DEF Mark, About
<1>4. m.says = PauseOf(s.paused)
  BY DEF Mark, PauseOf
<1> HIDE DEF m
<1>2. MarkPause(v, s) = IF v.shown.seen /\ s.paused # v.shown.paused THEN <<m>> ELSE <<>>
  BY DEF MarkPause, m
<1>5. CASE v.shown.seen /\ s.paused # v.shown.paused
  <2>1. /\ <<m>> \in Seq(Notes) 
        /\ \A kind, of : Has(<<m>>, kind, of) <=> "pause" = kind /\ {} = of
        /\ \A kind, of, x : Tells(<<m>>, kind, of, x) <=> (About(m, kind, of) => m.says = x)
    BY <1>1, <1>3, OneMark
  <2> QED
    BY <1>2, <1>4, <1>5, <2>1
<1>6. CASE ~(v.shown.seen /\ s.paused # v.shown.paused)
  BY <1>2, <1>6, NoMark
<1> QED
  BY <1>5, <1>6

LEMMA WarmupMarks ==
    ASSUME NEW v \in Views, NEW s \in Samples
    PROVE  /\ MarkWarmup(v, s) \in Seq(Notes)
           /\ \A kind, of : Has(MarkWarmup(v, s), kind, of) => kind = "warm-up"
<1> DEFINE m == Mark("warm-up", {}, 0)
<1>1. m \in Notes
  <2>1. "warm-up" \in NoteKinds /\ {} \in SUBSET (Signalled \cup Pids)
    BY DEF NoteKinds
  <2> QED
    BY <2>1, MarkIsNote
<1>3. \A k, o : About(m, k, o) <=> "warm-up" = k /\ {} = o
  BY DEF Mark, About
<1> HIDE DEF m
<1>2. MarkWarmup(v, s) = <<m>> \/ MarkWarmup(v, s) = <<>>
  BY DEF MarkWarmup, m
<1> QED
  
  <2>1. <<m>> \in Seq(Notes) /\ \A kind, of : Has(<<m>>, kind, of) <=> "warm-up" = kind /\ {} = of
    BY <1>1, <1>3, OneMark
  <2> QED
    BY <1>2, <2>1, NoMark

\* _track_coverage: one annotation of each process that can no longer be
\* read, and none of another that says it.
LEMMA AccessSet ==
    ASSUME TimelineAssumption, NEW P, P \subseteq Pids, NEW says \in Nat, NEW S,
           \A m \in S : \E i \in P : m = Mark("access", {i}, says),
           \A i \in P : Mark("access", {i}, says) \in S
    PROVE  /\ S \subseteq Notes /\ IsFiniteSet(S)
           /\ \A m \in S : \E i \in P : m.kind = "access" /\ m.of = {i} /\ m.says = says
           /\ \A i \in P : \E m \in S : About(m, "access", {i})
<1> DEFINE f == [i \in Pids |-> Mark("access", {i}, says)]
<1>1. \A i \in Pids : f[i] \in Notes
  <2> SUFFICES ASSUME NEW i \in Pids PROVE Mark("access", {i}, says) \in Notes
    OBVIOUS
  <2>1. "access" \in NoteKinds /\ {i} \in SUBSET (Signalled \cup Pids) /\ says \in Nat
    BY DEF NoteKinds
  <2> QED
    BY <2>1, MarkIsNote
<1>2. \A m \in S : \E i \in P : m = f[i]
  OBVIOUS
<1>3. \A i \in P : f[i] \in S
  OBVIOUS
<1>4. \A i \in Pids : f[i].kind = "access" /\ f[i].of = {i} /\ f[i].says = says
  BY DEF Mark
<1> HIDE DEF f
<1>5. IsFiniteSet(S)
  <2>1. IsFiniteSet(Pids) /\ \A m \in S : \E i \in Pids : m = f[i]
    BY <1>2 DEF TimelineAssumption
  <2> QED
    BY ONLY <2>1, ImageFinite
<1>6. \A m \in S : m \in Notes /\ \E i \in P : m.kind = "access" /\ m.of = {i} /\ m.says = says
  BY ONLY <1>1, <1>2, <1>4, P \subseteq Pids
<1>7. \A i \in P : \E m \in S : m.kind = "access" /\ m.of = {i}
  BY ONLY <1>3, <1>4, P \subseteq Pids
<1> QED
  BY ONLY <1>5, <1>6, <1>7 DEF About

LEMMA CoverageMarks ==
    ASSUME TimelineAssumption, NEW v \in Views, NEW s \in Samples
    PROVE  /\ MarkCoverage(v, s) \in Seq(Notes)
           /\ \A kind, of : Has(MarkCoverage(v, s), kind, of) => kind = "access" /\ v.shown.seen /\ ~s.paused
           /\ v.shown.seen /\ ~s.paused =>
                  /\ \A i \in s.unread \ v.unread : Has(MarkCoverage(v, s), "access", {i})
                  /\ \A i \in s.unread : Tells(MarkCoverage(v, s), "access", {i}, 0)
<1> DEFINE P == s.unread \ v.unread
           Q == (v.unread \ s.unread) \cap s.present
           A == {Mark("access", {i}, 0) : i \in P}
           B == {Mark("access", {i}, 1) : i \in Q}
           a == SetToSeq(A)
           b == SetToSeq(B)
<1>1. CASE ~v.shown.seen \/ s.paused
  <2>1. MarkCoverage(v, s) = <<>>
    BY <1>1 DEF MarkCoverage
  <2> QED
    BY <1>1, <2>1, NoMark
<1>2. CASE v.shown.seen /\ ~s.paused
  <2>1. MarkCoverage(v, s) = a \o b
    BY <1>2 DEF MarkCoverage
  <2>2. P \subseteq Pids /\ Q \subseteq Pids /\ P \cap v.unread = {} /\ P \subseteq s.unread /\ Q \cap s.unread = {}
    BY DEF Samples, Views
  <2> HIDE DEF P, Q
  <2>A. /\ \A m \in A : \E i \in P : m = Mark("access", {i}, 0)
        /\ \A i \in P : Mark("access", {i}, 0) \in A
    OBVIOUS
  <2>B. /\ \A m \in B : \E i \in Q : m = Mark("access", {i}, 1)
        /\ \A i \in Q : Mark("access", {i}, 1) \in B
    OBVIOUS
  <2> HIDE DEF A, B
  <2>3. /\ A \subseteq Notes /\ IsFiniteSet(A)
        /\ \A m \in A : \E i \in P : m.kind = "access" /\ m.of = {i} /\ m.says = 0
        /\ \A i \in P : \E m \in A : About(m, "access", {i})
    BY ONLY TimelineAssumption, <2>2, <2>A, 0 \in Nat, AccessSet
  <2>4. /\ B \subseteq Notes /\ IsFiniteSet(B)
        /\ \A m \in B : \E i \in Q : m.kind = "access" /\ m.of = {i} /\ m.says = 1
        /\ \A i \in Q : \E m \in B : About(m, "access", {i})
    BY ONLY TimelineAssumption, <2>2, <2>B, 1 \in Nat, AccessSet
  <2>5. /\ a \in Seq(Notes)
        /\ \A kind, of : Has(a, kind, of) <=> \E m \in A : About(m, kind, of)
        /\ \A kind, of, x : (\A m \in A : About(m, kind, of) => m.says = x) => Tells(a, kind, of, x)
    BY <2>3, ListTells
  <2>6. /\ b \in Seq(Notes)
        /\ \A kind, of : Has(b, kind, of) <=> \E m \in B : About(m, kind, of)
        /\ \A kind, of, x : (\A m \in B : About(m, kind, of) => m.says = x) => Tells(b, kind, of, x)
    BY <2>4, ListTells
  <2> HIDE DEF a, b
  <2>7. a \o b \in Seq(Notes) /\ \A kind, of : Has(a \o b, kind, of) <=> Has(a, kind, of) \/ Has(b, kind, of)
    BY <2>5, <2>6, ConcatTells
  <2>8. \A kind, of : Has(a \o b, kind, of) => kind = "access"
    BY <2>3, <2>4, <2>5, <2>6, <2>7 DEF About
  <2>9. \A i \in P : Has(a \o b, "access", {i})
    BY <2>3, <2>5, <2>7
  <2>10. ASSUME NEW i \in s.unread PROVE Tells(a \o b, "access", {i}, 0)
    <3>1. Tells(a, "access", {i}, 0)
      BY <2>3, <2>5
    <3>2. \A m \in B : ~About(m, "access", {i})
      BY <2>2, <2>4 DEF About
    <3>3. Tells(b, "access", {i}, 0)
      BY <2>6, <3>2
    <3> QED
      BY <2>5, <2>6, <3>1, <3>3, ConcatTells
  <2> QED
    BY <1>2, <2>1, <2>7, <2>8, <2>9, <2>10 DEF P
<1> QED
  BY <1>1, <1>2

\* _log_signal_transitions: one annotation of each severity that is another.
LEMMA SignalMarks ==
    ASSUME TimelineAssumption, NEW v \in Views, NEW s \in Samples
    PROVE  /\ MarkSignals(v, s) \in Seq(Notes)
           /\ \A kind, of : Has(MarkSignals(v, s), kind, of) => kind = "signal" /\ ~s.paused
           /\ ~s.paused => \A r \in Signalled :
                  /\ Tells(MarkSignals(v, s), "signal", {r}, s.severity[r])
                  /\ Has(MarkSignals(v, s), "signal", {r}) <=> s.severity[r] # v.severity[r]
<1> DEFINE f == [r \in Signalled |-> Mark("signal", {r}, s.severity[r])]
           Q == {q \in Signalled : s.severity[q] # v.severity[q]}
           S == {Mark("signal", {r}, s.severity[r]) : r \in Q}
           l == SetToSeq(S)
<1>1. CASE s.paused
  <2>1. MarkSignals(v, s) = <<>>
    BY <1>1 DEF MarkSignals
  <2> QED
    BY <1>1, <2>1, NoMark
<1>2. CASE ~s.paused
  <2>1. MarkSignals(v, s) = l
    BY <1>2 DEF MarkSignals
  <2>2. \A r \in Signalled : f[r] \in Notes
    <3> SUFFICES ASSUME NEW r \in Signalled PROVE Mark("signal", {r}, s.severity[r]) \in Notes
      OBVIOUS
    <3>1. "signal" \in NoteKinds /\ {r} \in SUBSET (Signalled \cup Pids)
      BY DEF NoteKinds
    <3>2. s.severity[r] \in Nat
      BY DEF Samples, TimelineAssumption
    <3> QED
      BY <3>1, <3>2, MarkIsNote
  <2>3. \A m \in S : \E r \in Q : m = f[r]
    OBVIOUS
  <2>4. \A r \in Q : f[r] \in S
    OBVIOUS
  <2>5. \A r \in Signalled : f[r].kind = "signal" /\ f[r].of = {r} /\ f[r].says = s.severity[r]
    BY DEF Mark
  <2> HIDE DEF f, S
  <2>6. IsFiniteSet(S)
    <3>1. IsFiniteSet(Signalled) /\ \A m \in S : \E r \in Signalled : m = f[r]
      BY <2>3 DEF TimelineAssumption
    <3> QED
      BY <3>1, ImageFinite
  <2>7. S \subseteq Notes
    BY <2>2, <2>3
  <2>8. /\ l \in Seq(Notes)
        /\ \A kind, of : Has(l, kind, of) <=> \E m \in S : About(m, kind, of)
        /\ \A kind, of, x : (\A m \in S : About(m, kind, of) => m.says = x) => Tells(l, kind, of, x)
    BY <2>6, <2>7, ListTells
  <2> HIDE DEF l
  <2>9. \A kind, of : Has(l, kind, of) => kind = "signal"
    BY <2>3, <2>5, <2>8 DEF About
  <2>10. ASSUME NEW r \in Signalled
         PROVE  Tells(l, "signal", {r}, s.severity[r]) /\ (Has(l, "signal", {r}) <=> r \in Q)
    <3>1. \A m \in S : About(m, "signal", {r}) => r \in Q /\ m.says = s.severity[r]
      BY <2>3, <2>5 DEF About
    <3>2. r \in Q => \E m \in S : About(m, "signal", {r})
      BY <2>4, <2>5 DEF About
    <3> HIDE DEF Q
    <3> QED
      BY <2>8, <3>1, <3>2
  <2> QED
    BY <1>2, <2>1, <2>8, <2>9, <2>10
<1> QED
  BY <1>1, <1>2

\* _log_lifecycle: what started or exited is annotated as that, and as
\* nothing else.
LEMMA LifecycleKind ==
    ASSUME TimelineAssumption, NEW s \in Samples, NEW kind \in {"started", "exited"}
    PROVE  /\ LifecycleMarks(s, kind) \in Seq(Notes)
           /\ \A k, of : Has(LifecycleMarks(s, kind), k, of) => k = kind
<1> DEFINE events == {e \in s.events : e.kind = kind}
           g == [i \in Pids |-> [pid |-> i, kind |-> kind]]
           f == [e \in Lifecycle |-> Mark(kind, {e.pid}, 1)]
           S == {Mark(kind, {e.pid}, 1) : e \in events}
           m == Mark(kind, {}, Cardinality(events))
           l == SetToSeq(S)
<1>1. LifecycleMarks(s, kind) = <<>> \/ LifecycleMarks(s, kind) = <<m>> \/ LifecycleMarks(s, kind) = l
  BY DEF LifecycleMarks
<1>2. events \subseteq Lifecycle
  BY DEF Samples
<1>3. IsFiniteSet(events)
  <2>1. \A e \in events : \E i \in Pids : e = g[i]
    BY <1>2 DEF Lifecycle
  <2>2. IsFiniteSet(Pids)
    BY DEF TimelineAssumption
  <2> HIDE DEF events, g
  <2> QED
    BY <2>1, <2>2, ImageFinite
<1>4. kind \in NoteKinds
  BY DEF NoteKinds
<1>5. m \in Notes /\ \A k, of : About(m, k, of) => k = kind
  <2>1. Cardinality(events) \in Nat /\ {} \in SUBSET (Signalled \cup Pids)
    BY <1>3, FS_CardinalityType
  <2>2. m.kind = kind
    BY DEF Mark
  <2> HIDE DEF events
  <2>3. m \in Notes
    BY <1>4, <2>1, MarkIsNote
  <2> QED
    BY <2>2, <2>3 DEF About
<1>6. S \subseteq Notes /\ IsFiniteSet(S) /\ \A n \in S : n.kind = kind
  <2>1. \A n \in S : \E e \in events : n = f[e]
    BY <1>2
  <2>2. \A e \in events : f[e] \in Notes /\ f[e].kind = kind
    <3> SUFFICES ASSUME NEW e \in events PROVE Mark(kind, {e.pid}, 1) \in Notes /\ Mark(kind, {e.pid}, 1).kind = kind
      BY <1>2
    <3>1. {e.pid} \in SUBSET (Signalled \cup Pids)
      BY <1>2 DEF Lifecycle
    <3>2. Mark(kind, {e.pid}, 1).kind = kind
      BY DEF Mark
    <3> HIDE DEF events
    <3> QED
      BY <1>4, <3>1, <3>2, MarkIsNote
  <2> HIDE DEF S, f, events
  <2>3. IsFiniteSet(S)
    BY <1>3, <2>1, ImageFinite
  <2> QED
    BY <2>1, <2>2, <2>3
<1> HIDE DEF S, m, events
<1>7. l \in Seq(Notes) /\ \A k, of : Has(l, k, of) => k = kind
  BY <1>6, ListTells DEF About
<1>8. <<m>> \in Seq(Notes) /\ \A k, of : Has(<<m>>, k, of) => k = kind
  BY <1>5, OneMark
<1> HIDE DEF l
<1> QED
  BY <1>1, <1>7, <1>8, NoMark

LEMMA LifecycleKinds ==
    ASSUME TimelineAssumption, NEW s \in Samples
    PROVE  /\ MarkLifecycle(s) \in Seq(Notes)
           /\ \A kind, of : Has(MarkLifecycle(s), kind, of) => kind \in {"started", "exited"}
<1>1. /\ LifecycleMarks(s, "started") \in Seq(Notes)
      /\ \A k, of : Has(LifecycleMarks(s, "started"), k, of) => k = "started"
  BY LifecycleKind
<1>2. /\ LifecycleMarks(s, "exited") \in Seq(Notes)
      /\ \A k, of : Has(LifecycleMarks(s, "exited"), k, of) => k = "exited"
  BY LifecycleKind
<1> QED
  BY <1>1, <1>2, ConcatTells DEF MarkLifecycle

\* Where one of two lists has nothing of a kind, the other one decides.
LEMMA OneDecides ==
    ASSUME NEW a \in Seq(Notes), NEW b \in Seq(Notes), NEW kind, NEW of
    PROVE  /\ ~Has(a, kind, of) => /\ Has(a \o b, kind, of) <=> Has(b, kind, of)
                                   /\ \A x : Tells(b, kind, of, x) => Tells(a \o b, kind, of, x)
           /\ ~Has(b, kind, of) => /\ Has(a \o b, kind, of) <=> Has(a, kind, of)
                                   /\ \A x : Tells(a, kind, of, x) => Tells(a \o b, kind, of, x)
<1>1. \A x : ~Has(a, kind, of) => Tells(a, kind, of, x)
  BY DEF Has, Tells
<1>2. \A x : ~Has(b, kind, of) => Tells(b, kind, of, x)
  BY DEF Has, Tells
<1> QED
  BY <1>1, <1>2, ConcatTells

\* What a sample says of itself: every change of a pause, of what can be read
\* and of a severity, and nothing that it does not measure.
SaysChanges(new, v, s) ==
    /\ new \in Seq(Notes)
    /\ Has(new, "pause", {}) <=> v.shown.seen /\ s.paused # v.shown.paused
    /\ Tells(new, "pause", {}, PauseOf(s.paused))
    /\ ~v.shown.seen \/ s.paused => \A i : ~Has(new, "access", {i})
    /\ v.shown.seen /\ ~s.paused =>
           /\ \A i \in s.unread \ v.unread : Has(new, "access", {i})
           /\ \A i \in s.unread : Tells(new, "access", {i}, 0)
    /\ s.paused => \A r : ~Has(new, "signal", {r})
    /\ ~s.paused => \A r \in Signalled :
           /\ Tells(new, "signal", {r}, s.severity[r])
           /\ Has(new, "signal", {r}) <=> s.severity[r] # v.severity[r]

LEMMA NewMarks ==
    ASSUME TimelineAssumption, NEW v \in Views, NEW s \in Samples, NEW new,
           new = MarkPause(v, s) \o MarkCoverage(v, s) \o MarkWarmup(v, s) \o MarkLifecycle(s) \o MarkSignals(v, s)
    PROVE  SaysChanges(new, v, s)
<1> DEFINE P == MarkPause(v, s)
           C == MarkCoverage(v, s)
           W == MarkWarmup(v, s)
           L == MarkLifecycle(s)
           G == MarkSignals(v, s)
           PC == P \o C
           PCW == PC \o W
           PCWL == PCW \o L
           all == PCWL \o G
<1>1. /\ P \in Seq(Notes) /\ C \in Seq(Notes) /\ W \in Seq(Notes) /\ L \in Seq(Notes) /\ G \in Seq(Notes)
      /\ \A kind, of : Has(P, kind, of) => kind = "pause"
      /\ \A kind, of : Has(C, kind, of) => kind = "access" /\ v.shown.seen /\ ~s.paused
      /\ \A kind, of : Has(W, kind, of) => kind = "warm-up"
      /\ \A kind, of : Has(L, kind, of) => kind \in {"started", "exited"}
      /\ \A kind, of : Has(G, kind, of) => kind = "signal" /\ ~s.paused
  BY PauseMarks, CoverageMarks, WarmupMarks, LifecycleKinds, SignalMarks
<1>2. /\ Has(P, "pause", {}) <=> v.shown.seen /\ s.paused # v.shown.paused
      /\ Tells(P, "pause", {}, PauseOf(s.paused))
  BY PauseMarks
<1>3. v.shown.seen /\ ~s.paused =>
          /\ \A i \in s.unread \ v.unread : Has(C, "access", {i})
          /\ \A i \in s.unread : Tells(C, "access", {i}, 0)
  BY CoverageMarks
<1>4. ~s.paused => \A r \in Signalled :
          /\ Tells(G, "signal", {r}, s.severity[r])
          /\ Has(G, "signal", {r}) <=> s.severity[r] # v.severity[r]
  BY SignalMarks
<1>5. new = all
  OBVIOUS
<1> HIDE DEF P, C, W, L, G
<1>6. PC \in Seq(Notes) /\ PCW \in Seq(Notes) /\ PCWL \in Seq(Notes) /\ all \in Seq(Notes)
  BY <1>1, ConcatTells
<1>7. \A kind, of : kind = "pause" =>
          /\ Has(PC, kind, of) <=> Has(P, kind, of)
          /\ \A x : Tells(P, kind, of, x) => Tells(PC, kind, of, x)
  BY <1>1, OneDecides
<1>8. \A kind, of : kind = "access" =>
          /\ Has(PC, kind, of) <=> Has(C, kind, of)
          /\ \A x : Tells(C, kind, of, x) => Tells(PC, kind, of, x)
  BY <1>1, OneDecides
<1>9. \A kind, of : kind \in {"pause", "access"} =>
          /\ Has(PCW, kind, of) <=> Has(PC, kind, of)
          /\ \A x : Tells(PC, kind, of, x) => Tells(PCW, kind, of, x)
  <2> HIDE DEF PC
  <2> QED
    BY <1>1, <1>6, OneDecides
<1>10. \A kind, of : kind \in {"pause", "access"} =>
          /\ Has(PCWL, kind, of) <=> Has(PCW, kind, of)
          /\ \A x : Tells(PCW, kind, of, x) => Tells(PCWL, kind, of, x)
  <2> HIDE DEF PCW
  <2> QED
    BY <1>1, <1>6, OneDecides
<1>11. \A kind, of : kind \in {"pause", "access"} =>
          /\ Has(all, kind, of) <=> Has(PCWL, kind, of)
          /\ \A x : Tells(PCWL, kind, of, x) => Tells(all, kind, of, x)
  <2> HIDE DEF PCWL
  <2> QED
    BY <1>1, <1>6, OneDecides
<1>12. \A of : ~Has(PCWL, "signal", of)
  <2> SUFFICES ASSUME NEW of, Has(PCWL, "signal", of) PROVE FALSE
    OBVIOUS
  <2> DEFINE k == "signal"
  <2>1. ~Has(P, k, of) /\ ~Has(C, k, of) /\ ~Has(W, k, of) /\ ~Has(L, k, of)
    <3>1. k # "pause" /\ k # "access" /\ k # "warm-up" /\ k \notin {"started", "exited"}
      OBVIOUS
    <3> HIDE DEF k
    <3> QED
      BY <1>1, <3>1
  <2> HIDE DEF k
  <2>2. ~Has(PC, k, of)
    BY <1>1, <2>1, OneDecides
  <2> HIDE DEF PC
  <2>3. ~Has(PCW, k, of)
    BY <1>1, <1>6, <2>1, <2>2, OneDecides
  <2> HIDE DEF PCW
  <2>4. ~Has(PCWL, k, of)
    BY <1>1, <1>6, <2>1, <2>3, OneDecides
  <2> QED
    BY <2>4 DEF k
<1>13. \A of : /\ Has(all, "signal", of) <=> Has(G, "signal", of)
               /\ \A x : Tells(G, "signal", of, x) => Tells(all, "signal", of, x)
  <2> HIDE DEF PCWL
  <2> QED
    BY <1>1, <1>6, <1>12, OneDecides
<1> HIDE DEF PC, PCW, PCWL, all
<1>14. \A of : /\ Has(all, "pause", of) <=> Has(P, "pause", of)
               /\ \A x : Tells(P, "pause", of, x) => Tells(all, "pause", of, x)
  BY <1>7, <1>9, <1>10, <1>11
<1>15. \A of : /\ Has(all, "access", of) <=> Has(C, "access", of)
               /\ \A x : Tells(C, "access", of, x) => Tells(all, "access", of, x)
  BY <1>8, <1>9, <1>10, <1>11
<1>16. ~v.shown.seen \/ s.paused => \A i : ~Has(all, "access", {i})
  BY <1>1, <1>15
<1>17. s.paused => \A r : ~Has(all, "signal", {r})
  BY <1>1, <1>13
<1>18. ~s.paused => \A r \in Signalled :
          /\ Tells(all, "signal", {r}, s.severity[r])
          /\ Has(all, "signal", {r}) <=> s.severity[r] # v.severity[r]
  BY <1>4, <1>13
<1>19. v.shown.seen /\ ~s.paused =>
          /\ \A i \in s.unread \ v.unread : Has(all, "access", {i})
          /\ \A i \in s.unread : Tells(all, "access", {i}, 0)
  BY <1>3, <1>15
<1>20. /\ Has(all, "pause", {}) <=> v.shown.seen /\ s.paused # v.shown.paused
       /\ Tells(all, "pause", {}, PauseOf(s.paused))
  BY <1>2, <1>14
<1> QED
  BY ONLY <1>5, <1>6, <1>16, <1>17, <1>18, <1>19, <1>20 DEF SaysChanges

-----------------------------------------------------------------------------
\* Annotating adds at the end and forgets at the front.
LEMMA AnnotatedSays ==
    ASSUME TimelineAssumption, NEW v \in Views, NEW new \in Seq(Notes)
    PROVE  LET w == Annotated(v, new)
           IN /\ w \in Views
              /\ w.shown = v.shown /\ w.severity = v.severity /\ w.unread = v.unread /\ w.error = v.error
              /\ ~w.evicted => ~v.evicted /\ w.marks = v.marks \o new
              /\ \A kind, of : Has(w.marks, kind, of) => Has(v.marks, kind, of) \/ Has(new, kind, of)
              /\ \A kind, of, x : Tells(new, kind, of, x) /\ (Has(new, kind, of) \/ Tells(v.marks, kind, of, x))
                                      => Tells(w.marks, kind, of, x)
<1> DEFINE all == v.marks \o new
           n == Len(all)
           kept == SubSeq(all, n - TimelineLimit + 1, n)
           w == Annotated(v, new)
           marks == IF n > TimelineLimit THEN kept ELSE all
<1>1. v.marks \in Seq(Notes) /\ v.evicted \in BOOLEAN
  BY DEF Views
<1>2. /\ all \in Seq(Notes)
      /\ \A kind, of : Has(all, kind, of) <=> Has(v.marks, kind, of) \/ Has(new, kind, of)
      /\ \A kind, of, x : Tells(new, kind, of, x) /\ (Has(new, kind, of) \/ Tells(v.marks, kind, of, x))
                              => Tells(all, kind, of, x)
  BY <1>1, ConcatTells
<1>3. n \in Nat /\ TimelineLimit \in Nat
  BY <1>2 DEF TimelineAssumption
<1>4. w = [v EXCEPT !.marks = marks, !.evicted = v.evicted \/ n > TimelineLimit]
  BY DEF Annotated
<1> HIDE DEF all
<1>5. n > TimelineLimit =>
          /\ kept \in Seq(Notes)
          /\ \A kind, of : Has(kept, kind, of) => Has(all, kind, of)
          /\ \A kind, of, x : Tells(all, kind, of, x) => Tells(kept, kind, of, x)
  <2> SUFFICES ASSUME n > TimelineLimit
               PROVE  /\ kept \in Seq(Notes)
                      /\ \A kind, of : Has(kept, kind, of) => Has(all, kind, of)
                      /\ \A kind, of, x : Tells(all, kind, of, x) => Tells(kept, kind, of, x)
    OBVIOUS
  <2> DEFINE k == n - TimelineLimit
  <2>1. k \in Nat
    BY <1>3
  <2> HIDE DEF k
  <2>2. LET t == SubSeq(all, k + 1, Len(all))
        IN /\ t \in Seq(Notes)
           /\ \A kind, of : Has(t, kind, of) => Has(all, kind, of)
           /\ \A kind, of, x : Tells(all, kind, of, x) => Tells(t, kind, of, x)
    BY <1>2, <2>1, SuffixTells
  <2> QED
    BY <2>2 DEF k
<1> HIDE DEF n, kept
<1>6. /\ marks \in Seq(Notes)
      /\ \A kind, of : Has(marks, kind, of) => Has(all, kind, of)
      /\ \A kind, of, x : Tells(all, kind, of, x) => Tells(marks, kind, of, x)
      /\ ~(n > TimelineLimit) => marks = all
  BY <1>2, <1>5
<1> HIDE DEF marks, w
<1>7. /\ w \in Views
      /\ w.shown = v.shown /\ w.severity = v.severity /\ w.unread = v.unread /\ w.error = v.error
      /\ w.marks = marks /\ w.evicted = (v.evicted \/ n > TimelineLimit)
  BY <1>4, <1>6 DEF Views
<1>8. ~w.evicted => ~v.evicted /\ w.marks = all
  BY <1>6, <1>7
<1>9. \A kind, of : Has(w.marks, kind, of) => Has(v.marks, kind, of) \/ Has(new, kind, of)
  BY <1>2, <1>6, <1>7
<1>10. \A kind, of, x : Tells(new, kind, of, x) /\ (Has(new, kind, of) \/ Tells(v.marks, kind, of, x))
                            => Tells(w.marks, kind, of, x)
  BY <1>2, <1>6, <1>7
<1> QED
  BY <1>7, <1>8, <1>9, <1>10 DEF w, all

\* A sample is taken in one piece: what it changes is annotated.
LEMMA AcceptedTold ==
    ASSUME TimelineAssumption, NEW v, ViewInv(v), NEW s \in Samples
    PROVE  ViewInv(Accepted(v, s)) /\ Synced(Accepted(v, s), s)
<1>1. v \in Views
  BY DEF ViewInv
<1>2. CASE s.failed
  <2>1. Accepted(v, s) = [v EXCEPT !.error = TRUE]
    BY <1>2 DEF Accepted
  <2>2. /\ Accepted(v, s) \in Views /\ Accepted(v, s).error
        /\ Accepted(v, s).shown = v.shown /\ Accepted(v, s).severity = v.severity
        /\ Accepted(v, s).unread = v.unread /\ Accepted(v, s).marks = v.marks /\ Accepted(v, s).evicted = v.evicted
    BY <1>1, <2>1 DEF Views
  <2> QED
    BY <2>2 DEF ViewInv, SignalsTold, AccessTold, PauseTold, Synced
<1>3. CASE ~s.failed
  <2> DEFINE new == MarkPause(v, s) \o MarkCoverage(v, s) \o MarkWarmup(v, s) \o MarkLifecycle(s) \o MarkSignals(v, s)
             w == Annotated(v, new)
             a == Accepted(v, s)
  <2>0. new = MarkPause(v, s) \o MarkCoverage(v, s) \o MarkWarmup(v, s) \o MarkLifecycle(s) \o MarkSignals(v, s)
    OBVIOUS
  <2>2. a = [w EXCEPT !.shown = [seen |-> TRUE, paused |-> s.paused, warming |-> s.warming],
                      !.unread = IF s.paused THEN w.unread ELSE s.unread,
                      !.severity = IF s.paused THEN w.severity ELSE s.severity,
                      !.error = FALSE]
    BY <1>3 DEF Accepted, Severities
  <2> HIDE DEF new, a
  <2>1. /\ new \in Seq(Notes)
        /\ Has(new, "pause", {}) <=> v.shown.seen /\ s.paused # v.shown.paused
        /\ Tells(new, "pause", {}, PauseOf(s.paused))
        /\ ~v.shown.seen \/ s.paused => \A i : ~Has(new, "access", {i})
        /\ v.shown.seen /\ ~s.paused =>
               /\ \A i \in s.unread \ v.unread : Has(new, "access", {i})
               /\ \A i \in s.unread : Tells(new, "access", {i}, 0)
        /\ s.paused => \A r : ~Has(new, "signal", {r})
        /\ ~s.paused => \A r \in Signalled :
               /\ Tells(new, "signal", {r}, s.severity[r])
               /\ Has(new, "signal", {r}) <=> s.severity[r] # v.severity[r]
    <3>1. SaysChanges(new, v, s)
      BY ONLY TimelineAssumption, <1>1, s \in Samples, <2>0, NewMarks
    <3> QED
      BY <3>1 DEF SaysChanges
  <2>3. /\ w \in Views
        /\ w.shown = v.shown /\ w.severity = v.severity /\ w.unread = v.unread /\ w.error = v.error
        /\ ~w.evicted => ~v.evicted /\ w.marks = v.marks \o new
        /\ \A kind, of : Has(w.marks, kind, of) => Has(v.marks, kind, of) \/ Has(new, kind, of)
        /\ \A kind, of, x : Tells(new, kind, of, x) /\ (Has(new, kind, of) \/ Tells(v.marks, kind, of, x))
                                => Tells(w.marks, kind, of, x)
    BY <1>1, <2>1, AnnotatedSays
  <2> HIDE DEF w
  <2>4. /\ a \in Views /\ a.shown.seen /\ a.shown.paused = s.paused
        /\ a.unread = (IF s.paused THEN v.unread ELSE s.unread)
        /\ a.severity = (IF s.paused THEN v.severity ELSE s.severity)
        /\ a.marks = w.marks /\ a.evicted = w.evicted
    BY <2>2, <2>3 DEF Views, Samples
  <2>5. SignalsTold(a)
    <3> SUFFICES ASSUME NEW r \in Signalled
                 PROVE  /\ Tells(a.marks, "signal", {r}, a.severity[r])
                        /\ a.severity[r] # 0 /\ ~a.evicted => Has(a.marks, "signal", {r})
      BY DEF SignalsTold
    <3>1. /\ Tells(v.marks, "signal", {r}, v.severity[r])
          /\ v.severity[r] # 0 /\ ~v.evicted => Has(v.marks, "signal", {r})
      BY DEF ViewInv, SignalsTold
    <3>2. /\ Tells(new, "signal", {r}, a.severity[r])
          /\ a.severity[r] # v.severity[r] => Has(new, "signal", {r})
      <4>1. CASE s.paused
        BY <2>1, <2>4, <4>1 DEF Has, Tells
      <4>2. CASE ~s.paused
        BY <2>1, <2>4, <4>2
      <4> QED
        BY <4>1, <4>2
    <3>3. Tells(w.marks, "signal", {r}, a.severity[r])
      BY <2>3, <3>1, <3>2
    <3>4. ~w.evicted /\ (Has(v.marks, "signal", {r}) \/ Has(new, "signal", {r})) => Has(w.marks, "signal", {r})
      <4>1. v.marks \in Seq(Notes)
        BY <1>1 DEF Views
      <4>2. Has(v.marks, "signal", {r}) \/ Has(new, "signal", {r}) => Has(v.marks \o new, "signal", {r})
        BY <2>1, <4>1, ConcatTells
      <4> QED
        BY <2>3, <4>2
    <3> QED
      BY <2>3, <2>4, <3>1, <3>2, <3>3, <3>4
  <2>6. AccessTold(a)
    <3> SUFFICES ASSUME NEW i \in a.unread PROVE Tells(a.marks, "access", {i}, 0)
      BY <2>4 DEF AccessTold
    <3>1. i \in Pids
      BY <2>4 DEF Views
    <3>2. i \in v.unread => Tells(v.marks, "access", {i}, 0)
      BY DEF ViewInv, AccessTold
    <3>3. ~v.shown.seen => Tells(v.marks, "access", {i}, 0)
      BY <3>1 DEF ViewInv, AccessTold, Has, Tells
    <3>4. CASE ~v.shown.seen \/ s.paused
      <4>1. Tells(new, "access", {i}, 0)
        BY <2>1, <3>4 DEF Has, Tells
      <4>2. Tells(v.marks, "access", {i}, 0)
        BY <2>4, <3>2, <3>3, <3>4
      <4> QED
        BY <2>3, <2>4, <4>1, <4>2
    <3>5. CASE v.shown.seen /\ ~s.paused
      BY <2>1, <2>3, <2>4, <3>2, <3>5
    <3> QED
      BY <3>4, <3>5
  <2>7. PauseTold(a)
    <3>1. v.shown.seen => Tells(v.marks, "pause", {}, PauseOf(v.shown.paused))
      BY DEF ViewInv, PauseTold
    <3>2. ~v.shown.seen => Tells(v.marks, "pause", {}, PauseOf(s.paused))
      BY DEF ViewInv, PauseTold, Has, Tells
    <3>3. Has(new, "pause", {}) \/ Tells(v.marks, "pause", {}, PauseOf(s.paused))
      BY <2>1, <3>1, <3>2
    <3> QED
      BY <2>1, <2>3, <2>4, <3>3 DEF PauseTold
  <2>8. Synced(a, s)
    BY <2>4 DEF Synced
  <2> QED
    BY <2>4, <2>5, <2>6, <2>7, <2>8 DEF ViewInv, a
<1> QED
  BY <1>2, <1>3

-----------------------------------------------------------------------------
\* f is the recursive function of AllAccepted, as far as m.
Accepts(f, v, list, m) == f[0] = v /\ \A n \in 1..m : f[n] = Accepted(f[n - 1], list[n])

LEMMA AcceptedRuns ==
    ASSUME NEW v, NEW list \in Seq(Samples)
    PROVE  \E f : Accepts(f, v, list, Len(list)) /\ AllAccepted(v, list) = f[Len(list)]
<1> DEFINE L == Len(list)
           S == {m \in Nat : \E g : Accepts(g, v, list, m)}
           Body(f, n) == IF n = 0 THEN v ELSE Accepted(f[n - 1], list[n])
<1>1. 0 \in S
  <2>1. Accepts([n \in 0..0 |-> v], v, list, 0)
    BY DEF Accepts
  <2> QED
    BY <2>1
<1>2. ASSUME NEW m \in Nat, m \in S PROVE m + 1 \in S
  <2>1. PICK g : Accepts(g, v, list, m)
    BY <1>2
  <2> DEFINE h == [n \in 0..m + 1 |-> IF n = m + 1 THEN Body(g, n) ELSE g[n]]
  <2>2. h[0] = v
    BY <2>1 DEF Accepts
  <2>3. \A n \in 1..m + 1 : h[n] = Accepted(h[n - 1], list[n])
    <3> SUFFICES ASSUME NEW n \in 1..m + 1 PROVE h[n] = Accepted(h[n - 1], list[n])
      OBVIOUS
    <3>1. n - 1 \in 0..m /\ h[n - 1] = g[n - 1]
      OBVIOUS
    <3>2. h[n] = IF n = m + 1 THEN Accepted(g[n - 1], list[n]) ELSE g[n]
      OBVIOUS
    <3> HIDE DEF h
    <3> QED
      BY <2>1, <3>1, <3>2 DEF Accepts
  <2> HIDE DEF h
  <2>4. Accepts(h, v, list, m + 1)
    BY <2>2, <2>3 DEF Accepts
  <2> QED
    BY <2>4
<1>3. L \in S
  <2> HIDE DEF S
  <2> QED
    BY <1>1, <1>2, Lists!Climb
<1>4. PICK g : Accepts(g, v, list, L)
  BY <1>3
<1> DEFINE e == [n \in 0..L |-> g[n]]
           f == CHOOSE x : x = [n \in 0..L |-> Body(x, n)]
<1>5. e = [n \in 0..L |-> Body(e, n)]
  <2>1. \A n \in 0..L : e[n] = Body(e, n)
    BY <1>4 DEF Accepts
  <2> QED
    BY <2>1
<1>6. f = [n \in 0..L |-> Body(f, n)]
  <2> HIDE DEF e
  <2> QED
    BY <1>5
<1>7. AllAccepted(v, list) = f[L]
  BY DEF AllAccepted
<1> HIDE DEF f
<1>8. Accepts(f, v, list, L)
  <2>1. \A n \in 0..L : f[n] = Body(f, n)
    BY <1>6
  <2> QED
    BY <2>1 DEF Accepts
<1> QED
  BY <1>7, <1>8

\* A poll takes every sample, so what is shown is the last.
LEMMA PollTold ==
    ASSUME TimelineAssumption, NEW v, ViewInv(v), NEW list \in Seq(Samples), list # <<>>
    PROVE  ViewInv(AllAccepted(v, list)) /\ Synced(AllAccepted(v, list), list[Len(list)])
<1> DEFINE L == Len(list)
<1>1. PICK f : Accepts(f, v, list, L) /\ AllAccepted(v, list) = f[L]
  BY AcceptedRuns
<1> DEFINE S == {m \in Nat : m <= L => ViewInv(f[m])}
<1>2. 0 \in S
  BY <1>1 DEF Accepts
<1>3. ASSUME NEW m \in Nat, m \in S PROVE m + 1 \in S
  <2> SUFFICES ASSUME m + 1 <= L PROVE ViewInv(f[m + 1])
    OBVIOUS
  <2>1. f[m + 1] = Accepted(f[m], list[m + 1]) /\ list[m + 1] \in Samples
    <3>1. m + 1 \in 1..L /\ (m + 1) - 1 = m
      OBVIOUS
    <3>2. f[m + 1] = Accepted(f[(m + 1) - 1], list[m + 1])
      BY <1>1, <3>1 DEF Accepts
    <3> QED
      BY <3>1, <3>2
  <2>2. ViewInv(f[m])
    BY <1>3
  <2> QED
    BY <2>1, <2>2, AcceptedTold
<1>4. L \in Nat /\ L - 1 \in Nat /\ list[L] \in Samples
  OBVIOUS
<1>5. L \in S /\ L - 1 \in S
  <2> HIDE DEF S
  <2> QED
    BY <1>2, <1>3, <1>4, Lists!Climb
<1>6. ViewInv(f[L]) /\ ViewInv(f[L - 1])
  <2>1. L <= L /\ L - 1 <= L
    BY <1>4
  <2> QED
    BY <1>5, <2>1
<1>7. f[L] = Accepted(f[L - 1], list[L])
  BY <1>1, <1>4 DEF Accepts
<1> QED
  BY <1>1, <1>4, <1>6, <1>7, AcceptedTold

\* Whatever changes, what is published is a sample.
LEMMA ChangesTyped == ASSUME now \in Samples, Changes PROVE now' \in Samples
<1>2. CASE now' = [now EXCEPT !.failed = ~now.failed, !.events = {}]
  BY <1>2 DEF Samples
<1>3. CASE now' = [now EXCEPT !.failed = FALSE, !.warming = FALSE, !.paused = ~now.paused, !.events = {}]
  BY <1>3 DEF Samples
<1>4. CASE \E r \in Signalled, s \in Levels :
               now' = [now EXCEPT !.failed = FALSE, !.warming = FALSE, !.severity[r] = s, !.events = {}]
  <2> PICK r \in Signalled, s \in Levels :
               now' = [now EXCEPT !.failed = FALSE, !.warming = FALSE, !.severity[r] = s, !.events = {}]
    BY <1>4
  <2> DEFINE q == [now.severity EXCEPT ![r] = s]
  <2>1. q \in [Signalled -> Levels]
    BY DEF Samples
  <2>2. now' = [now EXCEPT !.failed = FALSE, !.warming = FALSE, !.severity = q, !.events = {}]
    BY DEF Samples
  <2> HIDE DEF q
  <2> QED
    BY <2>1, <2>2 DEF Samples
<1>5. CASE \E p \in SUBSET Pids : now' = [now EXCEPT !.failed = FALSE, !.unread = p \cap now.present, !.events = {}]
  BY <1>5 DEF Samples
<1>6. CASE \E p \in SUBSET Pids :
               now' = [now EXCEPT !.failed = FALSE, !.present = p, !.unread = now.unread \cap p,
                               !.events = {[pid |-> i, kind |-> "exited"] : i \in now.present \ p}
                                          \cup {[pid |-> i, kind |-> "started"] : i \in p \ now.present}]
  <2> PICK p \in SUBSET Pids :
               now' = [now EXCEPT !.failed = FALSE, !.present = p, !.unread = now.unread \cap p,
                               !.events = {[pid |-> i, kind |-> "exited"] : i \in now.present \ p}
                                          \cup {[pid |-> i, kind |-> "started"] : i \in p \ now.present}]
    BY <1>6
  <2> DEFINE E == {[pid |-> i, kind |-> "exited"] : i \in now.present \ p}
                  \cup {[pid |-> i, kind |-> "started"] : i \in p \ now.present}
             U == now.unread \cap p
  <2>0. U \in SUBSET Pids
    BY DEF Samples
  <2>1. E \in SUBSET Lifecycle
    <3>1. now.present \subseteq Pids
      BY DEF Samples
    <3> QED
      BY <3>1 DEF Lifecycle
  <2>2. now' = [now EXCEPT !.failed = FALSE, !.present = p, !.unread = U, !.events = E]
    OBVIOUS
  <2> HIDE DEF E, U
  <2> QED
    BY ONLY <2>0, <2>1, <2>2, now \in Samples, p \in SUBSET Pids DEF Samples
<1> QED
  BY <1>2, <1>3, <1>4, <1>5, <1>6 DEF Changes

LEMMA PublishKeeps == ASSUME TimelineAssumption, TimelineInv, PublishSample PROVE TimelineInv'
<1> DEFINE all == Append(stream, now')
<1>1. now' \in Samples
  BY ChangesTyped DEF PublishSample, TimelineInv
<1>2. stream' = (IF Len(all) > StreamLimit THEN Tail(all) ELSE all) /\ StreamLimit > 0 /\ StreamLimit \in Nat
  BY DEF PublishSample, TimelineAssumption
<1>3. stream \in Seq(Samples)
  BY DEF TimelineInv
<1>4. /\ all \in Seq(Samples) /\ all # <<>> /\ Len(all) = Len(stream) + 1 /\ all[Len(all)] = now'
  BY <1>1, <1>3
<1> HIDE DEF all
<1>5. Len(all) > StreamLimit => /\ Tail(all) \in Seq(Samples)
                                /\ Len(Tail(all)) = Len(all) - 1
                                /\ Len(Tail(all)) > 0
                                /\ Tail(all)[Len(Tail(all))] = all[Len(all)]
  <2> SUFFICES ASSUME Len(all) > StreamLimit
               PROVE  /\ Tail(all) \in Seq(Samples)
                      /\ Len(Tail(all)) = Len(all) - 1
                      /\ Len(Tail(all)) > 0
                      /\ Tail(all)[Len(Tail(all))] = all[Len(all)]
    OBVIOUS
  <2>1. Len(all) \in Nat /\ Len(all) > 1
    BY <1>2, <1>4
  <2>2. /\ Tail(all) \in Seq(Samples) /\ Len(Tail(all)) = Len(all) - 1
        /\ \A i \in 1..Len(Tail(all)) : Tail(all)[i] = all[i + 1]
    BY <1>4, HeadTailProperties
  <2>3. Len(Tail(all)) \in 1..Len(Tail(all)) /\ Len(Tail(all)) + 1 = Len(all)
    BY <2>1, <2>2
  <2> QED
    BY <2>1, <2>2, <2>3
<1>6. stream' \in Seq(Samples) /\ stream' # <<>> /\ stream'[Len(stream')] = now'
  <2>1. CASE Len(all) > StreamLimit
    <3> DEFINE t == Tail(all)
    <3>1. stream' = t
      BY <1>2, <2>1
    <3>2. t \in Seq(Samples) /\ Len(t) > 0 /\ t[Len(t)] = now'
      BY <1>4, <1>5, <2>1
    <3> HIDE DEF t
    <3> QED
      BY ONLY <3>1, <3>2
  <2>2. CASE ~(Len(all) > StreamLimit)
    BY <1>2, <1>4, <2>2
  <2> QED
    BY <2>1, <2>2
<1>7. samples' \in Nat /\ UNCHANGED <<view, markers>>
  BY DEF PublishSample, TimelineInv
<1> QED
  BY <1>1, <1>6, <1>7 DEF TimelineInv

LEMMA PollKeeps == ASSUME TimelineAssumption, TimelineInv, Poll PROVE TimelineInv'
<1>1. stream # <<>> /\ stream' = <<>> /\ view' = AllAccepted(view, stream) /\ UNCHANGED <<now, samples, markers>>
  BY DEF Poll
<1>2. ViewInv(view) /\ stream \in Seq(Samples) /\ stream[Len(stream)] = now
  BY <1>1 DEF TimelineInv
<1>3. ViewInv(view') /\ Synced(view', now')
  BY <1>1, <1>2, PollTold
<1>4. stream' \in Seq(Samples)
  BY <1>1
<1> QED
  BY <1>1, <1>3, <1>4 DEF TimelineInv

LEMMA MarkerKeeps == ASSUME TimelineAssumption, TimelineInv, AddMarker PROVE TimelineInv'
<1> DEFINE m == Mark("marker", {}, Len(markers) + 1)
<1>1. /\ view' = Annotated(view, <<m>>) /\ UNCHANGED <<now, samples, stream>>
      /\ markers' = Append(markers, Len(markers) + 1)
  BY DEF AddMarker
<1>2. view \in Views /\ ViewInv(view) /\ Len(markers) + 1 \in Nat /\ markers' \in Seq(Nat)
  BY <1>1 DEF TimelineInv, ViewInv
<1>3. m \in Notes
  <2>1. "marker" \in NoteKinds /\ {} \in SUBSET (Signalled \cup Pids)
    BY DEF NoteKinds
  <2> QED
    BY <1>2, <2>1, MarkIsNote
<1>4. m.kind = "marker"
  BY DEF Mark
<1> HIDE DEF m
<1>5. <<m>> \in Seq(Notes) /\ \A kind, of : kind # "marker" => ~Has(<<m>>, kind, of)
  BY <1>3, <1>4, OneMark DEF About
<1>6. \A kind, of, x : kind # "marker" => Tells(<<m>>, kind, of, x)
  BY <1>5 DEF Has, Tells
<1> DEFINE new == <<m>>
<1>7. view' = Annotated(view, new) /\ new \in Seq(Notes)
  BY <1>1, <1>5
<1>8. \A kind, of : kind # "marker" => ~Has(new, kind, of) /\ \A x : Tells(new, kind, of, x)
  BY <1>5, <1>6
<1> HIDE DEF new
<1>9. /\ view' \in Views
      /\ view'.shown = view.shown /\ view'.severity = view.severity /\ view'.unread = view.unread
      /\ view'.error = view.error
      /\ ~view'.evicted => ~view.evicted /\ view'.marks = view.marks \o new
      /\ \A kind, of : Has(view'.marks, kind, of) => Has(view.marks, kind, of) \/ Has(new, kind, of)
      /\ \A kind, of, x : Tells(new, kind, of, x) /\ (Has(new, kind, of) \/ Tells(view.marks, kind, of, x))
                              => Tells(view'.marks, kind, of, x)
  BY <1>2, <1>7, AnnotatedSays
<1>10. \A kind, of : kind # "marker" =>
           /\ Has(view'.marks, kind, of) => Has(view.marks, kind, of)
           /\ ~view'.evicted /\ Has(view.marks, kind, of) => Has(view'.marks, kind, of)
           /\ \A x : Tells(view.marks, kind, of, x) => Tells(view'.marks, kind, of, x)
  <2>1. view.marks \in Seq(Notes)
    BY <1>2 DEF Views
  <2>2. \A kind, of : Has(view.marks, kind, of) => Has(view.marks \o new, kind, of)
    BY <1>7, <2>1, ConcatTells
  <2> QED
    BY <1>8, <1>9, <2>2
<1>11. SignalsTold(view')
  BY <1>2, <1>9, <1>10 DEF ViewInv, SignalsTold
<1>12. AccessTold(view')
  BY <1>2, <1>9, <1>10 DEF ViewInv, AccessTold
<1>13. PauseTold(view')
  BY <1>2, <1>9, <1>10 DEF ViewInv, PauseTold
<1>14. Synced(view, now) => Synced(view', now)
  BY <1>9 DEF Synced
<1>15. ViewInv(view')
  BY <1>9, <1>11, <1>12, <1>13 DEF ViewInv
<1> QED
  BY <1>1, <1>2, <1>14, <1>15 DEF TimelineInv

\* The truth of what is annotated and shown follows.
LEMMA CurrentFollows == ASSUME TimelineInv PROVE TimelineIsCurrent
<1>1. view \in Views /\ view.marks \in Seq(Notes) /\ ViewInv(view) /\ now \in Samples
  BY DEF TimelineInv, ViewInv, Views
<1>2. \A kind, of : LastOf(kind, of) = 0 <=> ~Has(view.marks, kind, of)
  BY <1>1, LastPlace
<1>3. \A kind, of, x : Tells(view.marks, kind, of, x) /\ LastOf(kind, of) # 0 => Says(kind, of, 0) = x
  BY <1>1, LastPlace
<1>4. \A kind, of : LastOf(kind, of) = 0 => Says(kind, of, 0) = 0
  BY DEF Says
<1>5. \A r \in Signalled : Says("signal", {r}, 0) = view.severity[r] \/ Silent("signal", {r})
  BY <1>1, <1>2, <1>3, <1>4 DEF ViewInv, SignalsTold, Silent, Views
<1>6. \A i \in view.unread : Says("access", {i}, 0) = 0
  BY <1>1, <1>3, <1>4 DEF ViewInv, AccessTold
<1>7. stream = <<>> /\ ~view.error /\ view.shown.seen =>
          /\ view.shown.paused = now.paused
          /\ ~now.paused => view.severity = now.severity /\ view.unread = now.unread
  BY DEF TimelineInv, Synced
<1>8. view.shown.seen /\ LastOf("pause", {}) # 0 => Says("pause", {}, 0) = PauseOf(view.shown.paused)
  BY <1>1, <1>3 DEF ViewInv, PauseTold
<1>9. (PauseOf(now.paused) = 1) = now.paused
  BY <1>1 DEF PauseOf, Samples
<1> QED
  BY <1>5, <1>6, <1>7, <1>8, <1>9 DEF TimelineIsCurrent

(* The timeline tells the truth about now, whatever the stream dropped,    *)
(* samples failed, or the timeline evicted (_accept_snapshot).             *)
THEOREM TimelineTrue == TimelineSpec => []TimelineIsCurrent
<1>1. TimelineInit => TimelineInv
  <2> SUFFICES ASSUME TimelineInit PROVE TimelineInv
    OBVIOUS
  <2>1. now \in Samples /\ samples \in Nat /\ stream \in Seq(Samples) /\ markers \in Seq(Nat) /\ stream = <<>>
    BY TimelineAssumption DEF TimelineInit, Samples, TimelineAssumption
  <2> DEFINE zero == [r \in Signalled |-> 0]
  <2>5. zero \in [Signalled -> Levels] /\ \A r \in Signalled : zero[r] = 0
    BY TimelineAssumption DEF TimelineAssumption
  <2>6. view = [shown |-> [seen |-> FALSE, paused |-> FALSE, warming |-> FALSE], severity |-> zero, unread |-> {},
                error |-> FALSE, marks |-> <<>>, evicted |-> FALSE]
    BY DEF TimelineInit, Unseen
  <2> HIDE DEF zero
  <2>2. /\ view \in Views /\ view.severity = zero /\ view.unread = {} /\ view.marks = <<>>
        /\ view.shown.seen = FALSE
    <3>1. <<>> \in Seq(Notes)
      OBVIOUS
    <3>2. {} \in SUBSET Pids
      OBVIOUS
    <3>3. [seen |-> FALSE, paused |-> FALSE, warming |-> FALSE] \in [seen : BOOLEAN, paused : BOOLEAN, warming : BOOLEAN]
      OBVIOUS
    <3>4. view \in Views
      BY ONLY <2>5, <2>6, <3>1, <3>2, <3>3 DEF Views
    <3> QED
      BY <2>6, <3>4
  <2>3. ViewInv(view)
    <3>1. \A kind, of : ~Has(view.marks, kind, of) /\ \A x : Tells(view.marks, kind, of, x)
      BY <2>2, NoMark
    <3>2. \A r \in Signalled : view.severity[r] = 0
      BY <2>2, <2>5
    <3>3. SignalsTold(view)
      BY <3>1, <3>2 DEF SignalsTold
    <3>4. AccessTold(view) /\ PauseTold(view)
      BY <2>2, <3>1 DEF AccessTold, PauseTold
    <3> QED
      BY <2>2, <3>3, <3>4 DEF ViewInv
  <2>4. Synced(view, now)
    BY <2>2 DEF Synced
  <2> QED
    BY <2>1, <2>3, <2>4 DEF TimelineInv
<1>2. TimelineInv /\ [TimelineNext]_timelineVars => TimelineInv'
  <2>1. ASSUME TimelineInv, UNCHANGED timelineVars PROVE TimelineInv'
    BY <2>1 DEF timelineVars, TimelineInv
  <2> QED
    BY <2>1, PublishKeeps, PollKeeps, MarkerKeeps, TimelineAssumption DEF TimelineNext
<1>3. TimelineInv => TimelineIsCurrent
  BY CurrentFollows
<1> QED
  BY <1>1, <1>2, <1>3, PTL DEF TimelineSpec

(***************************************************************************)
(* The shared report                                                       *)
(***************************************************************************)

\* Two lists whose elements are related one by one.
Related(R, s, t) == Len(s) = Len(t) /\ \A i \in 1..Len(s) : <<s[i], t[i]>> \in R

\* f is the recursive function of Joined, as far as m.
Then(s, t) == s \o t
Joins(f, parts, m) == f[0] = <<>> /\ \A n \in 1..m : f[n] = Then(f[n - 1], parts[n])

LEMMA JoinedRuns ==
    ASSUME NEW X, NEW parts \in Seq(X)
    PROVE  \E f : Joins(f, parts, Len(parts)) /\ Joined(parts) = f[Len(parts)]
<1> DEFINE L == Len(parts)
           S == {m \in Nat : \E g : Joins(g, parts, m)}
           Body(f, n) == IF n = 0 THEN <<>> ELSE Then(f[n - 1], parts[n])
<1>1. 0 \in S
  <2>1. Joins([n \in 0..0 |-> <<>>], parts, 0)
    BY DEF Joins
  <2> QED
    BY <2>1
<1>2. ASSUME NEW m \in Nat, m \in S PROVE m + 1 \in S
  <2>1. PICK g : Joins(g, parts, m)
    BY <1>2
  <2> DEFINE h == [n \in 0..m + 1 |-> IF n = m + 1 THEN Body(g, n) ELSE g[n]]
  <2>2. h[0] = <<>>
    BY <2>1 DEF Joins
  <2>3. \A n \in 1..m + 1 : h[n] = Then(h[n - 1], parts[n])
    <3> SUFFICES ASSUME NEW n \in 1..m + 1 PROVE h[n] = Then(h[n - 1], parts[n])
      OBVIOUS
    <3>1. n - 1 \in 0..m /\ h[n - 1] = g[n - 1]
      OBVIOUS
    <3>2. h[n] = IF n = m + 1 THEN Then(g[n - 1], parts[n]) ELSE g[n]
      OBVIOUS
    <3> HIDE DEF h
    <3> QED
      BY <2>1, <3>1, <3>2 DEF Joins
  <2> HIDE DEF h
  <2>4. Joins(h, parts, m + 1)
    BY <2>2, <2>3 DEF Joins
  <2> QED
    BY <2>4
<1>3. L \in S
  <2> HIDE DEF S
  <2> QED
    BY <1>1, <1>2, Lists!Climb
<1>4. PICK g : Joins(g, parts, L)
  BY <1>3
<1> DEFINE e == [n \in 0..L |-> g[n]]
           f == CHOOSE x : x = [n \in 0..L |-> Body(x, n)]
<1>5. e = [n \in 0..L |-> Body(e, n)]
  <2>1. \A n \in 0..L : e[n] = Body(e, n)
    BY <1>4 DEF Joins
  <2> QED
    BY <2>1
<1>6. f = [n \in 0..L |-> Body(f, n)]
  <2> HIDE DEF e
  <2> QED
    BY <1>5
<1>7. Joined(parts) = f[L]
  BY DEF Joined, Then
<1> HIDE DEF f
<1>8. Joins(f, parts, L)
  <2>1. \A n \in 0..L : f[n] = Body(f, n)
    BY <1>6
  <2> QED
    BY <2>1 DEF Joins
<1> QED
  BY <1>7, <1>8

\* What is joined to related lists, if it is related, leaves them related.
LEMMA RelatedConcat ==
    ASSUME NEW R, NEW X, NEW Y, NEW s \in Seq(X), NEW t \in Seq(Y), NEW u \in Seq(X), NEW v \in Seq(Y),
           Related(R, s, t), Related(R, u, v)
    PROVE  s \o u \in Seq(X) /\ t \o v \in Seq(Y) /\ Related(R, s \o u, t \o v)
<1> DEFINE m == Len(s)
           n == Len(u)
<1>1. m \in Nat /\ n \in Nat /\ Len(t) = m /\ Len(v) = n
  BY DEF Related
<1>2. /\ s \o u \in Seq(X) /\ Len(s \o u) = m + n
      /\ \A i \in 1..(m + n) : (s \o u)[i] = IF i <= m THEN s[i] ELSE u[i - m]
  OBVIOUS
<1>3. /\ t \o v \in Seq(Y) /\ Len(t \o v) = m + n
      /\ \A i \in 1..(m + n) : (t \o v)[i] = IF i <= m THEN t[i] ELSE v[i - m]
  BY <1>1
<1>4. (\A i \in 1..m : <<s[i], t[i]>> \in R) /\ (\A i \in 1..n : <<u[i], v[i]>> \in R)
  BY DEF Related
<1> DEFINE a == s \o u
           b == t \o v
<1> HIDE DEF m, n, a, b
<1>5. ASSUME NEW i \in 1..(m + n) PROVE <<a[i], b[i]>> \in R
  <2>1. (i \in 1..m /\ i <= m) \/ (i - m \in 1..n /\ ~(i <= m))
    BY <1>1
  <2>2. a[i] = (IF i <= m THEN s[i] ELSE u[i - m]) /\ b[i] = IF i <= m THEN t[i] ELSE v[i - m]
    BY <1>2, <1>3 DEF a, b
  <2> QED
    BY <1>4, <2>1, <2>2
<1> QED
  BY <1>2, <1>3, <1>5 DEF Related, a, b

\* Lists of related lists make related lists.
LEMMA RelatedJoined ==
    ASSUME NEW R, NEW X, NEW Y, NEW s \in Seq(Seq(X)), NEW t \in Seq(Seq(Y)),
           Len(s) = Len(t), \A i \in 1..Len(s) : Related(R, s[i], t[i])
    PROVE  Joined(s) \in Seq(X) /\ Joined(t) \in Seq(Y) /\ Related(R, Joined(s), Joined(t))
<1>1. PICK f : Joins(f, s, Len(s)) /\ Joined(s) = f[Len(s)]
  BY JoinedRuns
<1>2. PICK g : Joins(g, t, Len(t)) /\ Joined(t) = g[Len(t)]
  BY JoinedRuns
<1> DEFINE L == Len(s)
           P(n) == f[n] \in Seq(X) /\ g[n] \in Seq(Y) /\ Related(R, f[n], g[n])
           S == {n \in Nat : n <= L => P(n)}
<1>3. L \in Nat /\ Len(t) = L
  OBVIOUS
<1>4. 0 \in S
  <2>1. f[0] = <<>> /\ g[0] = <<>>
    BY <1>1, <1>2 DEF Joins
  <2>2. <<>> \in Seq(X) /\ <<>> \in Seq(Y) /\ Related(R, <<>>, <<>>)
    BY DEF Related
  <2> QED
    BY <2>1, <2>2
<1>5. ASSUME NEW n \in Nat, n \in S PROVE n + 1 \in S
  <2> SUFFICES ASSUME n + 1 <= L PROVE P(n + 1)
    OBVIOUS
  <2>1. P(n) /\ n + 1 \in 1..L /\ (n + 1) - 1 = n
    BY <1>5
  <2>2. f[n + 1] = f[n] \o s[n + 1] /\ g[n + 1] = g[n] \o t[n + 1]
    BY <1>1, <1>2, <1>3, <2>1 DEF Joins, Then
  <2>3. s[n + 1] \in Seq(X) /\ t[n + 1] \in Seq(Y) /\ Related(R, s[n + 1], t[n + 1])
    BY <1>3, <2>1
  <2> QED
    BY <2>1, <2>2, <2>3, RelatedConcat
<1>6. L \in S
  <2> HIDE DEF S
  <2> QED
    BY <1>3, <1>4, <1>5, Lists!Climb
<1> QED
  BY <1>1, <1>2, <1>3, <1>6

-----------------------------------------------------------------------------
\* There is a first place of a value in a list that has it.
LEMMA FirstPlace ==
    ASSUME NEW X, NEW s \in Seq(X), NEW i \in 1..Len(s)
    PROVE  \E p \in 1..Len(s) : s[p] = s[i] /\ \A q \in 1..(p - 1) : s[q] # s[i]
<1> DEFINE n == Len(s)
           I == {k \in 1..n : s[k] = s[i]}
           v == [k \in 1..n |-> k]
<1>1. Least(I) \in I /\ \A x \in I : Least(I) <= x
  <2>1. n \in Nat /\ I # {} /\ \A k \in 1..n : v[k] \in Int
    OBVIOUS
  <2>2. \A x \in I : \E k \in 1..n : x = v[k]
    OBVIOUS
  <2> HIDE DEF v, I, n
  <2> QED
    BY <2>1, <2>2, Ends
<1> QED
  BY <1>1

\* The values among which a number is public are finitely many.
Earlier(x, s) == {s[i] : i \in {k \in DOMAIN s : \A j \in 1..(k - 1) : s[j] # x}}

LEMMA EarlierFinite ==
    ASSUME NEW X, NEW s \in Seq(X), NEW x
    PROVE  IsFiniteSet(Earlier(x, s)) /\ Earlier(x, s) \subseteq X /\ Number(x, s) = Cardinality(Earlier(x, s))
<1> DEFINE S == Earlier(x, s)
<1>1. \A m \in S : \E k \in 1..Len(s) : m = s[k]
  BY DEF Earlier
<1>2. IsFiniteSet(1..Len(s))
  BY FS_Interval
<1>3. S \subseteq X
  BY DEF Earlier
<1>4. Number(x, s) = Cardinality(S)
  BY DEF Number, Earlier
<1> HIDE DEF S
<1>5. IsFiniteSet(S)
  BY <1>1, <1>2, ImageFinite
<1> QED
  BY <1>3, <1>4, <1>5 DEF S

\* Numbers do not change if all values are renamed, each to one of its own.
LEMMA NumberRenamed ==
    ASSUME NEW X, NEW Y, NEW s \in Seq(X), NEW t \in Seq(Y), Len(t) = Len(s), NEW f,
           \A x, y \in X : f[x] = f[y] => x = y,
           \A i \in 1..Len(s) : t[i] = f[s[i]], NEW x \in X
    PROVE  Number(f[x], t) = Number(x, s)
<1> DEFINE A == Earlier(x, s)
           B == Earlier(f[x], t)
           g == [a \in A |-> f[a]]
<1>1. IsFiniteSet(A) /\ A \subseteq X /\ Number(x, s) = Cardinality(A) /\ Number(f[x], t) = Cardinality(B)
  BY EarlierFinite
<1>2. DOMAIN s = 1..Len(s) /\ DOMAIN t = 1..Len(s) /\ Len(s) \in Nat /\ \A i \in 1..Len(s) : s[i] \in X
  OBVIOUS
<1>3. \A k \in 1..Len(s) : (\A j \in 1..(k - 1) : s[j] # x) <=> (\A j \in 1..(k - 1) : t[j] # f[x])
  BY <1>2
<1>4. ASSUME NEW a \in A PROVE f[a] \in B
  <2>1. PICK k \in 1..Len(s) : a = s[k] /\ \A j \in 1..(k - 1) : s[j] # x
    BY <1>2 DEF Earlier
  <2>2. t[k] = f[a] /\ \A j \in 1..(k - 1) : t[j] # f[x]
    BY <1>3, <2>1
  <2> QED
    BY <1>2, <2>2 DEF Earlier
<1>5. ASSUME NEW b \in B PROVE \E a \in A : f[a] = b
  <2>1. PICK k \in 1..Len(s) : b = t[k] /\ \A j \in 1..(k - 1) : t[j] # f[x]
    BY <1>2 DEF Earlier
  <2>2. f[s[k]] = b /\ \A j \in 1..(k - 1) : s[j] # x
    BY <1>3, <2>1
  <2>3. s[k] \in A
    BY <1>2, <2>2 DEF Earlier
  <2> QED
    BY <2>2, <2>3
<1> HIDE DEF A, B
<1>6. g \in Bijection(A, B)
  <2>1. g \in [A -> B]
    BY <1>4
  <2>2. \A a, c \in A : g[a] = g[c] => a = c
    BY <1>1
  <2>3. \A b \in B : \E a \in A : g[a] = b
    BY <1>5
  <2> HIDE DEF g
  <2> QED
    BY <2>1, <2>2, <2>3 DEF Bijection, Injection, IsInjective, Surjection
<1>7. ExistsBijection(A, B)
  BY <1>6 DEF ExistsBijection
<1> HIDE DEF g
<1>8. Cardinality(B) = Cardinality(A)
  BY <1>1, <1>7, FS_Bijection
<1> QED
  BY <1>1, <1>8

\* Two values of a list have the same number only if they are the same.
LEMMA LaterNumber ==
    ASSUME NEW X, NEW s \in Seq(X), NEW p \in 1..Len(s), NEW q \in 1..Len(s), p < q,
           \A k \in 1..(p - 1) : s[k] # s[p], \A k \in 1..(q - 1) : s[k] # s[q]
    PROVE  Number(s[p], s) # Number(s[q], s)
<1> DEFINE A == Earlier(s[p], s)
           B == Earlier(s[q], s)
<1>1. IsFiniteSet(B) /\ Number(s[p], s) = Cardinality(A) /\ Number(s[q], s) = Cardinality(B)
  BY EarlierFinite
<1>2. DOMAIN s = 1..Len(s) /\ Len(s) \in Nat
  OBVIOUS
<1>3. ASSUME NEW a \in A PROVE \E k \in 1..p : a = s[k]
  <2>1. PICK k \in 1..Len(s) : a = s[k] /\ \A j \in 1..(k - 1) : s[j] # s[p]
    BY <1>2 DEF Earlier
  <2>2. ~(p \in 1..(k - 1))
    BY <2>1
  <2>3. k \in 1..p
    BY <1>2, <2>2
  <2> QED
    BY <2>1, <2>3
<1>4. A \subseteq B
  <2> SUFFICES ASSUME NEW a \in A PROVE a \in B
    OBVIOUS
  <2>1. PICK k \in 1..p : a = s[k]
    BY <1>3
  <2>2. k \in 1..Len(s) /\ \A j \in 1..(k - 1) : s[j] # s[q]
    BY <1>2
  <2> QED
    BY <1>2, <2>1, <2>2 DEF Earlier
<1>5. s[q] \in B
  BY <1>2 DEF Earlier
<1>6. s[q] \notin A
  <2> SUFFICES ASSUME s[q] \in A PROVE FALSE
    OBVIOUS
  <2>1. PICK k \in 1..p : s[q] = s[k]
    BY <1>3
  <2>2. k \in 1..(q - 1)
    BY <1>2
  <2> QED
    BY <2>1, <2>2
<1> HIDE DEF A, B
<1>7. Cardinality(A) # Cardinality(B)
  BY <1>1, <1>4, <1>5, <1>6, FS_Subset
<1> QED
  BY <1>1, <1>7

LEMMA NumberTells ==
    ASSUME NEW X, NEW s \in Seq(X), NEW i \in 1..Len(s), NEW j \in 1..Len(s)
    PROVE  Number(s[i], s) = Number(s[j], s) <=> s[i] = s[j]
<1>1. PICK p \in 1..Len(s) : s[p] = s[i] /\ \A q \in 1..(p - 1) : s[q] # s[i]
  BY FirstPlace
<1>2. PICK q \in 1..Len(s) : s[q] = s[j] /\ \A k \in 1..(q - 1) : s[k] # s[j]
  BY FirstPlace
<1>3. CASE p = q
  BY <1>1, <1>2, <1>3
<1>4. CASE p < q
  <2>1. Number(s[p], s) # Number(s[q], s)
    BY <1>1, <1>2, <1>4, LaterNumber
  <2> QED
    BY <1>1, <1>2, <2>1
<1>5. CASE q < p
  <2>1. Number(s[q], s) # Number(s[p], s)
    BY <1>1, <1>2, <1>5, LaterNumber
  <2> QED
    BY <1>1, <1>2, <2>1
<1> QED
  BY <1>3, <1>4, <1>5

-----------------------------------------------------------------------------
\* The times of a list have a least, if there are any; so have those of two.
LEMMA TimesEnd ==
    ASSUME NEW n \in Nat, NEW v, \A i \in 1..n : v[i] \in Int,
           NEW T, \A x \in T : \E i \in 1..n : x = v[i]
    PROVE  T \subseteq Int /\ (T = {} \/ Ended(T))
<1>1. T \subseteq Int
  OBVIOUS
<1>2. CASE T # {}
  <2>1. /\ Least(T) \in T /\ \A x \in T : Least(T) <= x
        /\ Greatest(T) \in T /\ \A x \in T : Greatest(T) >= x
    BY <1>2, Ends
  <2> QED
    BY <1>1, <2>1 DEF Ended
<1> QED
  BY <1>1, <1>2

LEMMA TwoEnd ==
    ASSUME NEW T, NEW U, T \subseteq Int /\ (T = {} \/ Ended(T)), U \subseteq Int /\ (U = {} \/ Ended(U))
    PROVE  T \cup U \subseteq Int /\ (T \cup U = {} \/ Ended(T \cup U))
<1>1. CASE T = {} \/ U = {}
  <2>1. T \cup U = U \/ T \cup U = T
    BY <1>1
  <2> QED
    BY <2>1
<1>2. CASE T # {} /\ U # {}
  <2>1. PICK a \in T, b \in T : \A x \in T : a <= x /\ b >= x
    BY <1>2 DEF Ended
  <2>2. PICK c \in U, d \in U : \A x \in U : c <= x /\ d >= x
    BY <1>2 DEF Ended
  <2>3. /\ \A x \in T \cup U : (IF a <= c THEN a ELSE c) <= x
        /\ \A x \in T \cup U : (IF b >= d THEN b ELSE d) >= x
    BY <2>1, <2>2
  <2>4. (IF a <= c THEN a ELSE c) \in T \cup U /\ (IF b >= d THEN b ELSE d) \in T \cup U
    OBVIOUS
  <2>5. Ended(T \cup U)
    BY <2>3, <2>4 DEF Ended
  <2> QED
    BY <2>5
<1> QED
  BY <1>1, <1>2

Samplings == [timestamp : Int, totals : Nat, processes : Seq(ProcessRows)]
Events == [timestamp : Int, message : Texts]
Labels == [timestamp : Int, label : Texts]

\* The fields of a report that is measured.
LEMMA ReportFields ==
    ASSUME NEW r \in MeasuredReports
    PROVE  /\ r.snapshots \in Seq(Samplings) /\ r.event_log \in Seq(Events)
           /\ r.markers \in Seq(Labels) /\ r.exited \in Seq(ProcessRows)
  BY DEF MeasuredReports, Samplings, Events, Labels

Times(list) == {list[i].timestamp : i \in DOMAIN list}

LEMMA ListEnds ==
    ASSUME NEW X, NEW list \in Seq(X), \A x \in X : x.timestamp \in Int
    PROVE  Times(list) \subseteq Int /\ (Times(list) = {} \/ Ended(Times(list)))
<1> DEFINE n == Len(list)
           v == [i \in 1..n |-> list[i].timestamp]
           T == Times(list)
<1>1. n \in Nat /\ DOMAIN list = 1..n /\ \A i \in 1..n : list[i] \in X
  OBVIOUS
<1>2. (\A i \in 1..n : v[i] \in Int) /\ \A x \in T : \E i \in 1..n : x = v[i]
  BY <1>1 DEF Times
<1> HIDE DEF n, v, T
<1>3. T \subseteq Int /\ (T = {} \/ Ended(T))
  BY ONLY <1>1, <1>2, TimesEnd
<1> QED
  BY <1>3 DEF T

\* So there is an earliest time of a report.
LEMMA StampsEnd ==
    ASSUME NEW r \in MeasuredReports
    PROVE  Stamps(r) \subseteq Int /\ (Stamps(r) # {} => Min(Stamps(r)) \in Stamps(r)
                                       /\ \A x \in Stamps(r) : Min(Stamps(r)) <= x)
<1> DEFINE A == Times(r.snapshots)
           B == Times(r.event_log)
           C == Times(r.markers)
           T == Stamps(r)
<1>1. A \subseteq Int /\ (A = {} \/ Ended(A))
  <2>1. \A x \in Samplings : x.timestamp \in Int
    BY DEF Samplings
  <2> QED
    BY <2>1, ReportFields, ListEnds
<1>2. B \subseteq Int /\ (B = {} \/ Ended(B))
  <2>1. \A x \in Events : x.timestamp \in Int
    BY DEF Events
  <2> QED
    BY <2>1, ReportFields, ListEnds
<1>3. C \subseteq Int /\ (C = {} \/ Ended(C))
  <2>1. \A x \in Labels : x.timestamp \in Int
    BY DEF Labels
  <2> QED
    BY <2>1, ReportFields, ListEnds
<1>4. T = A \cup B \cup C
  BY DEF Stamps, Times
<1>5. T \subseteq Int /\ (T = {} \/ Ended(T))
  <2> HIDE DEF A, B, C, T
  <2> QED
    BY <1>1, <1>2, <1>3, <1>4, TwoEnd
<1> QED
  BY <1>5 DEF Ended, Min

-----------------------------------------------------------------------------
\* f gives every element of A another one, or itself, and none to two.
Renames(f, A) == f \in [A -> A] /\ \A x, y \in A : f[x] = f[y] => x = y

\* The rows of a process and of the same process on a machine with other
\* PIDs, other times and other texts.
RowsAs(f, g) ==
    {p \in ProcessRows \X ProcessRows :
        /\ p[2].pid = f[p[1].pid] /\ p[2].ppid = f[p[1].ppid] /\ p[2].create_time = g[p[1].create_time]
        /\ p[2].private_bytes = p[1].private_bytes /\ Enum(p[2].status, States) = Enum(p[1].status, States)}

LaterBy(d, a, b) == Len(b) = Len(a) /\ \A i \in 1..Len(a) : b[i].timestamp = a[i].timestamp + d

\* Two reports of the same run, on two machines and d later.
Alike(f, g, d, r, s) ==
    /\ r \in MeasuredReports /\ s \in MeasuredReports
    /\ LaterBy(d, r.snapshots, s.snapshots) /\ LaterBy(d, r.event_log, s.event_log)
    /\ LaterBy(d, r.markers, s.markers)
    /\ \A i \in 1..Len(r.snapshots) :
           /\ s.snapshots[i].totals = r.snapshots[i].totals
           /\ Related(RowsAs(f, g), r.snapshots[i].processes, s.snapshots[i].processes)
    /\ Related(RowsAs(f, g), r.exited, s.exited)

\* Later, all times are later.
LEMMA LaterTimes ==
    ASSUME NEW X, NEW a \in Seq(X), NEW b \in Seq(X), NEW d, LaterBy(d, a, b)
    PROVE  (\A x \in Times(a) : x + d \in Times(b)) /\ \A y \in Times(b) : \E x \in Times(a) : y = x + d
<1>1. /\ DOMAIN a = 1..Len(a) /\ DOMAIN b = 1..Len(a)
      /\ \A i \in 1..Len(a) : b[i].timestamp = a[i].timestamp + d
  BY DEF LaterBy
<1> QED
  BY ONLY <1>1 DEF Times

LEMMA LaterStamps ==
    ASSUME NEW f, NEW g, NEW d \in Int, NEW r, NEW s, Alike(f, g, d, r, s)
    PROVE  /\ \A x \in Stamps(r) : x + d \in Stamps(s)
           /\ \A y \in Stamps(s) : \E x \in Stamps(r) : y = x + d
<1> DEFINE T(x) == Times(x.snapshots) \cup Times(x.event_log) \cup Times(x.markers)
<1>1. r \in MeasuredReports /\ s \in MeasuredReports
  BY DEF Alike
<1>2. LaterBy(d, r.snapshots, s.snapshots) /\ LaterBy(d, r.event_log, s.event_log) /\ LaterBy(d, r.markers, s.markers)
  BY DEF Alike
<1>3. Stamps(r) = T(r) /\ Stamps(s) = T(s)
  BY DEF Stamps, Times
<1>4. /\ \A x \in Times(r.snapshots) : x + d \in Times(s.snapshots)
      /\ \A y \in Times(s.snapshots) : \E x \in Times(r.snapshots) : y = x + d
  BY <1>1, <1>2, ReportFields, LaterTimes
<1>5. /\ \A x \in Times(r.event_log) : x + d \in Times(s.event_log)
      /\ \A y \in Times(s.event_log) : \E x \in Times(r.event_log) : y = x + d
  BY <1>1, <1>2, ReportFields, LaterTimes
<1>6. /\ \A x \in Times(r.markers) : x + d \in Times(s.markers)
      /\ \A y \in Times(s.markers) : \E x \in Times(r.markers) : y = x + d
  BY <1>1, <1>2, ReportFields, LaterTimes
<1>7. (\A x \in T(r) : x + d \in T(s)) /\ \A y \in T(s) : \E x \in T(r) : y = x + d
  BY <1>4, <1>5, <1>6
<1> QED
  BY <1>3, <1>7

LEMMA Between ==
    ASSUME NEW a \in Int, NEW b \in Int, NEW x \in Int, NEW d \in Int, b <= a + d, b = x + d, a <= x
    PROVE  b = a + d
  OBVIOUS

LEMMA ShiftedAlike ==
    ASSUME NEW f, NEW g, NEW d \in Int, NEW r, NEW s, Alike(f, g, d, r, s), NEW at \in Stamps(r)
    PROVE  Shifted(s, at + d) = Shifted(r, at)
<1> DEFINE T == Stamps(r)
           U == Stamps(s)
<1>1. (\A x \in T : x + d \in U) /\ \A y \in U : \E x \in T : y = x + d
  BY LaterStamps
<1>2. r \in MeasuredReports /\ s \in MeasuredReports
  BY DEF Alike
<1>3. T \subseteq Int /\ Min(T) \in T /\ \A x \in T : Min(T) <= x
  BY <1>2, StampsEnd
<1>4. U \subseteq Int /\ Min(U) \in U /\ \A x \in U : Min(U) <= x
  BY <1>1, <1>2, StampsEnd
<1> HIDE DEF T, U
<1>5. Min(U) = Min(T) + d
  <2>1. Min(U) <= Min(T) + d
    BY <1>1, <1>3, <1>4
  <2>2. PICK x \in T : Min(U) = x + d
    BY <1>1, <1>4
  <2>3. Min(T) <= x /\ Min(T) \in Int /\ Min(U) \in Int /\ x \in Int
    BY <1>3, <1>4
  <2> QED
    BY <2>1, <2>2, <2>3, Between
<1>6. Min(T) \in Int /\ at \in Int
  BY <1>3 DEF T
<1> QED
  BY <1>5, <1>6 DEF Shifted, T, U

-----------------------------------------------------------------------------
\* The rows of the samples of two reports, one by one.
ProcessLists(list) == [i \in DOMAIN list |-> list[i].processes]

LEMMA RowsAre == \A r : Rows(r) = Joined(ProcessLists(r.snapshots)) \o r.exited
  BY DEF Rows, Mapped, ProcessLists

LEMMA SamplesJoined ==
    ASSUME NEW R, NEW X, NEW Y, NEW A, NEW B, NEW a \in Seq(A), NEW b \in Seq(B), Len(a) = Len(b),
           \A i \in 1..Len(a) :
               a[i].processes \in Seq(X) /\ b[i].processes \in Seq(Y) /\ Related(R, a[i].processes, b[i].processes)
    PROVE  /\ Joined(ProcessLists(a)) \in Seq(X) /\ Joined(ProcessLists(b)) \in Seq(Y)
           /\ Related(R, Joined(ProcessLists(a)), Joined(ProcessLists(b)))
<1> DEFINE s == ProcessLists(a)
           t == ProcessLists(b)
<1>1. Len(a) \in Nat /\ DOMAIN a = 1..Len(a) /\ DOMAIN b = 1..Len(a)
  OBVIOUS
<1>2. /\ s = [i \in 1..Len(a) |-> a[i].processes] /\ t = [i \in 1..Len(a) |-> b[i].processes]
      /\ \A i \in 1..Len(a) : s[i] = a[i].processes /\ t[i] = b[i].processes
  BY <1>1 DEF ProcessLists
<1>3. s \in Seq(Seq(X)) /\ t \in Seq(Seq(Y)) /\ Len(s) = Len(a) /\ Len(t) = Len(a)
  BY <1>1, <1>2
<1> HIDE DEF s, t
<1>4. \A i \in 1..Len(s) : Related(R, s[i], t[i])
  BY <1>2, <1>3
<1>5. Joined(s) \in Seq(X) /\ Joined(t) \in Seq(Y) /\ Related(R, Joined(s), Joined(t))
  BY <1>3, <1>4, RelatedJoined
<1> QED
  BY <1>5 DEF s, t

LEMMA RowsAlike ==
    ASSUME NEW f, NEW g, NEW d, NEW r, NEW s, Alike(f, g, d, r, s)
    PROVE  /\ Rows(r) \in Seq(ProcessRows) /\ Rows(s) \in Seq(ProcessRows)
           /\ Related(RowsAs(f, g), Rows(r), Rows(s))
<1> DEFINE a == r.snapshots
           b == s.snapshots
           R == RowsAs(f, g)
<1>1. /\ a \in Seq(Samplings) /\ b \in Seq(Samplings)
      /\ r.exited \in Seq(ProcessRows) /\ s.exited \in Seq(ProcessRows)
  BY ReportFields DEF Alike
<1>2. Len(a) = Len(b) /\ Related(R, r.exited, s.exited) /\ \A i \in 1..Len(a) : Related(R, a[i].processes, b[i].processes)
  BY DEF Alike, LaterBy
<1>3. \A i \in 1..Len(a) : a[i].processes \in Seq(ProcessRows) /\ b[i].processes \in Seq(ProcessRows)
  <2>1. \A x \in Samplings : x.processes \in Seq(ProcessRows)
    BY DEF Samplings
  <2>2. \A i \in 1..Len(a) : a[i] \in Samplings /\ b[i] \in Samplings
    BY <1>1, <1>2
  <2> QED
    BY <2>1, <2>2
<1> HIDE DEF a, b, R
<1>4. /\ Joined(ProcessLists(a)) \in Seq(ProcessRows) /\ Joined(ProcessLists(b)) \in Seq(ProcessRows)
      /\ Related(R, Joined(ProcessLists(a)), Joined(ProcessLists(b)))
  BY <1>1, <1>2, <1>3, SamplesJoined
<1> DEFINE p == Joined(ProcessLists(a))
           q == Joined(ProcessLists(b))
<1>5. /\ p \o r.exited \in Seq(ProcessRows) /\ q \o s.exited \in Seq(ProcessRows)
      /\ Related(R, p \o r.exited, q \o s.exited)
  <2> HIDE DEF p, q
  <2> QED
    BY ONLY <1>1, <1>2, <1>4, RelatedConcat DEF p, q
<1> QED
  BY ONLY <1>5, RowsAre DEF a, b, R

\* The PIDs of related rows, one by one.
PidLists(rows) == [i \in DOMAIN rows |-> <<rows[i].pid, rows[i].ppid>>]

LEMMA PidsAlike ==
    ASSUME NEW f, NEW g, NEW s \in Seq(ProcessRows), NEW t \in Seq(ProcessRows), Related(RowsAs(f, g), s, t)
    PROVE  LET u == Joined(PidLists(s))  v == Joined(PidLists(t))
           IN  u \in Seq(HostPids) /\ v \in Seq(HostPids) /\ Len(v) = Len(u) /\ \A i \in 1..Len(u) : v[i] = f[u[i]]
<1> DEFINE R == {p \in HostPids \X HostPids : p[2] = f[p[1]]}
           a == PidLists(s)
           b == PidLists(t)
<1>1. /\ Len(s) \in Nat /\ DOMAIN s = 1..Len(s) /\ DOMAIN t = 1..Len(s)
      /\ \A i \in 1..Len(s) : <<s[i], t[i]>> \in RowsAs(f, g)
  BY DEF Related
<1>2. ASSUME NEW i \in 1..Len(s)
      PROVE  /\ s[i].pid \in HostPids /\ s[i].ppid \in HostPids /\ t[i].pid \in HostPids /\ t[i].ppid \in HostPids
             /\ t[i].pid = f[s[i].pid] /\ t[i].ppid = f[s[i].ppid]
  BY <1>1 DEF RowsAs, ProcessRows
<1>3. /\ a = [i \in 1..Len(s) |-> <<s[i].pid, s[i].ppid>>] /\ b = [i \in 1..Len(s) |-> <<t[i].pid, t[i].ppid>>]
      /\ \A i \in 1..Len(s) : a[i] = <<s[i].pid, s[i].ppid>> /\ b[i] = <<t[i].pid, t[i].ppid>>
  BY <1>1 DEF PidLists
<1>4. a \in Seq(Seq(HostPids)) /\ b \in Seq(Seq(HostPids)) /\ Len(a) = Len(s) /\ Len(b) = Len(s)
  <2>1. \A i \in 1..Len(s) : <<s[i].pid, s[i].ppid>> \in Seq(HostPids) /\ <<t[i].pid, t[i].ppid>> \in Seq(HostPids)
    BY <1>2
  <2> QED
    BY <1>1, <1>3, <2>1
<1>5. \A i \in 1..Len(a) : Related(R, a[i], b[i])
  <2> SUFFICES ASSUME NEW i \in 1..Len(s) PROVE Related(R, a[i], b[i])
    BY <1>4
  <2> DEFINE p == <<s[i].pid, s[i].ppid>>
             q == <<t[i].pid, t[i].ppid>>
  <2>1. Len(p) = 2 /\ Len(q) = 2 /\ p[1] = s[i].pid /\ p[2] = s[i].ppid /\ q[1] = t[i].pid /\ q[2] = t[i].ppid
    OBVIOUS
  <2>2. <<s[i].pid, t[i].pid>> \in R /\ <<s[i].ppid, t[i].ppid>> \in R
    BY <1>2
  <2>3. a[i] = p /\ b[i] = q
    BY <1>3
  <2> HIDE DEF p, q, R, a, b
  <2>4. \A k \in 1..2 : <<p[k], q[k]>> \in R
    BY <2>1, <2>2
  <2> QED
    BY <2>1, <2>3, <2>4 DEF Related
<1> HIDE DEF a, b, R
<1>6. Joined(a) \in Seq(HostPids) /\ Joined(b) \in Seq(HostPids) /\ Related(R, Joined(a), Joined(b))
  BY <1>4, <1>5, RelatedJoined
<1> QED
  BY <1>6 DEF a, b, R, Related

\* So a PID has the same number in both reports.
LEMMA PidAlike ==
    ASSUME NEW f, NEW g, NEW d, NEW r, NEW s, Alike(f, g, d, r, s), Renames(f, HostPids), NEW p \in HostPids
    PROVE  Pid(s, f[p]) = Pid(r, p)
<1> DEFINE u == Joined(PidLists(Rows(r)))
           v == Joined(PidLists(Rows(s)))
<1>1. u \in Seq(HostPids) /\ v \in Seq(HostPids) /\ Len(v) = Len(u) /\ \A i \in 1..Len(u) : v[i] = f[u[i]]
  BY RowsAlike, PidsAlike
<1>2. PidsOf(r) = u /\ PidsOf(s) = v
  BY DEF PidsOf, Mapped, PidLists
<1>3. \A x, y \in HostPids : f[x] = f[y] => x = y
  BY DEF Renames
<1> HIDE DEF u, v
<1>4. Number(f[p], v) = Number(p, u)
  BY <1>1, <1>3, NumberRenamed
<1> QED
  BY <1>2, <1>4 DEF Pid

\* And so has a PID with a time.
LEMMA ListOf ==
    ASSUME NEW n \in Nat, NEW s, s = [i \in 1..n |-> s[i]], NEW X, \A i \in 1..n : s[i] \in X
    PROVE  s \in Seq(X) /\ Len(s) = n
  OBVIOUS

LEMMA IdentityAlike ==
    ASSUME NEW f, NEW g, NEW d, NEW r, NEW s, Alike(f, g, d, r, s), Renames(f, HostPids), Renames(g, HostTimes),
           NEW a, NEW b, <<a, b>> \in RowsAs(f, g)
    PROVE  Identity(s, b) = Identity(r, a)
<1> DEFINE X == HostPids \X HostTimes
           h == [x \in X |-> <<f[x[1]], g[x[2]]>>]
           S == Rows(r)
           T == Rows(s)
           u == [i \in 1..Len(S) |-> <<S[i].pid, S[i].create_time>>]
           v == [i \in 1..Len(S) |-> <<T[i].pid, T[i].create_time>>]
<1>1. S \in Seq(ProcessRows) /\ T \in Seq(ProcessRows) /\ Related(RowsAs(f, g), S, T)
  BY RowsAlike
<1>2. /\ Len(S) \in Nat /\ DOMAIN S = 1..Len(S) /\ DOMAIN T = 1..Len(S)
      /\ \A i \in 1..Len(S) : <<S[i], T[i]>> \in RowsAs(f, g)
  BY <1>1 DEF Related
<1>3. IdentitiesOf(r) = u /\ IdentitiesOf(s) = v
  BY <1>2 DEF IdentitiesOf, Mapped
<1>4. \A x, y : <<x, y>> \in RowsAs(f, g) =>
          /\ <<x.pid, x.create_time>> \in X /\ <<y.pid, y.create_time>> \in X
          /\ <<y.pid, y.create_time>> = h[<<x.pid, x.create_time>>]
  BY DEF RowsAs, ProcessRows
<1>5. \A x, y \in X : h[x] = h[y] => x = y
  <2> SUFFICES ASSUME NEW x \in X, NEW y \in X, h[x] = h[y] PROVE x = y
    OBVIOUS
  <2>1. x[1] \in HostPids /\ x[2] \in HostTimes /\ y[1] \in HostPids /\ y[2] \in HostTimes
    OBVIOUS
  <2>2. f[x[1]] = f[y[1]] /\ g[x[2]] = g[y[2]]
    OBVIOUS
  <2>3. x[1] = y[1] /\ x[2] = y[2]
    BY <2>1, <2>2 DEF Renames
  <2> QED
    BY <2>3
<1> HIDE DEF h, X, S, T
<1>6. u \in Seq(X) /\ v \in Seq(X) /\ Len(v) = Len(u) /\ \A i \in 1..Len(u) : v[i] = h[u[i]]
  <2>1. \A i \in 1..Len(S) : u[i] \in X /\ v[i] \in X /\ v[i] = h[u[i]]
    BY <1>2, <1>4
  <2>2. u = [i \in 1..Len(S) |-> u[i]] /\ v = [i \in 1..Len(S) |-> v[i]]
    OBVIOUS
  <2> HIDE DEF u, v
  <2> QED
    BY ONLY <1>2, <2>1, <2>2, ListOf
<1> HIDE DEF u, v
<1>7. \A x \in X : Number(h[x], v) = Number(x, u)
  <2> SUFFICES ASSUME NEW x \in X PROVE Number(h[x], v) = Number(x, u)
    OBVIOUS
  <2> QED
    BY <1>5, <1>6, NumberRenamed
<1> QED
  BY <1>3, <1>4, <1>7 DEF Identity

LEMMA RowAlike ==
    ASSUME NEW f, NEW g, NEW d, NEW r, NEW s, Alike(f, g, d, r, s), Renames(f, HostPids), Renames(g, HostTimes),
           NEW kind, NEW a, NEW b, <<a, b>> \in RowsAs(f, g)
    PROVE  RedactedRow(s, kind, b) = RedactedRow(r, kind, a)
<1>1. /\ a.pid \in HostPids /\ a.ppid \in HostPids /\ b.pid = f[a.pid] /\ b.ppid = f[a.ppid]
      /\ b.private_bytes = a.private_bytes /\ Enum(b.status, States) = Enum(a.status, States)
  BY DEF RowsAs, ProcessRows
<1>2. Pid(s, b.pid) = Pid(r, a.pid) /\ Pid(s, b.ppid) = Pid(r, a.ppid)
  BY <1>1, PidAlike
<1>3. Identity(s, b) = Identity(r, a)
  BY IdentityAlike
<1> QED
  BY ONLY <1>1, <1>2, <1>3 DEF RedactedRow

-----------------------------------------------------------------------------
\* So the two are shared alike: part by part.
RowsOf(r, kind, rows) == Mapped(LAMBDA p : RedactedRow(r, kind, p), rows)
EventsOf(r) == Mapped(LAMBDA e : Shifted(r, e.timestamp), r.event_log)
MarkersOf(r) == [i \in DOMAIN r.markers |-> <<i, Shifted(r, r.markers[i].timestamp)>>]

LEMMA ListAlike ==
    ASSUME NEW f, NEW g, NEW d, NEW r, NEW s, Alike(f, g, d, r, s), Renames(f, HostPids), Renames(g, HostTimes),
           NEW kind, NEW a \in Seq(ProcessRows), NEW b \in Seq(ProcessRows), Related(RowsAs(f, g), a, b)
    PROVE  RowsOf(s, kind, b) = RowsOf(r, kind, a)
<1>1. DOMAIN a = 1..Len(a) /\ DOMAIN b = 1..Len(a) /\ \A i \in 1..Len(a) : <<a[i], b[i]>> \in RowsAs(f, g)
  BY DEF Related
<1>2. \A i \in 1..Len(a) : RedactedRow(s, kind, b[i]) = RedactedRow(r, kind, a[i])
  <2> SUFFICES ASSUME NEW i \in 1..Len(a) PROVE RedactedRow(s, kind, b[i]) = RedactedRow(r, kind, a[i])
    OBVIOUS
  <2>1. <<a[i], b[i]>> \in RowsAs(f, g)
    BY <1>1
  <2> QED
    BY <2>1, RowAlike
<1> QED
  BY ONLY <1>1, <1>2 DEF RowsOf, Mapped

LEMMA StampIn ==
    ASSUME NEW r \in MeasuredReports
    PROVE  /\ \A i \in 1..Len(r.snapshots) : r.snapshots[i].timestamp \in Stamps(r)
           /\ \A i \in 1..Len(r.event_log) : r.event_log[i].timestamp \in Stamps(r)
           /\ \A i \in 1..Len(r.markers) : r.markers[i].timestamp \in Stamps(r)
<1>1. /\ DOMAIN r.snapshots = 1..Len(r.snapshots) /\ DOMAIN r.event_log = 1..Len(r.event_log)
      /\ DOMAIN r.markers = 1..Len(r.markers)
  BY ReportFields
<1> QED
  BY <1>1 DEF Stamps

LEMMA SamplesAlike ==
    ASSUME NEW f, NEW g, NEW d \in Int, NEW r, NEW s, Alike(f, g, d, r, s),
           Renames(f, HostPids), Renames(g, HostTimes), NEW kind
    PROVE  Redacted(s, kind).snapshots = Redacted(r, kind).snapshots
<1> DEFINE a == r.snapshots
           b == s.snapshots
           A == [i \in DOMAIN a |->
                   [timestamp |-> Shifted(r, a[i].timestamp), totals |-> a[i].totals,
                    processes |-> RowsOf(r, kind, a[i].processes)]]
           B == [i \in DOMAIN b |->
                   [timestamp |-> Shifted(s, b[i].timestamp), totals |-> b[i].totals,
                    processes |-> RowsOf(s, kind, b[i].processes)]]
<1>1. r \in MeasuredReports /\ s \in MeasuredReports
  BY DEF Alike
<1>2. DOMAIN a = 1..Len(a) /\ DOMAIN b = 1..Len(a)
  BY <1>1, ReportFields DEF Alike, LaterBy
<1>3. ASSUME NEW i \in 1..Len(a)
      PROVE  /\ Shifted(s, b[i].timestamp) = Shifted(r, a[i].timestamp) /\ b[i].totals = a[i].totals
             /\ RowsOf(s, kind, b[i].processes) = RowsOf(r, kind, a[i].processes)
  <2>1. a[i] \in Samplings /\ b[i] \in Samplings
    BY <1>1, <1>2, ReportFields
  <2>2. a[i].processes \in Seq(ProcessRows) /\ b[i].processes \in Seq(ProcessRows)
    BY <2>1 DEF Samplings
  <2>3. /\ b[i].timestamp = a[i].timestamp + d /\ b[i].totals = a[i].totals
        /\ Related(RowsAs(f, g), a[i].processes, b[i].processes)
    BY DEF Alike, LaterBy
  <2>4. a[i].timestamp \in Stamps(r)
    BY <1>1, StampIn
  <2>5. Shifted(s, b[i].timestamp) = Shifted(r, a[i].timestamp)
    BY <2>3, <2>4, ShiftedAlike
  <2>6. RowsOf(s, kind, b[i].processes) = RowsOf(r, kind, a[i].processes)
    BY <2>2, <2>3, ListAlike
  <2> QED
    BY <2>3, <2>5, <2>6
<1>4. Redacted(r, kind).snapshots = A /\ Redacted(s, kind).snapshots = B
  BY DEF Redacted, RowsOf, Mapped
<1>5. A = B
  BY <1>2, <1>3
<1> QED
  BY <1>4, <1>5

LEMMA TimesAlike ==
    ASSUME NEW f, NEW g, NEW d \in Int, NEW r, NEW s, Alike(f, g, d, r, s)
    PROVE  /\ EventsOf(s) = EventsOf(r)
           /\ MarkersOf(s) = MarkersOf(r)
<1>1. r \in MeasuredReports /\ s \in MeasuredReports
  BY DEF Alike
<1>2. /\ DOMAIN s.event_log = DOMAIN r.event_log /\ DOMAIN r.event_log = 1..Len(r.event_log)
      /\ \A i \in 1..Len(r.event_log) : s.event_log[i].timestamp = r.event_log[i].timestamp + d
  BY <1>1, ReportFields DEF Alike, LaterBy
<1>3. /\ DOMAIN s.markers = DOMAIN r.markers /\ DOMAIN r.markers = 1..Len(r.markers)
      /\ \A i \in 1..Len(r.markers) : s.markers[i].timestamp = r.markers[i].timestamp + d
  BY <1>1, ReportFields DEF Alike, LaterBy
<1>4. \A i \in 1..Len(r.event_log) : Shifted(s, s.event_log[i].timestamp) = Shifted(r, r.event_log[i].timestamp)
  BY <1>1, <1>2, StampIn, ShiftedAlike
<1>5. \A i \in 1..Len(r.markers) : Shifted(s, s.markers[i].timestamp) = Shifted(r, r.markers[i].timestamp)
  BY <1>1, <1>3, StampIn, ShiftedAlike
<1> QED
  BY ONLY <1>2, <1>3, <1>4, <1>5 DEF EventsOf, MarkersOf, Mapped

LEMMA RedactedAlike ==
    ASSUME NEW f, NEW g, NEW d \in Int, NEW r, NEW s, Alike(f, g, d, r, s),
           Renames(f, HostPids), Renames(g, HostTimes), NEW kind
    PROVE  Redacted(s, kind) = Redacted(r, kind)
<1>1. Redacted(s, kind).snapshots = Redacted(r, kind).snapshots
  BY SamplesAlike
<1>2. RowsOf(s, kind, s.exited) = RowsOf(r, kind, r.exited)
  <2>1. /\ r.exited \in Seq(ProcessRows) /\ s.exited \in Seq(ProcessRows)
        /\ Related(RowsAs(f, g), r.exited, s.exited)
    BY ReportFields DEF Alike
  <2> QED
    BY <2>1, ListAlike
<1>3. /\ EventsOf(s) = EventsOf(r)
      /\ MarkersOf(s) = MarkersOf(r)
  BY TimesAlike
<1> QED
  BY ONLY <1>1, <1>2, <1>3 DEF Redacted, RowsOf, EventsOf, MarkersOf

-----------------------------------------------------------------------------
\* Every process of a report changed by h.
EachRow(h, rows) == [k \in DOMAIN rows |-> h[rows[k]]]
EachSample(h, list) == [i \in DOMAIN list |-> [list[i] EXCEPT !.processes = EachRow(h, @)]]
EachOf(h, r) == [r EXCEPT !.snapshots = EachSample(h, @), !.exited = EachRow(h, @)]

LEMMA EachRowAlike ==
    ASSUME NEW h, NEW R, \A x \in ProcessRows : h[x] \in ProcessRows /\ <<x, h[x]>> \in R, NEW a \in Seq(ProcessRows)
    PROVE  EachRow(h, a) \in Seq(ProcessRows) /\ Len(EachRow(h, a)) = Len(a) /\ Related(R, a, EachRow(h, a))
<1> DEFINE b == EachRow(h, a)
<1>1. Len(a) \in Nat /\ DOMAIN a = 1..Len(a) /\ \A k \in 1..Len(a) : a[k] \in ProcessRows
  OBVIOUS
<1>2. b = [k \in 1..Len(a) |-> b[k]] /\ \A k \in 1..Len(a) : b[k] = h[a[k]]
  BY <1>1 DEF EachRow
<1> HIDE DEF b
<1>3. \A k \in 1..Len(a) : b[k] \in ProcessRows /\ <<a[k], b[k]>> \in R
  BY <1>1, <1>2
<1>4. b \in Seq(ProcessRows) /\ Len(b) = Len(a)
  BY <1>1, <1>2, <1>3, ListOf
<1> QED
  BY <1>3, <1>4 DEF b, Related

\* A report is made of its fields.
LEMMA Fields ==
    ASSUME NEW r \in MeasuredReports
    PROVE  r = [snapshots |-> r.snapshots, exited |-> r.exited, event_log |-> r.event_log, markers |-> r.markers]
  BY DEF MeasuredReports

LEMMA SamplesWritten ==
    ASSUME NEW r, r = [snapshots |-> r.snapshots, exited |-> r.exited, event_log |-> r.event_log, markers |-> r.markers],
           NEW x
    PROVE  [r EXCEPT !.snapshots = x]
               = [snapshots |-> x, exited |-> r.exited, event_log |-> r.event_log, markers |-> r.markers]
  OBVIOUS

LEMMA RowsWritten ==
    ASSUME NEW r, NEW a, NEW b, NEW c, NEW d, r = [snapshots |-> a, exited |-> b, event_log |-> c, markers |-> d], NEW x
    PROVE  [r EXCEPT !.exited = x] = [snapshots |-> a, exited |-> x, event_log |-> c, markers |-> d]
  OBVIOUS

LEMMA EachWritten ==
    ASSUME NEW h, NEW r \in MeasuredReports
    PROVE  EachOf(h, r) = [snapshots |-> EachSample(h, r.snapshots), exited |-> EachRow(h, r.exited),
                         event_log |-> r.event_log, markers |-> r.markers]
<1> DEFINE a == EachSample(h, r.snapshots)
           b == EachRow(h, r.exited)
           q == [r EXCEPT !.snapshots = a]
           s == [q EXCEPT !.exited = b]
<1>1. EachOf(h, r) = s
  BY DEF EachOf
<1>2. q = [snapshots |-> a, exited |-> r.exited, event_log |-> r.event_log, markers |-> r.markers]
  <2> HIDE DEF a
  <2> QED
    BY Fields, SamplesWritten
<1> HIDE DEF q, a, b
<1>3. s = [snapshots |-> a, exited |-> b, event_log |-> r.event_log, markers |-> r.markers]
  BY ONLY <1>2, RowsWritten
<1> HIDE DEF s
<1> QED
  BY <1>1, <1>3 DEF a, b

LEMMA EachAlike ==
    ASSUME NEW f, NEW g, NEW h, \A x \in ProcessRows : h[x] \in ProcessRows /\ <<x, h[x]>> \in RowsAs(f, g),
           NEW r \in MeasuredReports
    PROVE  Alike(f, g, 0, r, EachOf(h, r))
<1> DEFINE s == EachOf(h, r)
           a == r.snapshots
           b == EachSample(h, a)
           R == RowsAs(f, g)
<1>1. /\ a \in Seq(Samplings) /\ r.event_log \in Seq(Events) /\ r.markers \in Seq(Labels)
      /\ r.exited \in Seq(ProcessRows)
  BY ReportFields
<1>2. Len(a) \in Nat /\ DOMAIN a = 1..Len(a) /\ \A i \in 1..Len(a) : a[i] \in Samplings
  BY <1>1
<1>3. ASSUME NEW i \in 1..Len(a)
      PROVE  /\ b[i] \in Samplings /\ b[i].totals = a[i].totals /\ b[i].timestamp = a[i].timestamp + 0
             /\ Related(R, a[i].processes, b[i].processes)
  <2>1. a[i] \in Samplings
    BY <1>2
  <2>2. a[i].processes \in Seq(ProcessRows) /\ a[i].timestamp \in Int /\ a[i].totals \in Nat
    BY <2>1 DEF Samplings
  <2> DEFINE c == EachRow(h, a[i].processes)
  <2>3. c \in Seq(ProcessRows) /\ Related(R, a[i].processes, c)
    BY <2>2, EachRowAlike
  <2>4. b[i] = [a[i] EXCEPT !.processes = c]
    BY <1>2 DEF EachSample
  <2> HIDE DEF c
  <2>5. b[i] \in Samplings /\ b[i].processes = c /\ b[i].totals = a[i].totals /\ b[i].timestamp = a[i].timestamp
    BY <2>1, <2>3, <2>4 DEF Samplings
  <2> QED
    BY <2>2, <2>3, <2>5
<1>4. b = [i \in 1..Len(a) |-> b[i]]
  BY <1>2 DEF EachSample
<1>5. /\ s.snapshots = b /\ s.exited = EachRow(h, r.exited) /\ s.event_log = r.event_log /\ s.markers = r.markers
      /\ s = [snapshots |-> s.snapshots, exited |-> s.exited, event_log |-> s.event_log, markers |-> s.markers]
  BY EachWritten
<1> HIDE DEF b, s
<1>6. b \in Seq(Samplings) /\ Len(b) = Len(a)
  BY <1>2, <1>3, <1>4, ListOf
<1>7. s.exited \in Seq(ProcessRows) /\ Related(R, r.exited, s.exited)
  BY <1>1, <1>5, EachRowAlike
<1>8. s \in MeasuredReports
  BY <1>1, <1>5, <1>6, <1>7 DEF MeasuredReports, Samplings, Events, Labels
<1>9. LaterBy(0, a, s.snapshots)
  BY <1>3, <1>5, <1>6 DEF LaterBy
<1>10. LaterBy(0, r.event_log, s.event_log)
  <2>1. \A x \in Events : x.timestamp \in Int
    BY DEF Events
  <2>2. \A i \in 1..Len(r.event_log) : r.event_log[i].timestamp = r.event_log[i].timestamp + 0
    BY <1>1, <2>1
  <2> QED
    BY <1>5, <2>2 DEF LaterBy
<1>11. LaterBy(0, r.markers, s.markers)
  <2>1. \A x \in Labels : x.timestamp \in Int
    BY DEF Labels
  <2>2. \A i \in 1..Len(r.markers) : r.markers[i].timestamp = r.markers[i].timestamp + 0
    BY <1>1, <2>1
  <2> QED
    BY <1>5, <2>2 DEF LaterBy
<1>12. \A i \in 1..Len(a) :
           s.snapshots[i].totals = a[i].totals /\ Related(R, a[i].processes, s.snapshots[i].processes)
  BY <1>3, <1>5
<1> QED
  BY <1>7, <1>8, <1>9, <1>10, <1>11, <1>12 DEF Alike, s

\* Nobody is renamed.
Oneself(A) == [x \in A |-> x]

LEMMA OneselfRenames == \A A : Renames(Oneself(A), A)
  BY DEF Renames, Oneself

LEMMA RowAsItself == \A x \in ProcessRows : <<x, x>> \in RowsAs(Oneself(HostPids), Oneself(HostTimes))
  BY DEF RowsAs, Oneself, ProcessRows

LEMMA ListAsItself ==
    ASSUME NEW a \in Seq(ProcessRows)
    PROVE  Related(RowsAs(Oneself(HostPids), Oneself(HostTimes)), a, a)
<1>1. \A i \in 1..Len(a) : a[i] \in ProcessRows
  OBVIOUS
<1> QED
  BY <1>1, RowAsItself DEF Related

-----------------------------------------------------------------------------
\* Each change is one that nothing shared tells of.
LEMMA OfEachIs == \A h : OfEach(h) = EachOf(h, private)
  BY DEF OfEach, EachOf, EachRow, EachSample, Mapped

Exchange(A, p, q) == [x \in A |-> Swap(p, q, x)]

LEMMA ExchangeRenames ==
    ASSUME NEW A, NEW p \in A, NEW q \in A
    PROVE  Renames(Exchange(A, p, q), A)
  BY DEF Renames, Exchange, Swap

LEMMA PidsChange ==
    ASSUME NEW p \in HostPids, NEW q \in HostPids, private \in MeasuredReports,
           private' = OfEach([row \in ProcessRows |-> [row EXCEPT !.pid = Swap(p, q, @), !.ppid = Swap(p, q, @)]])
    PROVE  Alike(Exchange(HostPids, p, q), Oneself(HostTimes), 0, private, private')
<1> DEFINE h == [row \in ProcessRows |-> [row EXCEPT !.pid = Swap(p, q, @), !.ppid = Swap(p, q, @)]]
           f == Exchange(HostPids, p, q)
           g == Oneself(HostTimes)
<1>1. ASSUME NEW x \in ProcessRows PROVE h[x] \in ProcessRows /\ <<x, h[x]>> \in RowsAs(f, g)
  <2> DEFINE y == [x EXCEPT !.pid = Swap(p, q, x.pid)]
             z == [y EXCEPT !.ppid = Swap(p, q, x.ppid)]
  <2>1. x.pid \in HostPids /\ x.ppid \in HostPids /\ x.create_time \in HostTimes
    BY DEF ProcessRows
  <2>2. Swap(p, q, x.pid) \in HostPids /\ Swap(p, q, x.ppid) \in HostPids
    BY <2>1 DEF Swap
  <2>3. h[x] = z
    OBVIOUS
  <2>4. /\ y \in ProcessRows /\ y.pid = Swap(p, q, x.pid) /\ y.create_time = x.create_time
        /\ y.private_bytes = x.private_bytes /\ y.status = x.status
    BY <2>2 DEF ProcessRows
  <2> HIDE DEF y
  <2>5. /\ z \in ProcessRows /\ z.pid = y.pid /\ z.ppid = Swap(p, q, x.ppid) /\ z.create_time = y.create_time
        /\ z.private_bytes = y.private_bytes /\ z.status = y.status
    BY <2>2, <2>4 DEF ProcessRows
  <2> HIDE DEF z, h
  <2>6. z.pid = f[x.pid] /\ z.ppid = f[x.ppid] /\ z.create_time = g[x.create_time]
    BY <2>1, <2>4, <2>5 DEF Exchange, Oneself
  <2> QED
    BY <2>3, <2>4, <2>5, <2>6 DEF RowsAs
<1>2. private' = EachOf(h, private)
  BY OfEachIs
<1> HIDE DEF h, f, g
<1>3. Alike(f, g, 0, private, EachOf(h, private))
  BY <1>1, EachAlike
<1> QED
  BY <1>2, <1>3 DEF f, g

LEMMA BirthsChange ==
    ASSUME NEW b \in HostTimes, NEW c \in HostTimes, private \in MeasuredReports,
           private' = OfEach([row \in ProcessRows |-> [row EXCEPT !.create_time = Swap(b, c, @)]])
    PROVE  Alike(Oneself(HostPids), Exchange(HostTimes, b, c), 0, private, private')
<1> DEFINE h == [row \in ProcessRows |-> [row EXCEPT !.create_time = Swap(b, c, @)]]
           f == Oneself(HostPids)
           g == Exchange(HostTimes, b, c)
<1>1. ASSUME NEW x \in ProcessRows PROVE h[x] \in ProcessRows /\ <<x, h[x]>> \in RowsAs(f, g)
  <2> DEFINE y == [x EXCEPT !.create_time = Swap(b, c, x.create_time)]
  <2>1. x.pid \in HostPids /\ x.ppid \in HostPids /\ x.create_time \in HostTimes
    BY DEF ProcessRows
  <2>2. Swap(b, c, x.create_time) \in HostTimes
    BY <2>1 DEF Swap
  <2>3. h[x] = y
    OBVIOUS
  <2>4. /\ y \in ProcessRows /\ y.pid = x.pid /\ y.ppid = x.ppid /\ y.create_time = Swap(b, c, x.create_time)
        /\ y.private_bytes = x.private_bytes /\ y.status = x.status
    BY <2>2 DEF ProcessRows
  <2> HIDE DEF y, h
  <2>5. y.pid = f[x.pid] /\ y.ppid = f[x.ppid] /\ y.create_time = g[x.create_time]
    BY <2>1, <2>4 DEF Exchange, Oneself
  <2> QED
    BY <2>3, <2>4, <2>5 DEF RowsAs
<1>2. private' = EachOf(h, private)
  BY OfEachIs
<1> HIDE DEF h, f, g
<1>3. Alike(f, g, 0, private, EachOf(h, private))
  BY <1>1, EachAlike
<1> QED
  BY <1>2, <1>3 DEF f, g

LEMMA NamesChange ==
    ASSUME PrivacyAssumption, NEW text \in Texts, private \in MeasuredReports,
           private' = OfEach([row \in ProcessRows |->
                                [row EXCEPT !.name = text, !.unlisted = text,
                                            !.status = IF @ \in States THEN @ ELSE text]])
    PROVE  Alike(Oneself(HostPids), Oneself(HostTimes), 0, private, private')
<1> DEFINE h == [row \in ProcessRows |->
                   [row EXCEPT !.name = text, !.unlisted = text, !.status = IF @ \in States THEN @ ELSE text]]
           f == Oneself(HostPids)
           g == Oneself(HostTimes)
<1>1. ASSUME NEW x \in ProcessRows PROVE h[x] \in ProcessRows /\ <<x, h[x]>> \in RowsAs(f, g)
  <2> DEFINE status == IF x.status \in States THEN x.status ELSE text
             y == [x EXCEPT !.name = text]
             z == [y EXCEPT !.unlisted = text]
             w == [z EXCEPT !.status = status]
  <2>1. x.pid \in HostPids /\ x.ppid \in HostPids /\ x.create_time \in HostTimes /\ x.status \in States \cup Texts
    BY DEF ProcessRows
  <2>2. status \in States \cup Texts /\ Enum(status, States) = Enum(x.status, States)
    BY <2>1 DEF Enum, PrivacyAssumption
  <2>3. h[x] = w
    OBVIOUS
  <2> HIDE DEF status
  <2>4. /\ y \in ProcessRows /\ y.pid = x.pid /\ y.ppid = x.ppid /\ y.create_time = x.create_time
        /\ y.private_bytes = x.private_bytes
    BY DEF ProcessRows
  <2> HIDE DEF y
  <2>5. /\ z \in ProcessRows /\ z.pid = y.pid /\ z.ppid = y.ppid /\ z.create_time = y.create_time
        /\ z.private_bytes = y.private_bytes
    BY <2>4 DEF ProcessRows
  <2> HIDE DEF z
  <2>6. /\ w \in ProcessRows /\ w.pid = z.pid /\ w.ppid = z.ppid /\ w.create_time = z.create_time
        /\ w.private_bytes = z.private_bytes /\ w.status = status
    BY <2>2, <2>5 DEF ProcessRows
  <2> HIDE DEF w, h
  <2>7. w.pid = f[x.pid] /\ w.ppid = f[x.ppid] /\ w.create_time = g[x.create_time]
    BY <2>1, <2>4, <2>5, <2>6 DEF Oneself
  <2> QED
    BY <2>2, <2>3, <2>4, <2>5, <2>6, <2>7 DEF RowsAs
<1>2. private' = EachOf(h, private)
  BY OfEachIs
<1> HIDE DEF h, f, g
<1>3. Alike(f, g, 0, private, EachOf(h, private))
  BY <1>1, EachAlike
<1> QED
  BY <1>2, <1>3 DEF f, g

\* The same run a moment later, and with other texts.
ClockChanged(r) ==
    [r EXCEPT !.snapshots = Mapped(LAMBDA s : [s EXCEPT !.timestamp = Later(@)], @),
              !.event_log = Mapped(LAMBDA e : [e EXCEPT !.timestamp = Later(@)], @),
              !.markers = Mapped(LAMBDA m : [m EXCEPT !.timestamp = Later(@)], @)]
TextChanged(r, text) ==
    [r EXCEPT !.event_log = Mapped(LAMBDA e : [e EXCEPT !.message = text], @),
              !.markers = Mapped(LAMBDA m : [m EXCEPT !.label = text], @)]

LaterList(a) == [i \in DOMAIN a |-> [a[i] EXCEPT !.timestamp = Later(@)]]
Reworded(a, text) == [i \in DOMAIN a |-> [a[i] EXCEPT !.message = text]]
Relabelled(a, text) == [i \in DOMAIN a |-> [a[i] EXCEPT !.label = text]]

LEMMA EventsWritten ==
    ASSUME NEW r, NEW a, NEW b, NEW c, NEW d, r = [snapshots |-> a, exited |-> b, event_log |-> c, markers |-> d], NEW x
    PROVE  [r EXCEPT !.event_log = x] = [snapshots |-> a, exited |-> b, event_log |-> x, markers |-> d]
  OBVIOUS

LEMMA MarkersWritten ==
    ASSUME NEW r, NEW a, NEW b, NEW c, NEW d, r = [snapshots |-> a, exited |-> b, event_log |-> c, markers |-> d], NEW x
    PROVE  [r EXCEPT !.markers = x] = [snapshots |-> a, exited |-> b, event_log |-> c, markers |-> x]
  OBVIOUS

LEMMA ClockWritten ==
    ASSUME NEW r \in MeasuredReports
    PROVE  ClockChanged(r) = [snapshots |-> LaterList(r.snapshots), exited |-> r.exited,
                              event_log |-> LaterList(r.event_log), markers |-> LaterList(r.markers)]
<1> DEFINE a == LaterList(r.snapshots)
           b == LaterList(r.event_log)
           c == LaterList(r.markers)
           p == [r EXCEPT !.snapshots = a]
           q == [p EXCEPT !.event_log = b]
           s == [q EXCEPT !.markers = c]
<1>1. ClockChanged(r) = s
  BY DEF ClockChanged, LaterList, Mapped
<1>2. p = [snapshots |-> a, exited |-> r.exited, event_log |-> r.event_log, markers |-> r.markers]
  <2> HIDE DEF a
  <2> QED
    BY Fields, SamplesWritten
<1> HIDE DEF p, a, b, c
<1>3. q = [snapshots |-> a, exited |-> r.exited, event_log |-> b, markers |-> r.markers]
  BY ONLY <1>2, EventsWritten
<1> HIDE DEF q
<1>4. s = [snapshots |-> a, exited |-> r.exited, event_log |-> b, markers |-> c]
  BY ONLY <1>3, MarkersWritten
<1> HIDE DEF s
<1> QED
  BY <1>1, <1>4 DEF a, b, c

LEMMA TextWritten ==
    ASSUME NEW r \in MeasuredReports, NEW text
    PROVE  TextChanged(r, text) =
               [snapshots |-> r.snapshots, exited |-> r.exited,
                event_log |-> Reworded(r.event_log, text), markers |-> Relabelled(r.markers, text)]
<1> DEFINE b == Reworded(r.event_log, text)
           c == Relabelled(r.markers, text)
           q == [r EXCEPT !.event_log = b]
           s == [q EXCEPT !.markers = c]
<1>1. TextChanged(r, text) = s
  BY DEF TextChanged, Reworded, Relabelled, Mapped
<1> HIDE DEF b, c
<1>2. q = [snapshots |-> r.snapshots, exited |-> r.exited, event_log |-> b, markers |-> r.markers]
  BY Fields, EventsWritten
<1> HIDE DEF q
<1>3. s = [snapshots |-> r.snapshots, exited |-> r.exited, event_log |-> b, markers |-> c]
  BY ONLY <1>2, MarkersWritten
<1> HIDE DEF s
<1> QED
  BY <1>1, <1>3 DEF b, c

LEMMA LaterListIs ==
    ASSUME NEW X, NEW a \in Seq(X), \A x \in X : [x EXCEPT !.timestamp = Later(x.timestamp)] \in X,
           \A x \in X : [x EXCEPT !.timestamp = Later(x.timestamp)].timestamp = x.timestamp + 1
    PROVE  LaterList(a) \in Seq(X) /\ LaterBy(1, a, LaterList(a))
<1> DEFINE b == LaterList(a)
<1>1. Len(a) \in Nat /\ DOMAIN a = 1..Len(a) /\ \A i \in 1..Len(a) : a[i] \in X
  OBVIOUS
<1>2. b = [i \in 1..Len(a) |-> b[i]] /\ \A i \in 1..Len(a) : b[i] = [a[i] EXCEPT !.timestamp = Later(a[i].timestamp)]
  BY <1>1 DEF LaterList
<1> HIDE DEF b
<1>3. \A i \in 1..Len(a) : b[i] \in X /\ b[i].timestamp = a[i].timestamp + 1
  BY <1>1, <1>2
<1>4. b \in Seq(X) /\ Len(b) = Len(a)
  BY <1>1, <1>2, <1>3, ListOf
<1> QED
  BY <1>3, <1>4 DEF b, LaterBy

LEMMA ClockChange ==
    ASSUME NEW r \in MeasuredReports
    PROVE  Alike(Oneself(HostPids), Oneself(HostTimes), 1, r, ClockChanged(r))
<1> DEFINE s == ClockChanged(r)
           a == r.snapshots
           b == LaterList(a)
<1>1. /\ a \in Seq(Samplings) /\ r.event_log \in Seq(Events) /\ r.markers \in Seq(Labels)
      /\ r.exited \in Seq(ProcessRows)
  BY ReportFields
<1>2. /\ s.snapshots = b /\ s.exited = r.exited /\ s.event_log = LaterList(r.event_log)
      /\ s.markers = LaterList(r.markers)
      /\ s = [snapshots |-> s.snapshots, exited |-> s.exited, event_log |-> s.event_log, markers |-> s.markers]
  BY ClockWritten
<1> HIDE DEF s
<1>3. b \in Seq(Samplings) /\ LaterBy(1, a, b)
  <2>1. \A x \in Samplings : /\ [x EXCEPT !.timestamp = Later(x.timestamp)] \in Samplings
                             /\ [x EXCEPT !.timestamp = Later(x.timestamp)].timestamp = x.timestamp + 1
    BY DEF Samplings, Later
  <2> QED
    BY <1>1, <2>1, LaterListIs
<1>4. LaterList(r.event_log) \in Seq(Events) /\ LaterBy(1, r.event_log, LaterList(r.event_log))
  <2>1. \A x \in Events : /\ [x EXCEPT !.timestamp = Later(x.timestamp)] \in Events
                          /\ [x EXCEPT !.timestamp = Later(x.timestamp)].timestamp = x.timestamp + 1
    BY DEF Events, Later
  <2> QED
    BY <1>1, <2>1, LaterListIs
<1>5. LaterList(r.markers) \in Seq(Labels) /\ LaterBy(1, r.markers, LaterList(r.markers))
  <2>1. \A x \in Labels : /\ [x EXCEPT !.timestamp = Later(x.timestamp)] \in Labels
                          /\ [x EXCEPT !.timestamp = Later(x.timestamp)].timestamp = x.timestamp + 1
    BY DEF Labels, Later
  <2> QED
    BY <1>1, <2>1, LaterListIs
<1>6. ASSUME NEW i \in 1..Len(a)
      PROVE  b[i].totals = a[i].totals /\ Related(RowsAs(Oneself(HostPids), Oneself(HostTimes)), a[i].processes, b[i].processes)
  <2>1. a[i] \in Samplings /\ i \in DOMAIN a
    BY <1>1
  <2>2. b[i] = [a[i] EXCEPT !.timestamp = Later(a[i].timestamp)]
    BY <2>1 DEF LaterList
  <2>3. a[i].processes \in Seq(ProcessRows) /\ b[i].totals = a[i].totals /\ b[i].processes = a[i].processes
    BY <2>1, <2>2 DEF Samplings
  <2> QED
    BY <2>3, ListAsItself
<1> HIDE DEF b
<1>7. s \in MeasuredReports
  BY <1>1, <1>2, <1>3, <1>4, <1>5 DEF MeasuredReports, Samplings, Events, Labels
<1>8. Related(RowsAs(Oneself(HostPids), Oneself(HostTimes)), r.exited, s.exited)
  BY <1>1, <1>2, ListAsItself
<1> QED
  BY <1>2, <1>3, <1>4, <1>5, <1>6, <1>7, <1>8 DEF Alike, s

LEMMA TextChange ==
    ASSUME NEW r \in MeasuredReports, NEW text \in Texts
    PROVE  Alike(Oneself(HostPids), Oneself(HostTimes), 0, r, TextChanged(r, text))
<1> DEFINE s == TextChanged(r, text)
           a == r.snapshots
           b == Reworded(r.event_log, text)
           c == Relabelled(r.markers, text)
<1>1. /\ a \in Seq(Samplings) /\ r.event_log \in Seq(Events) /\ r.markers \in Seq(Labels)
      /\ r.exited \in Seq(ProcessRows)
  BY ReportFields
<1>2. /\ s.snapshots = a /\ s.exited = r.exited /\ s.event_log = b /\ s.markers = c
      /\ s = [snapshots |-> s.snapshots, exited |-> s.exited, event_log |-> s.event_log, markers |-> s.markers]
  BY TextWritten
<1> HIDE DEF s
<1>3. b \in Seq(Events) /\ LaterBy(0, r.event_log, b)
  <2> DEFINE n == Len(r.event_log)
  <2>1. n \in Nat /\ DOMAIN r.event_log = 1..n /\ \A i \in 1..n : r.event_log[i] \in Events
    BY <1>1
  <2>2. b = [i \in 1..n |-> b[i]] /\ \A i \in 1..n : b[i] = [r.event_log[i] EXCEPT !.message = text]
    BY <2>1 DEF Reworded
  <2>3. \A x \in Events : /\ [x EXCEPT !.message = text] \in Events
                          /\ [x EXCEPT !.message = text].timestamp = x.timestamp + 0
    BY DEF Events
  <2> HIDE DEF b
  <2>4. \A i \in 1..n : b[i] \in Events /\ b[i].timestamp = r.event_log[i].timestamp + 0
    BY <2>1, <2>2, <2>3
  <2>5. b \in Seq(Events) /\ Len(b) = n
    BY <2>1, <2>2, <2>4, ListOf
  <2> QED
    BY <2>4, <2>5 DEF LaterBy
<1>4. c \in Seq(Labels) /\ LaterBy(0, r.markers, c)
  <2> DEFINE n == Len(r.markers)
  <2>1. n \in Nat /\ DOMAIN r.markers = 1..n /\ \A i \in 1..n : r.markers[i] \in Labels
    BY <1>1
  <2>2. c = [i \in 1..n |-> c[i]] /\ \A i \in 1..n : c[i] = [r.markers[i] EXCEPT !.label = text]
    BY <2>1 DEF Relabelled
  <2>3. \A x \in Labels : /\ [x EXCEPT !.label = text] \in Labels
                          /\ [x EXCEPT !.label = text].timestamp = x.timestamp + 0
    BY DEF Labels
  <2> HIDE DEF c
  <2>4. \A i \in 1..n : c[i] \in Labels /\ c[i].timestamp = r.markers[i].timestamp + 0
    BY <2>1, <2>2, <2>3
  <2>5. c \in Seq(Labels) /\ Len(c) = n
    BY <2>1, <2>2, <2>4, ListOf
  <2> QED
    BY <2>4, <2>5 DEF LaterBy
<1>5. ASSUME NEW i \in 1..Len(a)
      PROVE  a[i].timestamp = a[i].timestamp + 0 /\ Related(RowsAs(Oneself(HostPids), Oneself(HostTimes)), a[i].processes, a[i].processes)
  <2>1. a[i] \in Samplings
    BY <1>1
  <2>2. a[i].processes \in Seq(ProcessRows) /\ a[i].timestamp \in Int
    BY <2>1 DEF Samplings
  <2> QED
    BY <2>2, ListAsItself
<1>6. LaterBy(0, a, s.snapshots)
  BY <1>2, <1>5 DEF LaterBy
<1> HIDE DEF b, c
<1>7. s \in MeasuredReports
  BY <1>1, <1>2, <1>3, <1>4 DEF MeasuredReports, Samplings, Events, Labels
<1>8. Related(RowsAs(Oneself(HostPids), Oneself(HostTimes)), r.exited, s.exited)
  BY <1>1, <1>2, ListAsItself
<1> QED
  BY <1>2, <1>3, <1>4, <1>5, <1>6, <1>7, <1>8 DEF Alike, s

LEMMA ElsewhereAlike ==
    ASSUME PrivacyAssumption, private \in MeasuredReports, Elsewhere
    PROVE  private' \in MeasuredReports /\ \A kind : Redacted(private', kind) = Redacted(private, kind)
<1> DEFINE Shown(f, g, d) == Alike(f, g, d, private, private')
<1>1. ASSUME NEW f, NEW g, NEW d \in Int, Shown(f, g, d), Renames(f, HostPids), Renames(g, HostTimes)
      PROVE  private' \in MeasuredReports /\ \A kind : Redacted(private', kind) = Redacted(private, kind)
  BY <1>1, RedactedAlike DEF Alike
<1>2. Renames(Oneself(HostPids), HostPids) /\ Renames(Oneself(HostTimes), HostTimes)
  BY OneselfRenames
<1>3. ASSUME NEW p \in HostPids, NEW q \in HostPids,
             private' = OfEach([row \in ProcessRows |-> [row EXCEPT !.pid = Swap(p, q, @), !.ppid = Swap(p, q, @)]])
      PROVE  private' \in MeasuredReports /\ \A kind : Redacted(private', kind) = Redacted(private, kind)
  <2>1. Alike(Exchange(HostPids, p, q), Oneself(HostTimes), 0, private, private')
    BY <1>3, PidsChange
  <2> QED
    BY <1>1, <1>2, <2>1, ExchangeRenames
<1>4. ASSUME NEW b \in HostTimes, NEW c \in HostTimes,
             private' = OfEach([row \in ProcessRows |-> [row EXCEPT !.create_time = Swap(b, c, @)]])
      PROVE  private' \in MeasuredReports /\ \A kind : Redacted(private', kind) = Redacted(private, kind)
  <2>1. Alike(Oneself(HostPids), Exchange(HostTimes, b, c), 0, private, private')
    BY <1>4, BirthsChange
  <2> QED
    BY <1>1, <1>2, <2>1, ExchangeRenames
<1>5. ASSUME NEW text \in Texts,
             private' = OfEach([row \in ProcessRows |->
                                  [row EXCEPT !.name = text, !.unlisted = text,
                                              !.status = IF @ \in States THEN @ ELSE text]])
      PROVE  private' \in MeasuredReports /\ \A kind : Redacted(private', kind) = Redacted(private, kind)
  <2>1. Alike(Oneself(HostPids), Oneself(HostTimes), 0, private, private')
    BY <1>5, NamesChange
  <2> QED
    BY <1>1, <1>2, <2>1
<1>6. CASE private' = ClockChanged(private)
  <2>1. Alike(Oneself(HostPids), Oneself(HostTimes), 1, private, private')
    BY <1>6, ClockChange
  <2> QED
    BY <1>1, <1>2, <2>1
<1>7. ASSUME NEW text \in Texts, private' = TextChanged(private, text)
      PROVE  private' \in MeasuredReports /\ \A kind : Redacted(private', kind) = Redacted(private, kind)
  <2>1. Alike(Oneself(HostPids), Oneself(HostTimes), 0, private, private')
    BY <1>7, TextChange
  <2> QED
    BY <1>1, <1>2, <2>1
<1> QED
  BY <1>3, <1>4, <1>5, <1>6, <1>7, Zenon DEF Elsewhere, ClockChanged, TextChanged

-----------------------------------------------------------------------------
\* The rows of a shared report are those of the report, redacted one by one;
\* of the minimal profile, only those of the samples.
ShownRows(r, kind) == {RedactedRow(r, kind, x) : x \in ProcessRows}
RowShown(r, kind) == {p \in ProcessRows \X ShownRows(r, kind) : p[2] = RedactedRow(r, kind, p[1])}

LEMMA ListShown ==
    ASSUME NEW r, NEW kind, NEW a \in Seq(ProcessRows)
    PROVE  /\ RowsOf(r, kind, a) \in Seq(ShownRows(r, kind))
           /\ Related(RowShown(r, kind), a, RowsOf(r, kind, a))
<1> DEFINE Y == ShownRows(r, kind)
           b == RowsOf(r, kind, a)
<1>1. Len(a) \in Nat /\ DOMAIN a = 1..Len(a) /\ \A i \in 1..Len(a) : a[i] \in ProcessRows
  OBVIOUS
<1>2. b = [i \in 1..Len(a) |-> b[i]] /\ \A i \in 1..Len(a) : b[i] = RedactedRow(r, kind, a[i])
  BY <1>1 DEF RowsOf, Mapped
<1> HIDE DEF b
<1>3. \A i \in 1..Len(a) : b[i] \in Y /\ <<a[i], b[i]>> \in RowShown(r, kind)
  BY <1>1, <1>2 DEF RowShown, ShownRows
<1> HIDE DEF Y
<1>4. b \in Seq(Y) /\ Len(b) = Len(a)
  BY <1>1, <1>2, <1>3, ListOf
<1> QED
  BY <1>3, <1>4 DEF b, Y, Related

LEMMA RowsShown ==
    ASSUME NEW r \in MeasuredReports, NEW kind
    PROVE  LET rows == Rows(r)  public == Rows(Redacted(r, kind))
           IN  /\ rows \in Seq(ProcessRows) /\ Len(public) \in Nat /\ DOMAIN public = 1..Len(public) /\ Len(public) <= Len(rows)
               /\ \A i \in 1..Len(public) : public[i] = RedactedRow(r, kind, rows[i])
<1> DEFINE Y == ShownRows(r, kind)
           R == RowShown(r, kind)
           s == Redacted(r, kind)
           a == r.snapshots
           b == s.snapshots
           J == Joined(ProcessLists(a))
           K == Joined(ProcessLists(b))
<1>1. a \in Seq(Samplings) /\ r.exited \in Seq(ProcessRows)
  BY ReportFields
<1>2. Len(a) \in Nat /\ DOMAIN a = 1..Len(a) /\ \A i \in 1..Len(a) : a[i].processes \in Seq(ProcessRows)
  <2>1. \A x \in Samplings : x.processes \in Seq(ProcessRows)
    BY DEF Samplings
  <2> QED
    BY <1>1, <2>1
<1>3. /\ b = [i \in 1..Len(a) |-> b[i]]
      /\ \A i \in 1..Len(a) : b[i].processes = RowsOf(r, kind, a[i].processes)
  BY <1>2 DEF Redacted, RowsOf, Mapped
<1>4. s.exited = IF kind = "minimal" THEN <<>> ELSE RowsOf(r, kind, r.exited)
  BY DEF Redacted, RowsOf
<1> HIDE DEF s, b, Y, R
<1>5. ASSUME NEW i \in 1..Len(a)
      PROVE  b[i].processes \in Seq(Y) /\ Related(R, a[i].processes, b[i].processes)
  <2> DEFINE c == a[i].processes
  <2>1. c \in Seq(ProcessRows) /\ b[i].processes = RowsOf(r, kind, c)
    BY <1>2, <1>3
  <2> HIDE DEF c
  <2>2. RowsOf(r, kind, c) \in Seq(Y) /\ Related(R, c, RowsOf(r, kind, c))
    BY <2>1, ListShown DEF Y, R
  <2> QED
    BY <2>1, <2>2 DEF c
<1>6. b \in Seq({b[i] : i \in 1..Len(a)}) /\ Len(b) = Len(a)
  BY <1>2, <1>3, ListOf
<1>7. J \in Seq(ProcessRows) /\ K \in Seq(Y) /\ Related(R, J, K)
  BY <1>1, <1>2, <1>5, <1>6, SamplesJoined
<1>8. RowsOf(r, kind, r.exited) \in Seq(Y) /\ Related(R, r.exited, RowsOf(r, kind, r.exited))
  BY <1>1, ListShown DEF Y, R
<1> HIDE DEF J, K, a
<1>9. Rows(r) = J \o r.exited /\ Rows(s) = K \o s.exited
  BY RowsAre DEF J, K, a, b
<1>10. CASE kind = "minimal"
  <2>1. Rows(s) = K
    BY <1>4, <1>7, <1>9, <1>10
  <2>2. /\ Rows(r) \in Seq(ProcessRows) /\ Len(K) <= Len(Rows(r))
        /\ Len(K) \in Nat /\ DOMAIN K = 1..Len(K) /\ \A i \in 1..Len(K) : Rows(r)[i] = J[i]
    BY <1>1, <1>7, <1>9 DEF Related
  <2>3. \A i \in 1..Len(K) : K[i] = RedactedRow(r, kind, J[i])
    BY <1>7 DEF Related, R, RowShown
  <2> QED
    BY <2>1, <2>2, <2>3 DEF s
<1>11. CASE kind # "minimal"
  <2> DEFINE E == RowsOf(r, kind, r.exited)
  <2>1. J \o r.exited \in Seq(ProcessRows) /\ K \o E \in Seq(Y) /\ Related(R, J \o r.exited, K \o E)
    <3> HIDE DEF E
    <3> QED
      BY ONLY <1>1, <1>7, <1>8, RelatedConcat DEF E
  <2>2. Rows(r) \in Seq(ProcessRows) /\ Rows(s) \in Seq(Y) /\ Related(R, Rows(r), Rows(s))
    BY ONLY <1>4, <1>9, <1>11, <2>1
  <2>3. Len(Rows(s)) = Len(Rows(r)) /\ \A i \in 1..Len(Rows(r)) : Rows(s)[i] = RedactedRow(r, kind, Rows(r)[i])
    BY <2>2 DEF Related, R, RowShown
  <2> QED
    BY <2>2, <2>3 DEF s
<1> QED
  BY <1>10, <1>11

\* So they tell apart what the report tells apart.
LEMMA SharedTells ==
    ASSUME NEW r \in MeasuredReports, NEW kind
    PROVE  LET rows == Rows(r)  public == Rows(Redacted(r, kind))
           IN  \A i, j \in DOMAIN public :
                   public[i].create_time = public[j].create_time <=> Same(rows[i], rows[j])
<1> DEFINE rows == Rows(r)
           public == Rows(Redacted(r, kind))
           u == IdentitiesOf(r)
           X == HostPids \X HostTimes
<1>1. /\ rows \in Seq(ProcessRows) /\ Len(public) \in Nat /\ DOMAIN public = 1..Len(public) /\ Len(public) <= Len(rows)
      /\ \A i \in 1..Len(public) : public[i] = RedactedRow(r, kind, rows[i])
  BY RowsShown
<1>2. u = [i \in 1..Len(rows) |-> u[i]] /\ \A i \in 1..Len(rows) : u[i] = <<rows[i].pid, rows[i].create_time>>
  BY <1>1 DEF IdentitiesOf, Mapped
<1>3. \A i \in 1..Len(public) : public[i].create_time = Number(<<rows[i].pid, rows[i].create_time>>, u)
  <2>1. \A x : RedactedRow(r, kind, x).create_time = Number(<<x.pid, x.create_time>>, u)
    BY DEF RedactedRow, Identity
  <2> HIDE DEF public, rows, u
  <2> QED
    BY <1>1, <2>1
<1> HIDE DEF rows, public, u, X
<1>4. \A i \in 1..Len(rows) : u[i] \in X
  <2>1. \A x \in ProcessRows : <<x.pid, x.create_time>> \in X
    BY DEF X, ProcessRows
  <2>2. \A i \in 1..Len(rows) : rows[i] \in ProcessRows
    BY <1>1
  <2> QED
    BY <1>2, <2>1, <2>2
<1>5. u \in Seq(X) /\ Len(u) = Len(rows) /\ Len(rows) \in Nat
  BY <1>1, <1>2, <1>4, ListOf
<1>6. ASSUME NEW i \in 1..Len(public), NEW j \in 1..Len(public)
      PROVE  public[i].create_time = public[j].create_time <=> Same(rows[i], rows[j])
  <2>1. i \in 1..Len(u) /\ j \in 1..Len(u) /\ i \in 1..Len(rows) /\ j \in 1..Len(rows)
    BY <1>1, <1>5
  <2>2. public[i].create_time = Number(u[i], u) /\ public[j].create_time = Number(u[j], u)
    BY <1>2, <1>3, <2>1
  <2>3. Number(u[i], u) = Number(u[j], u) <=> u[i] = u[j]
    BY <1>5, <2>1, NumberTells
  <2>4. u[i] = <<rows[i].pid, rows[i].create_time>> /\ u[j] = <<rows[j].pid, rows[j].create_time>>
    BY <1>2, <2>1
  <2>5. u[i] = u[j] <=> Same(rows[i], rows[j])
    BY <2>4 DEF Same
  <2> QED
    BY <2>2, <2>3, <2>5
<1>7. \A i, j \in DOMAIN public : public[i].create_time = public[j].create_time <=> Same(rows[i], rows[j])
  BY <1>1, <1>6
<1> QED
  BY <1>7 DEF rows, public

\* What is shared is at all times the redaction of the changed report.
PrivacyInv == private \in MeasuredReports /\ Redacted(private, profile) = shared

(***************************************************************************)
(* A shared report is a function of the measurements alone, and it tells   *)
(* processes apart exactly as the report does (redact_report): for any     *)
(* reports, PIDs, times and texts, in both profiles, and however often     *)
(* what is private is changed.                                             *)
(***************************************************************************)
THEOREM SharedAnonymous == PrivacySpec => []SharedIsAnonymous
<1>1. PrivacyInit => PrivacyInv
  BY PrivacyAssumption DEF PrivacyInit, PrivacyInv, PrivacyAssumption
<1>2. PrivacyInv /\ [PrivacyNext]_privacyVars => PrivacyInv'
  <2> SUFFICES ASSUME PrivacyInv, [PrivacyNext]_privacyVars PROVE PrivacyInv'
    OBVIOUS
  <2>1. CASE PrivacyNext
    <3>1. Elsewhere /\ profile' = profile /\ shared' = shared
      BY <2>1 DEF PrivacyNext
    <3>2. private' \in MeasuredReports /\ Redacted(private', profile) = Redacted(private, profile)
      BY <3>1, ElsewhereAlike, PrivacyAssumption DEF PrivacyInv
    <3> QED
      BY <3>1, <3>2 DEF PrivacyInv
  <2>2. CASE UNCHANGED privacyVars
    BY <2>2 DEF PrivacyInv, privacyVars
  <2> QED
    BY <2>1, <2>2
<1>3. PrivacyInv => SharedIsAnonymous
  BY SharedTells DEF PrivacyInv, SharedIsAnonymous
<1> QED
  BY <1>1, <1>2, <1>3, PTL DEF PrivacySpec
=============================================================================
