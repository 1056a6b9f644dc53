----------------------------- MODULE TargetLog -----------------------------
(***************************************************************************)
(* The captured output of a workload (src/src/workload_logs.py): a thread  *)
(* that empties the pipe of a process and keeps what fits of it, redacted. *)
(*                                                                         *)
(* Output is text "x", the halves "s1" "s2" of a secret and line ends.     *)
(* Replaced text counts as one character.                                  *)
(***************************************************************************)
EXTENDS Naturals, SequencesExt

CONSTANTS
    Capacity,  \* of the pipe
    LineLimit, \* MAX_LINE_BYTES
    LogLimit,  \* self.limit
    Outputs    \* what a process may write in all: sequences of characters

ASSUME TargetLogAssumption ==
    /\ {Capacity, LineLimit, LogLimit} \subseteq Nat \ {0}
    /\ Outputs \subseteq Seq({"x", "s1", "s2", "nl"})

VARIABLES
    output,  \* all the process would write
    wrote,   \* how much of it is written
    taken,   \* how much of it was read
    ended,   \* nobody has the writing end any more
    log,     \* pending, long, omitted, truncated and the file
    failed,  \* self.error
    stopping,\* "no", "asked", "late" (0.5 s are over) or "given up"
    reader   \* "running" or "closed"

targetLogVars == <<output, wrote, taken, ended, log, failed, stopping, reader>>

TargetLogInit ==
    /\ output \in Outputs /\ wrote = 0 /\ taken = 0 /\ ended = FALSE
    /\ log = [pending |-> <<>>, long |-> FALSE, omitted |-> 0, truncated |-> FALSE, file |-> <<>>]
    /\ failed = FALSE /\ stopping = "no" /\ reader = "running"

Redact(done, c) ==
    IF c = "s2" /\ done # <<>> /\ done[Len(done)] = "s1" THEN [done EXCEPT ![Len(done)] = "r"] ELSE Append(done, c)

Redacted(line) ==
    LET upTo[n \in 0..Len(line)] == IF n = 0 THEN <<>> ELSE Redact(upTo[n - 1], line[n])
    IN upTo[Len(line)]

\* Once a line does not fit, later ones are left out too.
LogLine(l) ==
    LET data == Redacted(l.pending)
    IN IF Len(l.file) + Len(data) > LogLimit THEN [l EXCEPT !.truncated = TRUE]
       ELSE IF l.truncated THEN l
       ELSE [l EXCEPT !.file = @ \o data]

\* Mutation: text is redacted and written as it comes.
Consumed_ByChunk(l, chunk) == [LogLine([l EXCEPT !.pending = chunk]) EXCEPT !.pending = <<>>]
Hold(m, c) ==
    IF m.long THEN m
    ELSE IF Len(m.pending) = LineLimit
    THEN [m EXCEPT !.pending = <<>>, !.long = TRUE, !.omitted = @ + 1, !.truncated = TRUE]
    ELSE [m EXCEPT !.pending = Append(@, c)]
EndLine(m) == [(IF m.long THEN m ELSE LogLine(m)) EXCEPT !.pending = <<>>, !.long = FALSE]

Consumed(l, chunk) ==
    LET upTo[n \in 0..Len(chunk)] ==
          IF n = 0 THEN l
          ELSE IF chunk[n] = "nl" THEN EndLine(Hold(upTo[n - 1], "nl")) ELSE Hold(upTo[n - 1], chunk[n])
    IN upTo[Len(chunk)]

Unread == SubSeq(output, taken + 1, wrote)

-----------------------------------------------------------------------------
(* The process *)

WriteOutput ==
    /\ ~ended /\ reader = "running" /\ Len(Unread) < Capacity /\ wrote < Len(output)
    /\ wrote' = wrote + 1
    /\ UNCHANGED <<output, taken, ended, log, failed, stopping, reader>>

CloseOutput ==
    /\ ~ended /\ ended' = TRUE /\ UNCHANGED <<output, wrote, taken, log, failed, stopping, reader>>

-----------------------------------------------------------------------------
(* _drain *)

\* Mutation: a full log is not read any further.
Reads_UntilFull == Unread # <<>> /\ ~log.truncated
Reads == Unread # <<>>

ReadChunk ==
    /\ reader = "running" /\ stopping # "late" /\ Reads
    /\ \E n \in 1..Len(Unread) :
         /\ taken' = taken + n
         /\ log' = Consumed(log, SubSeq(Unread, 1, n))
    /\ UNCHANGED <<output, wrote, ended, failed, stopping, reader>>

\* The last line may have no end.
Closed(l) == IF l.pending = <<>> \/ l.long THEN l ELSE LogLine(l)

\* At the end of the pipe, or when it is empty and stop() was called.
FinishLog ==
    /\ reader = "running" /\ Unread = <<>> /\ (ended \/ stopping # "no")
    /\ reader' = "closed" /\ log' = Closed(log)
    /\ UNCHANGED <<output, wrote, taken, ended, failed, stopping>>

\* Mutation: the deadline is noted after the line that is pending.
CutLog_NotedLate ==
    /\ reader = "running" /\ stopping = "late"
    /\ reader' = "closed" /\ log' = [Closed(log) EXCEPT !.truncated = TRUE]
    /\ UNCHANGED <<output, wrote, taken, ended, failed, stopping>>

\* At the deadline the log is truncated, and so is the line that is pending.
CutLog ==
    /\ reader = "running" /\ stopping = "late"
    /\ reader' = "closed" /\ log' = Closed([log EXCEPT !.truncated = TRUE])
    /\ UNCHANGED <<output, wrote, taken, ended, failed, stopping>>

\* The file or the pipe reports an error: what was pending is dropped.
LogBreaks ==
    /\ reader = "running" /\ reader' = "closed" /\ failed' = TRUE
    /\ UNCHANGED <<output, wrote, taken, ended, log, stopping>>

-----------------------------------------------------------------------------
(* stop *)

StopLog ==
    /\ stopping = "no" /\ stopping' = "asked" /\ UNCHANGED <<output, wrote, taken, ended, log, failed, reader>>

LogTimeUp ==
    /\ stopping = "asked" /\ reader = "running" /\ stopping' = "late"
    /\ UNCHANGED <<output, wrote, taken, ended, log, failed, reader>>

\* join(2) came back and the thread still runs.
GiveUpLog ==
    /\ stopping = "late" /\ reader = "running" /\ ~failed /\ failed' = TRUE
    /\ UNCHANGED <<output, wrote, taken, ended, log, stopping, reader>>

LogReader == ReadChunk \/ FinishLog \/ CutLog

TargetLogNext ==
    \/ WriteOutput \/ CloseOutput \/ LogReader \/ LogBreaks \/ StopLog \/ LogTimeUp \/ GiveUpLog

(* The thread is never blocked: it polls a pipe that does not block.       *)
TargetLogFairness == WF_targetLogVars(LogReader)

TargetLogSpec == TargetLogInit /\ [][TargetLogNext]_targetLogVars /\ TargetLogFairness

-----------------------------------------------------------------------------
\* Nothing but whole lines of what was read.
OfWholeLines ==
    \E n \in 0..taken : (n = 0 \/ output[n] = "nl") /\ IsPrefix(log.file, Redacted(SubSeq(output, 1, n)))

(* What is on disk is the start of what the process wrote with every       *)
(* secret of it replaced, in whatever pieces it was read and wherever a    *)
(* limit or the deadline of a stop cut it: it is of whole lines, and an    *)
(* unfinished one is only added at the end of all that was written.  It is *)
(* all of that, unless the record says that it was truncated or could not  *)
(* be stored (BoundedLog, "redaction runs on complete lines").             *)
LogIsFaithful ==
    LET whole == Redacted(SubSeq(output, 1, wrote))
    IN /\ OfWholeLines \/ (reader = "closed" /\ taken = wrote)
       /\ IsPrefix(log.file, whole) /\ Len(log.file) <= LogLimit
       /\ reader = "closed" /\ ~log.truncated /\ ~failed => log.file = whole
       /\ log.omitted > 0 => log.truncated

(* "Redaction runs on complete UTF-8 lines ... rather than retaining       *)
(* secret fragments" (workload_logs.py:48): what is on disk is the start   *)
(* of what the process would write with every secret replaced, also where  *)
(* it ends in the middle of one (_drain).                                  *)
NoSecretFragment == IsPrefix(log.file, Redacted(output))

(* A process is not held up by its log, however much it writes             *)
(* (BoundedLog, "drain a pipe even after its file fills").                 *)
PipeDrains == (Len(Unread) = Capacity) ~> (Len(Unread) < Capacity \/ reader = "closed")
=============================================================================
