----------------------------- MODULE Checkpoint -----------------------------
(***************************************************************************)
(* The checkpoint file of a monitoring session (src/src/checkpoints.py and *)
(* session.py): a prefix of the session that the main thread saves as it   *)
(* polls, while its sampling thread goes on, and that `recover` or the     *)
(* agent turns into a report.  All sessions here are given the same path,  *)
(* which an operator may have done.  A session may die between any two     *)
(* steps, which frees its lock; the file may be moved away, put back and   *)
(* damaged.                                                                *)
(*                                                                         *)
(* A report is the session it is of and the number of samples its facts    *)
(* cover, which is its cutoff; how its snapshots are chosen is in          *)
(* SessionRecord.  Between the look of a write at the path and its         *)
(* replacement nothing holds the file: what happens to it there is not     *)
(* seen by the code.                                                       *)
(***************************************************************************)
EXTENDS Naturals, FiniteSets

CONSTANTS
    Writers,     \* sessions, each in a process of its own
    NoOne,       \* no session; no file
    Cadence,     \* checkpoint_interval
    MaxErrors,   \* MONITOR_ERROR_LIMIT
    MaxSampled,  \* bound: samples of a session
    MaxFaults,   \* bound: writes that fail, moves and damages of the file
    MaxClock     \* bound: the monotonic clock

Reports == [of : Writers, cutoff : Nat, shown : Nat, at : Nat, intact : BOOLEAN]

ASSUME CheckpointAssumption ==
    /\ Cadence \in Nat \ {0} /\ MaxErrors \in Nat /\ MaxSampled \in Nat /\ MaxFaults \in Nat /\ MaxClock \in Nat
    /\ NoOne \notin Writers \cup Reports

VARIABLES
    clock, faults,
    saving,    \* what the main thread of each session is doing
    sampled,   \* SessionFacts.taken
    drained,   \* samples the main thread has drained
    due,       \* _checkpoint_next
    draft,     \* the report that is being written
    written,   \* history: when the last one written was captured
    polled,    \* history: when it last asked whether one is due
    errors,    \* _monitor_errors
    holder,    \* the session that holds the .lock file
    file,      \* the checkpoint
    aside,     \* one that was moved away
    recovered, \* what the last recovery left: a pair of reports, or only its JSON
    overtaken  \* history: sessions whose last look at the path is out of date

sessionState == <<saving, sampled, drained, due, draft, written, polled, errors>>
checkpointVars == <<clock, faults, sessionState, holder, file, aside, recovered, overtaken>>

CheckpointInit ==
    /\ clock = 0 /\ faults = 0
    /\ saving = [s \in Writers |-> "new"]
    /\ sampled = [s \in Writers |-> 0] /\ drained = sampled
    /\ due = [s \in Writers |-> 0] /\ written = due /\ polled = due
    /\ draft = [s \in Writers |-> NoOne]
    /\ errors = [s \in Writers |-> {}]
    /\ holder = NoOne /\ file = NoOne /\ aside = NoOne /\ recovered = NoOne
    /\ overtaken = {}

To(s, next) == saving' = [saving EXCEPT ![s] = next]

\* _note_monitor_error
NoteError(s, error) ==
    errors' = [errors EXCEPT ![s] = IF Cardinality(@) < MaxErrors THEN @ \cup {error} ELSE @]

-----------------------------------------------------------------------------
(* A session *)

\* Mutation: the lock of another session is not respected.
LockFree_Always == TRUE
LockFree == holder = NoOne

\* CheckpointStore.__init__: a path that is taken ends the start.
OpenStore(s) ==
    /\ saving[s] = "new"
    /\ IF LockFree /\ file = NoOne
       THEN holder' = s /\ To(s, "starting") ELSE To(s, "over") /\ UNCHANGED holder
    /\ UNCHANGED <<clock, faults, sampled, drained, due, draft, written, polled, errors, file, aside, recovered, overtaken>>

\* The first sample is taken by the main thread, before the others.
Started(s) ==
    /\ saving[s] = "starting"
    /\ sampled' = [sampled EXCEPT ![s] = 1] /\ drained' = [drained EXCEPT ![s] = 1]
    /\ To(s, "polling")
    /\ UNCHANGED <<clock, faults, due, draft, written, polled, errors, holder, file, aside, recovered, overtaken>>

TakeSample(s) ==
    /\ saving[s] \in {"polling", "monitoring", "captured", "writing"} /\ sampled[s] < MaxSampled
    /\ sampled' = [sampled EXCEPT ![s] = @ + 1]
    /\ UNCHANGED <<clock, faults, saving, drained, due, draft, written, polled, errors, holder, file, aside, recovered, overtaken>>

\* Another part of the session has an error to report.
OtherError(s) ==
    /\ saving[s] = "monitoring" /\ errors[s] = {}
    /\ NoteError(s, "other")
    /\ UNCHANGED <<clock, faults, saving, sampled, drained, due, draft, written, polled, holder, file, aside, recovered, overtaken>>

Drain(s) ==
    /\ saving[s] = "monitoring"
    /\ drained' = [drained EXCEPT ![s] = sampled[s]] /\ To(s, "polling")
    /\ UNCHANGED <<clock, faults, sampled, due, draft, written, polled, errors, holder, file, aside, recovered, overtaken>>

NotDue(s) ==
    /\ saving[s] = "polling" /\ clock < due[s]
    /\ polled' = [polled EXCEPT ![s] = clock] /\ To(s, "monitoring")
    /\ UNCHANGED <<clock, faults, sampled, drained, due, draft, written, errors, holder, file, aside, recovered, overtaken>>

\* The facts may be ahead of the samples that were drained.
Capture(s) ==
    /\ saving[s] = "polling" /\ clock >= due[s]
    /\ polled' = [polled EXCEPT ![s] = clock]
    /\ due' = [due EXCEPT ![s] = clock + Cadence]
    /\ draft' = [draft EXCEPT ![s] =
           [of |-> s, cutoff |-> sampled[s], shown |-> drained[s], at |-> clock, intact |-> TRUE]]
    /\ To(s, "captured")
    /\ UNCHANGED <<clock, faults, sampled, drained, written, errors, holder, file, aside, recovered, overtaken>>

\* read_checkpoint: the bytes have their checksum and are of this session.
Matches(copy, s) == copy # NoOne /\ copy.intact /\ copy.of = s

Replaceable(s) == file = NoOne \/ Matches(file, s)

Look(s) ==
    /\ saving[s] = "captured" /\ Replaceable(s)
    /\ To(s, "writing") /\ overtaken' = overtaken \ {s}
    /\ UNCHANGED <<clock, faults, sampled, drained, due, draft, written, polled, errors, holder, file, aside, recovered>>

Replace(s) ==
    /\ saving[s] = "writing"
    /\ file' = draft[s] /\ written' = [written EXCEPT ![s] = draft[s].at]
    /\ draft' = [draft EXCEPT ![s] = NoOne] /\ To(s, "monitoring")
    /\ UNCHANGED <<clock, faults, sampled, drained, due, polled, errors, holder, aside, recovered, overtaken>>

ToldOfFailure(s) == NoteError(s, "checkpoint")

\* The path is another's, or the temporary file could not be written.
WriteFails(s) ==
    /\ \/ saving[s] = "captured" /\ ~Replaceable(s) /\ UNCHANGED faults
       \/ saving[s] \in {"captured", "writing"} /\ faults < MaxFaults /\ faults' = faults + 1
    /\ ToldOfFailure(s) /\ draft' = [draft EXCEPT ![s] = NoOne] /\ To(s, "monitoring")
    /\ UNCHANGED <<clock, sampled, drained, due, written, polled, holder, file, aside, recovered, overtaken>>

\* A shutdown, a start that failed, or a crash; none writes a last checkpoint.
Over(s) ==
    /\ saving[s] \notin {"new", "over"}
    /\ holder' = (IF holder = s THEN NoOne ELSE holder) /\ To(s, "over")
    /\ sampled' = [sampled EXCEPT ![s] = 0] /\ drained' = [drained EXCEPT ![s] = 0]
    /\ due' = [due EXCEPT ![s] = 0] /\ draft' = [draft EXCEPT ![s] = NoOne]
    /\ written' = [written EXCEPT ![s] = 0] /\ polled' = [polled EXCEPT ![s] = 0]
    /\ errors' = [errors EXCEPT ![s] = {}]
    /\ UNCHANGED <<clock, faults, file, aside, recovered, overtaken>>

-----------------------------------------------------------------------------
(* The file, from outside *)

ClockTicks ==
    /\ clock < MaxClock /\ clock' = clock + 1
    /\ UNCHANGED <<faults, sessionState, holder, file, aside, recovered, overtaken>>

MoveAway ==
    /\ file # NoOne /\ aside = NoOne /\ faults < MaxFaults /\ faults' = faults + 1
    /\ aside' = file /\ file' = NoOne
    /\ UNCHANGED <<clock, sessionState, holder, recovered, overtaken>>

PutBack ==
    /\ aside # NoOne /\ file = NoOne
    /\ file' = aside /\ aside' = NoOne /\ overtaken' = Writers
    /\ UNCHANGED <<clock, faults, sessionState, holder, recovered>>

Corrupt ==
    /\ file # NoOne /\ file.intact /\ faults < MaxFaults /\ faults' = faults + 1
    /\ file' = [file EXCEPT !.intact = FALSE] /\ overtaken' = Writers
    /\ UNCHANGED <<clock, sessionState, holder, aside, recovered>>

\* recover --expect-session, and the agent's export of an interrupted
\* session: a fresh report of the prefix; if its HTML fails it says so.
Recover(s) ==
    /\ Matches(file, s)
    /\ \E result \in {"pair", "json"} : recovered' = result
    /\ UNCHANGED <<clock, faults, sessionState, holder, file, aside, overtaken>>

MonitorStep(s) ==
    \/ OpenStore(s) \/ Started(s) \/ TakeSample(s) \/ OtherError(s) \/ Drain(s) \/ NotDue(s)
    \/ Capture(s) \/ Look(s) \/ Replace(s) \/ WriteFails(s) \/ Over(s)

CheckpointNext ==
    \/ \E s \in Writers : MonitorStep(s) \/ Recover(s)
    \/ ClockTicks \/ MoveAway \/ PutBack \/ Corrupt

CheckpointSpec == CheckpointInit /\ [][CheckpointNext]_checkpointVars

-----------------------------------------------------------------------------
(* A session never loses what it had to less of its own, wherever it was   *)
(* moved and whenever it was put back; and only an intact checkpoint of    *)
(* the same session is replaced, whoever else was given the path.  With    *)
(* one exception: what was put at the path, or damaged there, between the  *)
(* look of a write and its replacement is not looked at again              *)
(* (CheckpointStore.write).                                                *)
EvidenceOnlyGrows ==
    [][(file # NoOne /\ file' # NoOne /\ file' # file) =>
          /\ \/ file.intact /\ file'.of = file.of
             \/ \E s \in overtaken : saving[s] = "writing"
          /\ file'.of = file.of => file'.cutoff >= file.cutoff]_checkpointVars

(* After every poll the last checkpoint written is younger than the        *)
(* cadence, or the session's record says that writing failed; unless the   *)
(* record of errors is full (_maybe_checkpoint).                           *)
TailIsBounded ==
    \A s \in Writers : saving[s] = "monitoring" =>
        \/ polled[s] < written[s] + Cadence
        \/ "checkpoint" \in errors[s] \/ Cardinality(errors[s]) = MaxErrors

(* Evidence on disk is only replaced by more of the same session, unless   *)
(* it came there behind the look of a write, and is late only when the     *)
(* session says so.                                                        *)
EvidenceKept == EvidenceOnlyGrows /\ []TailIsBounded
=============================================================================
