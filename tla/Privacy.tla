------------------------------ MODULE Privacy ------------------------------
(***************************************************************************)
(* What a shared report tells of the machine it was measured on            *)
(* (redact_report of privacy.py).  Here a report is what the redaction     *)
(* tells apart: the samples with their processes, the events and markers,  *)
(* the processes that are gone.  `private` is the private report, whose    *)
(* private data a step changes; `shared` is the redaction of the first.    *)
(***************************************************************************)
EXTENDS Integers, Sequences, FiniteSets, FiniteSetsExt

CONSTANTS
    PrivateReports, \* the reports measured
    HostPids, HostTimes, Texts,
    MaxChanges

VARIABLES profile, original, private, shared, changes

privacyVars == <<profile, original, private, shared, changes>>

States == {"running", "sleeping"}       \* the states a process may be in
Missing == "missing"

ProcessRows ==
    [pid : HostPids, ppid : HostPids, create_time : HostTimes, name : Texts, unlisted : Texts, status : States \cup Texts,
     private_bytes : Nat]
MeasuredReports ==
    [snapshots : Seq([timestamp : Int, totals : Nat, processes : Seq(ProcessRows)]), exited : Seq(ProcessRows),
     event_log : Seq([timestamp : Int, message : Texts]), markers : Seq([timestamp : Int, label : Texts])]

ASSUME PrivacyAssumption == PrivateReports \subseteq MeasuredReports /\ Texts \cap States = {} /\ MaxChanges \in Nat

Mapped(Op(_), rows) == [i \in DOMAIN rows |-> Op(rows[i])]

\* How many values have appeared when x, which is one of them, first does.
Number(x, rows) == Cardinality({rows[i] : i \in {k \in DOMAIN rows : \A j \in 1..(k - 1) : rows[j] # x}})

Joined(parts) ==
    LET upTo[n \in 0..Len(parts)] == IF n = 0 THEN <<>> ELSE upTo[n - 1] \o parts[n]
    IN upTo[Len(parts)]

\* Every process row of a report, in the order of the document.
Rows(r) == Joined(Mapped(LAMBDA s : s.processes, r.snapshots)) \o r.exited
PidsOf(r) == Joined(Mapped(LAMBDA p : <<p.pid, p.ppid>>, Rows(r)))
IdentitiesOf(r) == Mapped(LAMBDA p : <<p.pid, p.create_time>>, Rows(r))

(***************************************************************************)
(* All times are told from the earliest of the report, on a fixed day.     *)
(***************************************************************************)
Stamps(r) == {r.snapshots[i].timestamp : i \in DOMAIN r.snapshots}
             \cup {r.event_log[i].timestamp : i \in DOMAIN r.event_log}
             \cup {r.markers[i].timestamp : i \in DOMAIN r.markers}
Shifted(r, at) == at - Min(Stamps(r))

(***************************************************************************)
(* A PID becomes the number of its first appearance, a creation time that  *)
(* of the pair it makes with its PID, a name that of its PID.              *)
(***************************************************************************)
Pid(r, p) == Number(p, PidsOf(r))
\* Mutation: a creation time is numbered without its PID.
Identity_TimeOnly(r, row) == Number(row.create_time, Mapped(LAMBDA p : p.create_time, Rows(r)))

Identity(r, row) == Number(<<row.pid, row.create_time>>, IdentitiesOf(r))

Enum(value, allowed) == IF value \in allowed THEN value ELSE Missing

\* Fields nobody listed are not in the result; of the minimal profile,
\* neither are the measurements of each process.
RedactedRow(r, kind, row) ==
    [pid |-> Pid(r, row.pid), ppid |-> Pid(r, row.ppid), create_time |-> Identity(r, row),
     name |-> Pid(r, row.pid), status |-> Enum(row.status, States),
     private_bytes |-> IF kind = "minimal" THEN -1 ELSE row.private_bytes]

Redacted(r, kind) ==
    [snapshots |-> Mapped(LAMBDA s : [timestamp |-> Shifted(r, s.timestamp), totals |-> s.totals,
                                      processes |-> Mapped(LAMBDA p : RedactedRow(r, kind, p), s.processes)],
                          r.snapshots),
     exited |-> IF kind = "minimal" THEN <<>> ELSE Mapped(LAMBDA p : RedactedRow(r, kind, p), r.exited),
     event_log |-> IF kind = "minimal" THEN <<>>
                   ELSE Mapped(LAMBDA e : Shifted(r, e.timestamp), r.event_log),
     markers |-> IF kind = "minimal" THEN <<>>
                 ELSE [i \in DOMAIN r.markers |-> <<i, Shifted(r, r.markers[i].timestamp)>>]]

PrivacyInit ==
    /\ profile \in {"share", "minimal"} /\ original \in PrivateReports /\ private = original
    /\ shared = Redacted(original, profile) /\ changes = 0

-----------------------------------------------------------------------------
(***************************************************************************)
(* The same run on another machine, at another time, of another program.   *)
(***************************************************************************)
OfEach(change) ==
    LET Each(rows) == Mapped(LAMBDA row : change[row], rows)
    IN  [private EXCEPT !.snapshots = Mapped(LAMBDA s : [s EXCEPT !.processes = Each(@)], @), !.exited = Each(@)]
Swap(x, y, v) == IF v = x THEN y ELSE IF v = y THEN x ELSE v
Later(at) == at + 1

Elsewhere ==
    \/ \E p, q \in HostPids :
           private' = OfEach([row \in ProcessRows |-> [row EXCEPT !.pid = Swap(p, q, @), !.ppid = Swap(p, q, @)]])
    \/ \E b, c \in HostTimes :
           private' = OfEach([row \in ProcessRows |-> [row EXCEPT !.create_time = Swap(b, c, @)]])
    \/ \E text \in Texts :
           private' = OfEach([row \in ProcessRows |->
                                [row EXCEPT !.name = text, !.unlisted = text,
                                            !.status = IF @ \in States THEN @ ELSE text]])
    \/ private' = [private EXCEPT
                    !.snapshots = Mapped(LAMBDA s : [s EXCEPT !.timestamp = Later(@)], @),
                    !.event_log = Mapped(LAMBDA e : [e EXCEPT !.timestamp = Later(@)], @),
                    !.markers = Mapped(LAMBDA m : [m EXCEPT !.timestamp = Later(@)], @)]
    \/ \E text \in Texts :
           private' = [private EXCEPT
                        !.event_log = Mapped(LAMBDA e : [e EXCEPT !.message = text], @),
                        !.markers = Mapped(LAMBDA m : [m EXCEPT !.label = text], @)]

PrivacyNext ==
    /\ changes < MaxChanges /\ changes' = changes + 1
    /\ Elsewhere /\ UNCHANGED <<profile, original, shared>>

PrivacySpec == PrivacyInit /\ [][PrivacyNext]_privacyVars

-----------------------------------------------------------------------------
(***************************************************************************)
(* What is shared is a function of the measurements alone: the PIDs, the   *)
(* creation times, the date, the names, the texts and every field that is  *)
(* not listed leave no trace in it.  And it still tells processes apart    *)
(* exactly as the report does, through the reuse of a PID and two that     *)
(* started together.                                                       *)
(***************************************************************************)
Same(p, q) == p.pid = q.pid /\ p.create_time = q.create_time
SharedIsAnonymous ==
    /\ Redacted(private, profile) = shared
    /\ LET rows == Rows(private)  told == Rows(shared)
       IN  \A i, j \in DOMAIN told :
               told[i].create_time = told[j].create_time <=> Same(rows[i], rows[j])
=============================================================================
