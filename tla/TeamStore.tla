----------------------------- MODULE TeamStore -----------------------------
(***************************************************************************)
(* TeamStore (src/src/team_store.py, team_evidence.py, team_governance.py, *)
(* team_backups.py): one project of the team authority.  Every operation   *)
(* is one transaction that checks its credential, purges what has expired, *)
(* and then takes effect or is rolled back to the purge.  An upload or a   *)
(* record is prepared between two such transactions: the first admits the  *)
(* credential, the second does the work, and anything may happen between.  *)
(*                                                                         *)
(* Identifiers are fresh UUIDs, so a row is created under an identifier at *)
(* most once.  A report's payload is its form: "share" or "minimal".       *)
(* A stored report, record or member of a backup counts one towards the    *)
(* quota.  Damaged payloads and the audit trail are left out.              *)
(***************************************************************************)
EXTENDS Naturals, FiniteSets, FiniteSetsExt

CONSTANTS
    Reports, Approvals, Receipts, Backups,  \* identifiers
    Requests,    \* request identifiers of clients
    Admins,      \* credentials with the role admin
    Operators,   \* credentials with the role operator
    None,        \* no request identifier, target or approval
    Policies,    \* the policies an administrator may choose
    TTLs,        \* the lifetimes a record is created with
    History,     \* HISTORY_SECONDS, at least any retention
    MaxTime,     \* bound: the clock
    MaxPending   \* bound: uploads and records prepared at the same time

Records == Approvals \cup Receipts
Creds == Admins \cup Operators

ASSUME PolicyAssumption ==
    \A p \in Policies :
        p \in [minimal : BOOLEAN, retention : 1..History, ttl : Nat \ {0}, quota : Nat \ {0}]
ASSUME LifetimeAssumption == History \in Nat /\ TTLs \subseteq Nat
ASSUME KindAssumption == Approvals \cap Receipts = {}
ASSUME NoneAssumption ==
    None \notin Reports \cup Records \cup Backups \cup Requests \cup Creds

VARIABLES
    now,      \* the clock
    db,       \* the project's rows
    pending,  \* credentials under which an upload or record is being prepared
    made      \* history: what each request created, and when

vars == <<now, db, pending, made>>

Forms == {"share", "minimal"}
Time == 0..MaxTime
Times == 0..(MaxTime + History)

ReportRow ==
    [state : {"none", "active", "deleted", "expired", "forgotten"},
     created : Time, expires : Times, form : Forms]
RecordRow ==
    [state : {"none", "live", "gone"},
     created : Time, expires : Times, links : SUBSET Reports, approval : Approvals \cup {None}]
BackupRow ==
    [state : {"none", "live", "gone"}, created : Time, expires : Times,
     members : SUBSET [id : Reports, form : Forms]]
RequestRow ==
    [state : {"none", "committed", "deleted", "expired"},
     target : Reports \cup Records \cup {None}, created : Time]

TypeOK ==
    /\ now \in Time
    /\ db \in [policy : Policies, deleted : BOOLEAN,
               report : [Reports -> ReportRow], record : [Records -> RecordRow],
               backup : [Backups -> BackupRow], request : [Requests -> RequestRow],
               cred : [Creds -> {"none", "live", "gone"}]]
    /\ pending \subseteq Creds
    /\ made \subseteq [req : Requests, target : Reports \cup Records, at : Time]

NoReport == [state |-> "none", created |-> 0, expires |-> 0, form |-> "share"]
NoRecord == [state |-> "none", created |-> 0, expires |-> 0, links |-> {}, approval |-> None]
NoBackup == [state |-> "none", created |-> 0, expires |-> 0, members |-> {}]
NoRequest == [state |-> "none", target |-> None, created |-> 0]

Init ==
    /\ now = 0
    /\ \E p \in Policies, a \in Admins :
         db = [policy |-> p, deleted |-> FALSE,
               report |-> [r \in Reports |-> NoReport],
               record |-> [k \in Records |-> NoRecord],
               backup |-> [b \in Backups |-> NoBackup],
               request |-> [q \in Requests |-> NoRequest],
               cred |-> [c \in Creds |-> IF c = a THEN "live" ELSE "none"]]
    /\ pending = {}
    /\ made = {}

-----------------------------------------------------------------------------
(* Removing and purging *)

Active(d) == {r \in Reports : d.report[r].state = "active"}
LiveRecords(d) == {k \in Records : d.record[k].state = "live"}
LiveBackups(d) == {b \in Backups : d.backup[b].state = "live"}

\* Stored bytes: a report, a record and each report of a backup count one.
Usage(d) ==
    Cardinality(Active(d)) + Cardinality(LiveRecords(d))
      + Cardinality({saved \in LiveBackups(d) \X Reports :
               \E x \in d.backup[saved[1]].members : x.id = saved[2]})

\* The rows "gone" of the table f are marked; the others stay.
Marked(f, gone, st) ==
    [x \in DOMAIN f |-> IF x \in gone THEN [f[x] EXCEPT !.state = st] ELSE f[x]]

\* The rows "gone" of the table f are deleted: only the state of "blank" is left.
Dropped(f, gone, blank) ==
    [x \in DOMAIN f |-> IF x \in gone THEN blank ELSE f[x]]

GoneRecord == [NoRecord EXCEPT !.state = "gone"]
GoneBackup == [NoBackup EXCEPT !.state = "gone"]

\* A report without its payload: what is left until its history ends.
Emptied(f, ids, st) ==
    [x \in DOMAIN f |->
        IF x \in ids THEN [NoReport EXCEPT !.state = st, !.created = f[x].created] ELSE f[x]]

\* The remembered requests that created one of the targets.
Asking(d, targets) ==
    {q \in Requests : d.request[q].state # "none" /\ d.request[q].target \in targets}

\* An approval takes its receipts along, and no request for any of them can
\* be replayed.
RemoveRecords(d, ids) ==
    LET gone == {k \in LiveRecords(d) : k \in ids \/ d.record[k].approval \in ids}
    IN [d EXCEPT !.record = Dropped(@, gone, GoneRecord),
                 !.request = Marked(@, Asking(d, gone), "deleted")]

\* Mutation: backups keep a removed report.
RemoveReports_BackupsKept(d, ids, st) ==
    LET e == RemoveRecords(d, {k \in LiveRecords(d) : d.record[k].links \cap ids # {}})
    IN [e EXCEPT !.report = Emptied(@, ids, st),
                 !.request = Marked(@, Asking(d, ids), st)]

Holding(d, ids) == {b \in LiveBackups(d) : \E m \in d.backup[b].members : m.id \in ids}

\* A report takes along every backup that holds it and every record that is
\* linked to it.
RemoveReports(d, ids, st) ==
    LET e == RemoveRecords(d, {k \in LiveRecords(d) : d.record[k].links \cap ids # {}})
    IN [e EXCEPT !.backup = Dropped(@, Holding(d, ids), GoneBackup),
                 !.report = Emptied(@, ids, st),
                 !.request = Marked(@, Asking(d, ids), st)]

Purge(d) ==
    LET e == RemoveReports(d, {r \in Active(d) : d.report[r].expires <= now}, "expired")
        f == RemoveRecords(e, {k \in LiveRecords(e) : e.record[k].expires <= now})
    IN [f EXCEPT
          !.backup = Dropped(@, {b \in LiveBackups(f) : f.backup[b].expires <= now}, GoneBackup),
          !.request = Dropped(@, {q \in Requests : f.request[q].created + History <= now}, NoRequest),
          !.report = Dropped(@, {r \in Reports : /\ f.report[r].state \in {"deleted", "expired"}
                                                 /\ f.report[r].created + History <= now},
                             [NoReport EXCEPT !.state = "forgotten"])]

-----------------------------------------------------------------------------
(* Authority *)

\* The credential is good for an operation that needs one of "roles".
Authorized(c, roles) == c \in roles /\ ~db.deleted /\ db.cred[c] = "live"

ByAdmin == \E c \in Admins : Authorized(c, Admins)

\* A transaction that only purges: a read, an operation that is refused after
\* its purge, or local maintenance, which needs no credential.
PurgeOnly(d) ==
    /\ db' = d
    /\ UNCHANGED <<now, pending, made>>

Issue(d, new) ==
    /\ ByAdmin /\ db.cred[new] = "none"
    /\ db' = [d EXCEPT !.cred[new] = "live"]
    /\ UNCHANGED <<now, pending, made>>

Revoke(d, other) ==
    /\ ByAdmin
    /\ db' = [d EXCEPT !.cred[other] = IF @ = "live" THEN "gone" ELSE @]
    /\ UNCHANGED <<now, pending, made>>

\* Local recovery revokes every credential and issues one; it does not bring
\* a deleted project back.
RecoverAdmin(new) ==
    /\ ~db.deleted /\ new \in Admins /\ db.cred[new] = "none"
    /\ db' = [db EXCEPT !.cred = [c \in Creds |->
                IF c = new THEN "live" ELSE IF @[c] = "none" THEN "none" ELSE "gone"]]
    /\ UNCHANGED <<now, pending, made>>

DeleteProject(d) ==
    /\ ByAdmin
    /\ LET e == RemoveReports(d, {r \in Reports : d.report[r].state \notin {"none", "forgotten"}}, "deleted")
           f == RemoveRecords(e, Records)
       IN db' = [f EXCEPT !.backup = Dropped(@, LiveBackups(f), GoneBackup),
                          !.cred = [x \in Creds |-> IF @[x] = "none" THEN "none" ELSE "gone"],
                          !.deleted = TRUE]
    /\ UNCHANGED <<now, pending, made>>

-----------------------------------------------------------------------------
(* Uploads and records: admission, then the work *)

\* The first transaction admits a credential.  Its role never changes, so what
\* it was admitted for matters only in the second.
Begin(d, c) ==
    /\ Authorized(c, Creds)
    /\ Cardinality(pending) < MaxPending
    /\ db' = d
    /\ pending' = pending \cup {c}
    /\ UNCHANGED <<now, made>>

\* Mutation: the credential was checked when the upload began.
Admitted_Cached(c, roles) == c \in roles /\ ~db.deleted

\* The second transaction checks the credential again.
Admitted(c, roles) == Authorized(c, roles)

\* Nothing is remembered of the request.
NewRequest(d, q) == q # None => d.request[q].state = "none"

\* "d" with the request remembered.
Remembered(d, q, target) ==
    IF q = None THEN d
    ELSE [d EXCEPT !.request[q] =
            [state |-> "committed", target |-> target, created |-> now]]

Done(c, q, target) ==
    /\ pending' = pending \ {c}
    /\ made' = IF q = None THEN made
               ELSE made \cup {[req |-> q, target |-> target, at |-> now]}
    /\ UNCHANGED now

Ingest(d, c, q, r) ==
    /\ Admitted(c, Creds)
    /\ NewRequest(d, q)
    /\ d.report[r].state = "none"
    /\ Usage(d) < d.policy.quota
    /\ db' = Remembered(
                [d EXCEPT !.report[r] =
                   [state |-> "active", created |-> now, expires |-> now + d.policy.retention,
                    form |-> IF d.policy.minimal THEN "minimal" ELSE "share"]], q, r)
    /\ Done(c, q, r)

\* A record lives no longer than the reports it is linked to, its approval,
\* and what its creator asks for.
CreateRecord(d, c, q, k, links, approval, ttl) ==
    LET bounds == {now + ttl, now + d.policy.retention}
                    \cup {d.report[r].expires : r \in links}
                    \cup {d.record[a].expires : a \in {approval} \ {None}}
    IN /\ NewRequest(d, q)
       /\ d.record[k].state = "none"
       /\ links \subseteq Active(d)
       /\ approval # None => d.record[approval].state = "live"
       /\ Usage(d) < d.policy.quota
       /\ db' = Remembered(
             [d EXCEPT !.record[k] =
                [state |-> "live", created |-> now, expires |-> Min(bounds),
                 links |-> links, approval |-> approval]], q, k)
       /\ Done(c, q, k)

Approve(d, c, q, k, links, ttl) ==
    /\ Admitted(c, Admins)
    /\ CreateRecord(d, c, q, k, links, None, ttl)

Attest(d, c, q, k, links, approval, ttl) ==
    /\ Admitted(c, Creds)
    /\ CreateRecord(d, c, q, k, links, approval, ttl)

\* The second transaction replays, refuses, or finds its credential gone.
Settle(d, c) ==
    /\ db' = IF Authorized(c, Creds) THEN d ELSE db
    /\ pending' = pending \ {c}
    /\ UNCHANGED <<now, made>>

-----------------------------------------------------------------------------
(* Administration of evidence *)

DeleteReport(d, r) ==
    /\ ByAdmin
    /\ d.report[r].state \notin {"none", "forgotten"}
    /\ db' = RemoveReports(d, {r}, "deleted")
    /\ UNCHANGED <<now, pending, made>>

DeleteRecord(d, k) ==
    /\ ByAdmin
    /\ db' = RemoveRecords(d, {k})
    /\ UNCHANGED <<now, pending, made>>

Backup(d, b) ==
    /\ ByAdmin
    /\ d.backup[b].state = "none" /\ Active(d) # {}
    /\ Usage(d) + Cardinality(Active(d)) <= d.policy.quota
    /\ db' = [d EXCEPT !.backup[b] =
               [state |-> "live", created |-> now,
                expires |-> Min({now + d.policy.ttl} \cup {d.report[r].expires : r \in Active(d)}),
                members |-> {[id |-> r, form |-> d.report[r].form] : r \in Active(d)}]]
    /\ UNCHANGED <<now, pending, made>>

\* Restoring rewrites the reports a backup holds, and only if each of them is
\* active and has the form it was saved in.
Restore(d, b) ==
    /\ ByAdmin
    /\ d.backup[b].state = "live"
    /\ \A m \in d.backup[b].members : m.id \in Active(d) /\ d.report[m.id].form = m.form
    /\ db' = d
    /\ UNCHANGED <<now, pending, made>>

DeleteBackup(d, b) ==
    /\ ByAdmin
    /\ db' = [d EXCEPT !.backup = Dropped(@, {b} \cap LiveBackups(d), GoneBackup)]
    /\ UNCHANGED <<now, pending, made>>

Least(x, y) == IF x < y THEN x ELSE y

\* A stricter profile: no backup keeps the old form, and every report is
\* transformed.
Stricter(d, p) ==
    IF ~p.minimal \/ d.policy.minimal THEN d
    ELSE [d EXCEPT !.backup = Dropped(@, LiveBackups(d), GoneBackup),
                   !.report = [r \in Reports |->
                       IF r \in Active(d) THEN [@[r] EXCEPT !.form = "minimal"] ELSE @[r]]]

\* Mutation: an approval's new expiry does not reach its receipts.
Shortened_ReceiptsMissed(d, p) ==
    LET report == [r \in Reports |->
            [d.report[r] EXCEPT !.expires = Least(@, d.report[r].created + p.retention)]]
    IN [d EXCEPT
          !.report = report,
          !.backup = [b \in Backups |-> [@[b] EXCEPT !.expires = Least(@, d.backup[b].created + p.ttl)]],
          !.record = [k \in Records |-> [@[k] EXCEPT !.expires =
              Min({@, d.record[k].created + p.retention})]]]

\* New lifetimes only shorten old ones; a record follows its reports, and a
\* receipt its approval.
Shortened(d, p) ==
    LET report == [r \in Reports |->
            [d.report[r] EXCEPT !.expires = Least(@, d.report[r].created + p.retention)]]
        backup == [b \in Backups |->
            [d.backup[b] EXCEPT !.expires = Least(@, d.backup[b].created + p.ttl)]]
        linked == [k \in Records |->
            Min({d.record[k].expires, d.record[k].created + p.retention}
                \cup {report[r].expires : r \in d.record[k].links})]
        bound(k) == IF d.record[k].approval = None THEN linked[k]
                    ELSE Least(linked[k], linked[d.record[k].approval])
        record == [k \in Records |-> [d.record[k] EXCEPT !.expires = bound(k)]]
    IN [d EXCEPT !.report = report, !.backup = backup, !.record = record]

\* Everything is rolled back when what is left exceeds the new quota.
UpdatePolicy(d, p) ==
    /\ ByAdmin
    /\ LET e == Purge(Shortened(Stricter(d, p), p))
       IN db' = IF Usage(e) > p.quota THEN d ELSE [e EXCEPT !.policy = p]
    /\ UNCHANGED <<now, pending, made>>

-----------------------------------------------------------------------------
\* From its expiry a credential is as good as deleted: every transaction that
\* meets its row refuses it and deletes the row.
CredExpires(c) ==
    /\ db.cred[c] = "live"
    /\ db' = [db EXCEPT !.cred[c] = "gone"]
    /\ UNCHANGED <<now, pending, made>>

Tick == now < MaxTime /\ now' = now + 1 /\ UNCHANGED <<db, pending, made>>

Local ==
    \/ Tick
    \/ \E c \in Creds : CredExpires(c) \/ RecoverAdmin(c)

\* The operations that open with a purge; "d" are the rows after it.
Transaction(d) ==
    \/ PurgeOnly(d) \/ DeleteProject(d)
    \/ \E c \in Creds : Issue(d, c) \/ Revoke(d, c)
    \/ \E c \in Creds : Begin(d, c)
    \/ \E c \in pending :
          \/ Settle(d, c)
          \/ \E q \in Requests \cup {None}, r \in Reports : Ingest(d, c, q, r)
          \/ \E q \in Requests \cup {None}, links \in SUBSET Reports, ttl \in TTLs :
                \/ \E k \in Approvals : Approve(d, c, q, k, links, ttl)
                \/ \E k \in Receipts, a \in Approvals : Attest(d, c, q, k, links, a, ttl)
    \/ \E r \in Reports : DeleteReport(d, r)
    \/ \E k \in Records : DeleteRecord(d, k)
    \/ \E b \in Backups : Backup(d, b) \/ DeleteBackup(d, b) \/ Restore(d, b)
    \/ \E p \in Policies : UpdatePolicy(d, p)

Next == Local \/ \E d \in {Purge(db)} : Transaction(d)

Spec == Init /\ [][Next]_vars

-----------------------------------------------------------------------------
(* Properties *)

\* A backup that is still there can be restored: every report it holds is
\* active, in the form it was saved in (restore refuses otherwise, and then
\* the backup would be retained evidence nobody can use).
BackupsRestorable ==
    \A b \in LiveBackups(db) : \A m \in db.backup[b].members :
        m.id \in Active(db) /\ db.report[m.id].form = m.form

\* A record rests on evidence that is there: its reports are active, the
\* approval of a receipt is live, and it expires with the first of them.
RecordsGrounded ==
    \A k \in LiveRecords(db) :
        /\ \A r \in db.record[k].links :
              r \in Active(db) /\ db.record[k].expires <= db.report[r].expires
        /\ \A a \in {db.record[k].approval} \ {None} :
              a \in LiveRecords(db) /\ db.record[k].expires <= db.record[a].expires

\* A retry of a committed request finds what it created: a request is marked
\* with whatever removes its report or record, directly or in a cascade.
CommittedIsLive ==
    \A q \in Requests : db.request[q].state = "committed" =>
        db.request[q].target \in Active(db) \cup LiveRecords(db)

\* A request creates one thing as long as it is remembered, however often it
\* is sent and whoever sends it.
OneTargetPerRequest ==
    \A x, y \in made : x.req = y.req /\ x.target # y.target =>
        x.at + History <= y.at \/ y.at + History <= x.at

\* Records and remembered requests rest on evidence that is there, and a
\* request made one thing.
LinksHold == RecordsGrounded /\ CommittedIsLive /\ OneTargetPerRequest

\* Under the minimal profile no full report is stored, backups included.
MinimalMeansMinimal ==
    db.policy.minimal =>
        /\ \A r \in Active(db) : db.report[r].form = "minimal"
        /\ \A b \in LiveBackups(db) : \A m \in db.backup[b].members : m.form = "minimal"

\* A change of a report's form or presence reaches every snapshot of it.
SnapshotsFollow == BackupsRestorable /\ MinimalMeansMinimal

\* What was admitted under a credential that has since been revoked, expired
\* or replaced stores no report, and creates nothing that a request is
\* remembered for.
RevokedNeverCommits ==
    [][(\E r \in Reports : r \in Active(db') \ Active(db)) \/ made' # made
         => \E c \in pending \ pending' : Authorized(c, Creds)]_vars

\* A report whose time has not come stays as it is until it, or its project,
\* is deleted, or a policy is accepted: a refused policy costs nothing.
RefusalKeepsEvidence ==
    [][\A r \in Active(db) : \/ db'.report[r] = db.report[r]
                             \/ db.report[r].expires <= now
                             \/ db'.report[r].state = "deleted"
                             \/ db'.policy # db.policy]_vars

\* Nothing is created without authority, and nothing lost to a refusal.
AuthorityIsKept == RevokedNeverCommits /\ RefusalKeepsEvidence
=============================================================================
