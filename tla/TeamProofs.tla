----------------------------- MODULE TeamProofs -----------------------------
(***************************************************************************)
(* Proofs about TeamStore, for any reports, records, backups, requests,    *)
(* credentials, policies and lifetimes, and about UploadQueue, for any items,*)
(* limits and expiry times.                                                *)
(***************************************************************************)
EXTENDS TeamStore, UploadQueue, FiniteSetTheorems, WellFoundedInduction, TLAPS


(***************************************************************************)
(* What a project keeps, and for how long                                  *)
(***************************************************************************)

\* What a project's rows look like; of records, requests and credentials
\* nothing is said.
Fields(d) ==
    d = [policy |-> d.policy, deleted |-> d.deleted, report |-> d.report, record |-> d.record,
         backup |-> d.backup, request |-> d.request, cred |-> d.cred]

Row(x) == [state |-> x.state, created |-> x.created, expires |-> x.expires, form |-> x.form]
Snapshot(x) == [state |-> x.state, created |-> x.created, expires |-> x.expires, members |-> x.members]

Tables(d) ==
    /\ d.report = [r \in Reports |-> d.report[r]] /\ \A r \in Reports : d.report[r] = Row(d.report[r])
    /\ d.backup = [b \in Backups |-> d.backup[b]] /\ \A b \in Backups : d.backup[b] = Snapshot(d.backup[b])

Restorable(d) ==
    \A b \in Backups : d.backup[b].state = "live" =>
        \A m \in d.backup[b].members :
            /\ m.id \in Reports /\ d.report[m.id].state = "active"
            /\ d.report[m.id].form = m.form

AllMinimal(d) == \A r \in Reports : d.report[r].state = "active" => d.report[r].form = "minimal"

\* The rows are sound under a profile, which may not be theirs yet.
Sound(d, minimal) == Fields(d) /\ Tables(d) /\ Restorable(d) /\ (minimal => AllMinimal(d))

-----------------------------------------------------------------------------
\* A table from which rows were dropped.
LEMMA DroppedTable ==
    ASSUME NEW S, NEW f, f = [x \in S |-> f[x]], NEW gone, NEW blank
    PROVE  /\ Dropped(f, gone, blank) = [x \in S |-> Dropped(f, gone, blank)[x]]
           /\ \A x \in S : x \in gone => Dropped(f, gone, blank)[x] = blank
           /\ \A x \in S : x \notin gone => Dropped(f, gone, blank)[x] = f[x]
  BY DEF Dropped

\* A table of which all rows are blank.
LEMMA EmptiedTable ==
    ASSUME NEW S, NEW f, f = [x \in S |-> f[x]], NEW ids, NEW st
    PROVE  /\ Emptied(f, ids, st) = [x \in S |-> Emptied(f, ids, st)[x]]
           /\ \A x \in S : x \in ids => /\ Emptied(f, ids, st)[x].state = st
                                        /\ Emptied(f, ids, st)[x] = Row(Emptied(f, ids, st)[x])
           /\ \A x \in S : x \notin ids => Emptied(f, ids, st)[x] = f[x]
<1> DEFINE row(x) == [state |-> st, created |-> f[x].created, expires |-> 0, form |-> "share"]
<1>1. \A x \in S : x \in ids => Emptied(f, ids, st)[x] = row(x)
  BY DEF Emptied, NoReport
<1>2. \A x : row(x).state = st /\ row(x) = Row(row(x))
  BY DEF Row
<1> HIDE DEF row
<1> QED
  BY <1>1, <1>2 DEF Emptied

\* A blank row is one that says nothing.
LEMMA Blanks ==
    /\ GoneBackup = Snapshot(GoneBackup) /\ GoneBackup.state # "live"
    /\ [NoReport EXCEPT !.state = "forgotten"] = Row([NoReport EXCEPT !.state = "forgotten"])
    /\ [NoReport EXCEPT !.state = "forgotten"].state # "active"
  BY DEF GoneBackup, NoBackup, NoReport, Snapshot, Row

\* Rows stay sound when reports keep their form or go, and backups keep their
\* members, all of which stay, or go.
LEMMA RowsStaySound ==
    ASSUME NEW d, NEW e, NEW minimal, Sound(d, minimal), Fields(e), Tables(e),
           \A r \in Reports : e.report[r].state = "active" =>
               d.report[r].state = "active" /\ e.report[r].form = d.report[r].form,
           \A b \in Backups : e.backup[b].state = "live" =>
               /\ d.backup[b].state = "live" /\ e.backup[b].members = d.backup[b].members
               /\ \A m \in e.backup[b].members : m.id \in Reports => e.report[m.id].state = "active"
    PROVE  Sound(e, minimal)
<1>1. Restorable(e)
  BY DEF Sound, Restorable
<1>2. ASSUME minimal PROVE AllMinimal(e)
  <2>1. AllMinimal(d)
    BY <1>2 DEF Sound
  <2> QED
    BY <2>1 DEF AllMinimal
<1> QED
  BY <1>1, <1>2 DEF Sound

-----------------------------------------------------------------------------
\* Records come and go beside the reports and their backups.
LEMMA RecordsAside ==
    ASSUME NEW d, NEW ids, NEW minimal, Sound(d, minimal)
    PROVE  LET e == RemoveRecords(d, ids)
           IN Sound(e, minimal) /\ e.policy = d.policy /\ e.report = d.report /\ e.backup = d.backup
<1> DEFINE e == RemoveRecords(d, ids)
<1>1. \E records, requests : e = [d EXCEPT !.record = records, !.request = requests]
  BY DEF RemoveRecords
<1> HIDE DEF e
<1>2. Fields(e) /\ e.policy = d.policy /\ e.report = d.report /\ e.backup = d.backup
  BY <1>1 DEF Sound, Fields
<1>3. Sound(e, minimal)
  BY <1>2 DEF Sound, Tables, Restorable, AllMinimal
<1> QED
  BY <1>2, <1>3 DEF e

\* A removed report takes the backups that hold it along.
LEMMA ReportsGo ==
    ASSUME NEW d, NEW ids, NEW st, st # "active", NEW minimal, Sound(d, minimal)
    PROVE  LET e == RemoveReports(d, ids, st)
           IN /\ Sound(e, minimal) /\ e.policy = d.policy
              /\ \A r \in Reports : IF r \in ids THEN e.report[r].state = st ELSE e.report[r] = d.report[r]
<1> DEFINE c == RemoveRecords(d, {k \in LiveRecords(d) : d.record[k].links \cap ids # {}})
           e == RemoveReports(d, ids, st)
<1>1. Sound(c, minimal) /\ c.policy = d.policy /\ c.report = d.report /\ c.backup = d.backup
  BY RecordsAside
<1> HIDE DEF c
<1>2. e = [c EXCEPT !.backup = Dropped(@, Holding(d, ids), GoneBackup),
                    !.report = Emptied(@, ids, st),
                    !.request = Marked(@, Asking(d, ids), st)]
  BY DEF RemoveReports, c
<1> HIDE DEF e
<1>3. /\ Fields(e) /\ e.policy = d.policy
      /\ e.backup = Dropped(d.backup, Holding(d, ids), GoneBackup)
      /\ e.report = Emptied(d.report, ids, st)
  BY <1>1, <1>2 DEF Sound, Fields
<1>4. /\ e.report = [r \in Reports |-> e.report[r]]
      /\ \A r \in Reports : r \in ids => e.report[r].state = st /\ e.report[r] = Row(e.report[r])
      /\ \A r \in Reports : r \notin ids => e.report[r] = d.report[r]
  BY <1>3, EmptiedTable DEF Sound, Tables
<1>5. /\ e.backup = [b \in Backups |-> e.backup[b]]
      /\ \A b \in Backups : b \in Holding(d, ids) => e.backup[b] = GoneBackup
      /\ \A b \in Backups : b \notin Holding(d, ids) => e.backup[b] = d.backup[b]
  BY <1>3, DroppedTable DEF Sound, Tables
<1>6. Tables(e)
  BY <1>4, <1>5, Blanks DEF Sound, Tables
<1>7. ASSUME NEW b \in Backups, e.backup[b].state = "live"
      PROVE  /\ d.backup[b].state = "live" /\ e.backup[b].members = d.backup[b].members
             /\ \A m \in e.backup[b].members : m.id \in Reports => e.report[m.id].state = "active"
  <2>1. b \notin Holding(d, ids) /\ e.backup[b] = d.backup[b]
    BY <1>5, <1>7, Blanks
  <2>2. \A m \in d.backup[b].members : m.id \notin ids /\ m.id \in Reports /\ d.report[m.id].state = "active"
    BY <1>7, <2>1 DEF Holding, LiveBackups, Sound, Restorable
  <2> QED
    BY <1>4, <1>7, <2>1, <2>2
<1>8. Sound(e, minimal)
  BY <1>3, <1>4, <1>6, <1>7, RowsStaySound
<1> QED
  BY <1>3, <1>4, <1>8 DEF e

\* A purge of what has expired.
LEMMA PurgeKeeps ==
    ASSUME NEW d, NEW minimal, Sound(d, minimal)
    PROVE  LET g == Purge(d)
           IN /\ Sound(g, minimal) /\ g.policy = d.policy
              /\ \A r \in Reports : g.report[r].state = "active" => g.report[r] = d.report[r]
              /\ \A r \in Active(d) : d.report[r].expires <= now \/ g.report[r] = d.report[r]
<1> DEFINE gone == {r \in Active(d) : d.report[r].expires <= now}
           e == RemoveReports(d, gone, "expired")
           f == RemoveRecords(e, {k \in LiveRecords(e) : e.record[k].expires <= now})
           overdue == {b \in LiveBackups(f) : f.backup[b].expires <= now}
           old == {r \in Reports : /\ f.report[r].state \in {"deleted", "expired"}
                                   /\ f.report[r].created + History <= now}
           forgotten == [NoReport EXCEPT !.state = "forgotten"]
           g == Purge(d)
<1>a. "expired" # "active"
  OBVIOUS
<1>b. \A r \in Active(d) : r \in Reports /\ (r \in gone => d.report[r].expires <= now)
  BY DEF Active
<1> HIDE DEF gone
<1>c. /\ Sound(e, minimal) /\ e.policy = d.policy
      /\ \A r \in Reports : IF r \in gone THEN e.report[r].state = "expired" ELSE e.report[r] = d.report[r]
  BY <1>a, ReportsGo
<1> HIDE DEF e
<1>1. /\ Sound(e, minimal) /\ e.policy = d.policy
      /\ \A r \in Reports : e.report[r] = d.report[r] \/ e.report[r].state = "expired"
      /\ \A r \in Active(d) : e.report[r] = d.report[r] \/ d.report[r].expires <= now
  BY <1>b, <1>c
<1>2. Sound(f, minimal) /\ f.policy = d.policy /\ f.report = e.report
  BY <1>1, RecordsAside
<1>3. \E requests : g = [f EXCEPT !.backup = Dropped(@, overdue, GoneBackup), !.request = requests,
                                  !.report = Dropped(@, old, forgotten)]
  BY DEF Purge, e, gone
<1>4. \A r \in old : f.report[r].state # "active"
  OBVIOUS
<1> HIDE DEF f, overdue, old, g, forgotten
<1>5. /\ Fields(g) /\ g.policy = d.policy
      /\ g.backup = Dropped(f.backup, overdue, GoneBackup) /\ g.report = Dropped(f.report, old, forgotten)
  BY <1>2, <1>3 DEF Sound, Fields
<1>6. /\ g.report = [r \in Reports |-> g.report[r]]
      /\ \A r \in Reports : r \in old => g.report[r] = forgotten
      /\ \A r \in Reports : r \notin old => g.report[r] = f.report[r]
  BY <1>2, <1>5, DroppedTable DEF Sound, Tables
<1>7. /\ g.backup = [b \in Backups |-> g.backup[b]]
      /\ \A b \in Backups : b \in overdue => g.backup[b] = GoneBackup
      /\ \A b \in Backups : b \notin overdue => g.backup[b] = f.backup[b]
  BY <1>2, <1>5, DroppedTable DEF Sound, Tables
<1>8. forgotten = Row(forgotten) /\ forgotten.state # "active"
  BY Blanks DEF forgotten
<1>9. Tables(g)
  BY <1>2, <1>6, <1>7, <1>8, Blanks DEF Sound, Tables
<1>10. ASSUME NEW b \in Backups, g.backup[b].state = "live"
       PROVE  /\ f.backup[b].state = "live" /\ g.backup[b].members = f.backup[b].members
              /\ \A m \in g.backup[b].members : m.id \in Reports => g.report[m.id].state = "active"
  <2>1. g.backup[b] = f.backup[b]
    BY <1>7, <1>10, Blanks
  <2>2. \A m \in f.backup[b].members : m.id \in Reports /\ f.report[m.id].state = "active"
    BY <1>2, <1>10, <2>1 DEF Sound, Restorable
  <2> QED
    BY <1>4, <1>6, <1>10, <2>1, <2>2
<1>11. \A r \in Reports : g.report[r].state = "active" =>
           f.report[r].state = "active" /\ g.report[r].form = f.report[r].form
  BY <1>6, <1>8
<1>12. Sound(g, minimal)
  BY <1>2, <1>5, <1>9, <1>10, <1>11, RowsStaySound
<1>13. \A r \in Reports : g.report[r].state = "active" => g.report[r] = d.report[r]
  BY <1>1, <1>2, <1>6, <1>8
<1>14. \A r \in Active(d) : d.report[r].expires <= now \/ g.report[r] = d.report[r]
  BY <1>1, <1>2, <1>4, <1>6 DEF Active
<1> QED
  BY <1>2, <1>5, <1>12, <1>13, <1>14 DEF g

\* A stricter profile transforms every report and keeps no backup of what it
\* was.
LEMMA StricterHolds ==
    ASSUME NEW d, NEW p, Sound(d, d.policy.minimal)
    PROVE  LET e == Stricter(d, p)
           IN /\ Sound(e, p.minimal)
              /\ \A r \in Reports : e.report[r].state = "active" =>
                     /\ d.report[r].state = "active"
                     /\ e.report[r].created = d.report[r].created /\ e.report[r].expires = d.report[r].expires
<1>1. CASE ~p.minimal \/ d.policy.minimal
  BY <1>1 DEF Stricter, Sound
<1>2. CASE ~(~p.minimal \/ d.policy.minimal)
  <2> DEFINE e == Stricter(d, p)
  <2>1. e = [d EXCEPT !.backup = Dropped(@, LiveBackups(d), GoneBackup),
                      !.report = [r \in Reports |->
                          IF r \in Active(d) THEN [@[r] EXCEPT !.form = "minimal"] ELSE @[r]]]
    BY <1>2 DEF Stricter
  <2> HIDE DEF e
  <2>2. /\ Fields(e)
        /\ e.backup = Dropped(d.backup, LiveBackups(d), GoneBackup)
        /\ e.report = [r \in Reports |->
               IF r \in Active(d) THEN [d.report[r] EXCEPT !.form = "minimal"] ELSE d.report[r]]
    BY <2>1 DEF Sound, Fields
  <2>3. /\ e.backup = [b \in Backups |-> e.backup[b]]
        /\ \A b \in Backups : b \in LiveBackups(d) => e.backup[b] = GoneBackup
        /\ \A b \in Backups : b \notin LiveBackups(d) => e.backup[b] = d.backup[b]
    BY <2>2, DroppedTable DEF Sound, Tables
  <2>4. \A r \in Reports :
            /\ d.report[r] = Row(d.report[r])
            /\ r \in Active(d) => e.report[r] = [d.report[r] EXCEPT !.form = "minimal"]
            /\ r \notin Active(d) => e.report[r] = d.report[r]
    BY <2>2 DEF Sound, Tables
  <2>5. \A r \in Reports :
            /\ e.report[r] = Row(e.report[r])
            /\ r \in Active(d) => e.report[r].form = "minimal"
    BY <2>4 DEF Row
  <2>6. Tables(e)
    BY <2>2, <2>3, <2>5, Blanks DEF Sound, Tables
  <2>7. \A b \in Backups : e.backup[b].state # "live"
    BY <2>3, Blanks DEF LiveBackups
  <2>8. \A r \in Reports : e.report[r].state = "active" => e.report[r].form = "minimal"
    BY <2>4, <2>5 DEF Active
  <2>9. \A r \in Reports : e.report[r].state = "active" =>
            /\ d.report[r].state = "active"
            /\ e.report[r].created = d.report[r].created /\ e.report[r].expires = d.report[r].expires
    BY <2>4 DEF Row, Active
  <2> QED
    BY <2>2, <2>6, <2>7, <2>8, <2>9 DEF Sound, Restorable, AllMinimal, e
<1> QED
  BY <1>1, <1>2

\* How long a report lives under a policy.
Capped(x, p) == Least(x.expires, x.created + p.retention)

\* New lifetimes change no form and no member.
LEMMA ShortenedKeeps ==
    ASSUME NEW d, NEW p, NEW minimal, NEW e, Sound(d, minimal), e = Shortened(d, p)
    PROVE  /\ Sound(e, minimal)
           /\ \A r \in Reports :
                  /\ e.report[r].state = d.report[r].state /\ e.report[r].form = d.report[r].form
                  /\ e.report[r].created = d.report[r].created
                  /\ e.report[r].expires = Capped(d.report[r], p)
<1> DEFINE report == [r \in Reports |->
               [d.report[r] EXCEPT !.expires = Least(@, d.report[r].created + p.retention)]]
           backup == [b \in Backups |->
               [d.backup[b] EXCEPT !.expires = Least(@, d.backup[b].created + p.ttl)]]
<1>1. \E record : e = [d EXCEPT !.report = report, !.backup = backup, !.record = record]
  BY DEF Shortened
<1>2. Fields(e) /\ e.report = report /\ e.backup = backup
  BY <1>1 DEF Sound, Fields
<1>3. \A r \in Reports :
          /\ d.report[r] = Row(d.report[r])
          /\ \E expires : e.report[r] = [d.report[r] EXCEPT !.expires = expires]
  <2>1. \A r \in Reports : d.report[r] = Row(d.report[r])
    BY DEF Sound, Tables
  <2>2. ASSUME NEW r \in Reports
        PROVE  e.report[r] = [d.report[r] EXCEPT !.expires = Least(d.report[r].expires, d.report[r].created + p.retention)]
    BY <1>2
  <2> QED
    BY <2>1, <2>2
<1>4. \A b \in Backups :
          /\ d.backup[b] = Snapshot(d.backup[b])
          /\ \E expires : e.backup[b] = [d.backup[b] EXCEPT !.expires = expires]
  BY <1>2 DEF Sound, Tables
<1>5. \A r \in Reports : /\ e.report[r] = Row(e.report[r]) /\ e.report[r].state = d.report[r].state
                         /\ e.report[r].form = d.report[r].form
  BY <1>3 DEF Row
<1>6. \A b \in Backups : /\ e.backup[b] = Snapshot(e.backup[b]) /\ e.backup[b].state = d.backup[b].state
                         /\ e.backup[b].members = d.backup[b].members
  BY <1>4 DEF Snapshot
<1>7. Tables(e)
  BY <1>2, <1>5, <1>6 DEF Tables
<1>8. \A b \in Backups : e.backup[b].state = "live" =>
          \A m \in e.backup[b].members : m.id \in Reports => e.report[m.id].state = "active"
  BY <1>5, <1>6 DEF Sound, Restorable
<1>9. \A r \in Reports : e.report[r].state = "active" =>
          d.report[r].state = "active" /\ e.report[r].form = d.report[r].form
  BY <1>5
<1>10. \A b \in Backups : e.backup[b].state = "live" =>
          /\ d.backup[b].state = "live" /\ e.backup[b].members = d.backup[b].members
          /\ \A m \in e.backup[b].members : m.id \in Reports => e.report[m.id].state = "active"
  BY <1>6, <1>8
<1>11. \A r \in Reports :
          /\ d.report[r] = Row(d.report[r])
          /\ e.report[r] = [d.report[r] EXCEPT !.expires = Capped(d.report[r], p)]
  BY <1>2 DEF Sound, Tables, Capped
<1>12. \A r \in Reports :
           /\ e.report[r].state = d.report[r].state /\ e.report[r].form = d.report[r].form
           /\ e.report[r].created = d.report[r].created
           /\ e.report[r].expires = Capped(d.report[r], p)
  BY <1>11 DEF Row
<1> HIDE DEF report, backup
<1>13. Sound(e, minimal)
  BY <1>2, <1>7, <1>9, <1>10, RowsStaySound
<1> QED
  BY <1>13, <1>12

-----------------------------------------------------------------------------
\* What is neither a report nor a backup does not matter.
LEMMA Aside ==
    ASSUME NEW d, NEW e, NEW minimal, Sound(d, minimal), Fields(e), e.report = d.report, e.backup = d.backup
    PROVE  Sound(e, minimal)
  BY DEF Sound, Tables, Restorable, AllMinimal

\* Requests are remembered without touching a snapshot.
LEMMA RememberedAside ==
    ASSUME NEW d, NEW q, NEW target, NEW minimal, Sound(d, minimal)
    PROVE  LET e == Remembered(d, q, target)
           IN Sound(e, minimal) /\ e.policy = d.policy /\ e.report = d.report
<1> DEFINE e == Remembered(d, q, target)
<1>1. e = d \/ \E requests : e = [d EXCEPT !.request = requests]
  BY DEF Remembered
<1> HIDE DEF e
<1>2. Fields(e) /\ e.policy = d.policy /\ e.report = d.report /\ e.backup = d.backup
  BY <1>1 DEF Sound, Fields
<1> QED
  BY <1>2, Aside DEF e

\* Backups are dropped.
LEMMA BackupsGo ==
    ASSUME NEW d, NEW e, NEW gone, NEW minimal, Sound(d, minimal), Fields(e), e.report = d.report,
           e.backup = Dropped(d.backup, gone, GoneBackup)
    PROVE  Sound(e, minimal)
<1>1. /\ e.backup = [b \in Backups |-> e.backup[b]]
      /\ \A b \in Backups : b \in gone => e.backup[b] = GoneBackup
      /\ \A b \in Backups : b \notin gone => e.backup[b] = d.backup[b]
  BY DroppedTable DEF Sound, Tables
<1>2. Tables(e)
  BY <1>1, Blanks DEF Sound, Tables
<1>3. ASSUME NEW b \in Backups, e.backup[b].state = "live" PROVE e.backup[b] = d.backup[b]
  BY <1>1, <1>3, Blanks
<1>4. Restorable(e)
  BY <1>3 DEF Sound, Restorable
<1> QED
  BY <1>2, <1>4 DEF Sound, AllMinimal

\* A report is stored under an identifier that nothing refers to yet.
LEMMA ReportComes ==
    ASSUME NEW d, Sound(d, d.policy.minimal), NEW r \in Reports, d.report[r].state = "none", NEW row, row = Row(row),
           d.policy.minimal => row.form = "minimal"
    PROVE  LET e == [d EXCEPT !.report[r] = row] IN Sound(e, d.policy.minimal) /\ e.policy = d.policy
<1> DEFINE e == [d EXCEPT !.report[r] = row]
<1>1. Fields(e) /\ e.policy = d.policy /\ e.backup = d.backup /\ e.report = [d.report EXCEPT ![r] = row]
  BY DEF Sound, Fields
<1> HIDE DEF e
<1>2. /\ e.report = [x \in Reports |-> e.report[x]] /\ e.report[r] = row
      /\ \A x \in Reports : x # r => e.report[x] = d.report[x]
  BY <1>1 DEF Sound, Tables
<1>3. Tables(e)
  BY <1>1, <1>2 DEF Sound, Tables
<1>4. Restorable(e)
  <2> SUFFICES ASSUME NEW b \in Backups, d.backup[b].state = "live", NEW m \in d.backup[b].members
               PROVE  /\ m.id \in Reports /\ e.report[m.id].state = "active"
                      /\ e.report[m.id].form = m.form
    BY <1>1 DEF Restorable
  <2>1. m.id \in Reports /\ d.report[m.id].state = "active" /\ d.report[m.id].form = m.form
    BY DEF Sound, Restorable
  <2>2. m.id # r
    BY <2>1
  <2> QED
    BY <1>2, <2>1, <2>2
<1>5. ASSUME d.policy.minimal PROVE AllMinimal(e)
  <2>1. AllMinimal(d) /\ row.form = "minimal"
    BY <1>5 DEF Sound
  <2> QED
    BY <1>2, <2>1 DEF AllMinimal
<1> QED
  BY <1>1, <1>3, <1>4, <1>5 DEF Sound, e

\* A backup is taken of what is active, in the form it has.
LEMMA BackupComes ==
    ASSUME NEW d, NEW minimal, Sound(d, minimal), NEW b \in Backups, NEW x, x = Snapshot(x),
           x.members = {[id |-> r, form |-> d.report[r].form] : r \in Active(d)}
    PROVE  LET e == [d EXCEPT !.backup[b] = x] IN Sound(e, minimal) /\ e.policy = d.policy
<1> DEFINE e == [d EXCEPT !.backup[b] = x]
<1>1. Fields(e) /\ e.policy = d.policy /\ e.report = d.report /\ e.backup = [d.backup EXCEPT ![b] = x]
  BY DEF Sound, Fields
<1> HIDE DEF e
<1>2. /\ e.backup = [y \in Backups |-> e.backup[y]] /\ e.backup[b] = x
      /\ \A y \in Backups : y # b => e.backup[y] = d.backup[y]
  BY <1>1 DEF Sound, Tables
<1>3. Tables(e)
  BY <1>1, <1>2 DEF Sound, Tables
<1>4. \A m \in x.members : m.id \in Reports /\ d.report[m.id].state = "active" /\ d.report[m.id].form = m.form
  BY DEF Active
<1>5. Restorable(e)
  BY <1>1, <1>2, <1>4 DEF Sound, Restorable
<1> QED
  BY <1>1, <1>3, <1>5 DEF Sound, AllMinimal, e

-----------------------------------------------------------------------------
StoreInv == Sound(db, db.policy.minimal)

\* Credentials come and go without touching a snapshot.
LEMMA CredentialsAside ==
    ASSUME StoreInv, NEW d, Sound(d, d.policy.minimal), NEW c,
           Issue(d, c) \/ Revoke(d, c) \/ CredExpires(c) \/ RecoverAdmin(c)
    PROVE  StoreInv'
<1>1. PICK o \in {d, db} : \E cred : db' = [o EXCEPT !.cred = cred]
  BY DEF Issue, Revoke, CredExpires, RecoverAdmin
<1>2. Sound(o, o.policy.minimal)
  BY <1>1 DEF StoreInv
<1>3. Fields(db') /\ db'.policy = o.policy /\ db'.report = o.report /\ db'.backup = o.backup
  BY <1>1, <1>2 DEF Sound, Fields
<1>4. Sound(db', o.policy.minimal)
  BY <1>2, <1>3, Aside
<1> QED
  BY <1>3, <1>4 DEF StoreInv

\* Reports, records and backups are stored under the policy of the project.
LEMMA EvidenceComes ==
    ASSUME NEW d, Sound(d, d.policy.minimal), NEW c, NEW q,
           \/ \E r \in Reports : Ingest(d, c, q, r)
           \/ \E links, ttl, k, a : Approve(d, c, q, k, links, ttl) \/ Attest(d, c, q, k, links, a, ttl)
           \/ \E b \in Backups : Backup(d, b)
    PROVE  StoreInv'
<1>1. ASSUME NEW r \in Reports, Ingest(d, c, q, r) PROVE StoreInv'
  <2> DEFINE row == [state |-> "active", created |-> now, expires |-> now + d.policy.retention,
                     form |-> IF d.policy.minimal THEN "minimal" ELSE "share"]
             e == [d EXCEPT !.report[r] = row]
  <2>1. d.report[r].state = "none" /\ db' = Remembered(e, q, r)
    BY <1>1 DEF Ingest
  <2>2. row = Row(row) /\ (d.policy.minimal => row.form = "minimal")
    BY DEF Row
  <2> HIDE DEF row
  <2>3. Sound(e, d.policy.minimal) /\ e.policy = d.policy
    BY <2>1, <2>2, ReportComes
  <2> HIDE DEF e
  <2> QED
    BY <2>1, <2>3, RememberedAside DEF StoreInv
<1>2. ASSUME NEW links, NEW approval, NEW k, NEW ttl, CreateRecord(d, c, q, k, links, approval, ttl)
      PROVE  StoreInv'
  <2>1. PICK record : db' = Remembered([d EXCEPT !.record = record], q, k)
    BY <1>2 DEF CreateRecord
  <2> DEFINE e == [d EXCEPT !.record = record]
  <2>2. Fields(e) /\ e.policy = d.policy /\ e.report = d.report /\ e.backup = d.backup
    BY DEF Sound, Fields
  <2> HIDE DEF e
  <2>3. Sound(e, d.policy.minimal)
    BY <2>2, Aside
  <2>4. db' = Remembered(e, q, k)
    BY <2>1 DEF e
  <2> QED
    BY <2>2, <2>3, <2>4, RememberedAside DEF StoreInv
<1>3. ASSUME NEW b \in Backups, Backup(d, b) PROVE StoreInv'
  <2>1. PICK expires : db' = [d EXCEPT !.backup[b] =
               [state |-> "live", created |-> now, expires |-> expires,
                members |-> {[id |-> r, form |-> d.report[r].form] : r \in Active(d)}]]
    BY <1>3 DEF Backup
  <2> DEFINE x == [state |-> "live", created |-> now, expires |-> expires,
                   members |-> {[id |-> r, form |-> d.report[r].form] : r \in Active(d)}]
  <2>2. x = Snapshot(x) /\ x.members = {[id |-> r, form |-> d.report[r].form] : r \in Active(d)}
    BY DEF Snapshot
  <2>3. db' = [d EXCEPT !.backup[b] = x]
    BY <2>1
  <2> HIDE DEF x
  <2> QED
    BY <2>2, <2>3, BackupComes DEF StoreInv
<1> QED
  BY <1>1, <1>2, <1>3 DEF Approve, Attest

\* Reports, records, backups or the project are deleted.
LEMMA EvidenceGoes ==
    ASSUME NEW d, Sound(d, d.policy.minimal),
           \/ DeleteProject(d)
           \/ \E r \in Reports : DeleteReport(d, r)
           \/ \E k \in Records : DeleteRecord(d, k)
           \/ \E b \in Backups : DeleteBackup(d, b)
    PROVE  StoreInv'
<1>1. CASE DeleteProject(d)
  <2> DEFINE e == RemoveReports(d, {r \in Reports : d.report[r].state \notin {"none", "forgotten"}}, "deleted")
             f == RemoveRecords(e, Records)
  <2>1. \E cred : db' = [f EXCEPT !.backup = Dropped(@, LiveBackups(f), GoneBackup), !.cred = cred, !.deleted = TRUE]
    BY <1>1 DEF DeleteProject
  <2>2. Sound(e, d.policy.minimal) /\ e.policy = d.policy
    BY ReportsGo
  <2> HIDE DEF e
  <2>3. Sound(f, d.policy.minimal) /\ f.policy = d.policy
    BY <2>2, RecordsAside
  <2> HIDE DEF f
  <2>4. /\ Fields(db') /\ db'.policy = f.policy /\ db'.report = f.report
        /\ db'.backup = Dropped(f.backup, LiveBackups(f), GoneBackup)
    BY <2>1, <2>3 DEF Sound, Fields
  <2> QED
    BY <2>3, <2>4, BackupsGo DEF StoreInv
<1>2. ASSUME NEW r \in Reports, DeleteReport(d, r) PROVE StoreInv'
  BY <1>2, ReportsGo DEF DeleteReport, StoreInv
<1>3. ASSUME NEW k \in Records, DeleteRecord(d, k) PROVE StoreInv'
  BY <1>3, RecordsAside DEF DeleteRecord, StoreInv
<1>4. ASSUME NEW b \in Backups, DeleteBackup(d, b) PROVE StoreInv'
  <2>1. db' = [d EXCEPT !.backup = Dropped(@, {b} \cap LiveBackups(d), GoneBackup)]
    BY <1>4 DEF DeleteBackup
  <2>2. /\ Fields(db') /\ db'.policy = d.policy /\ db'.report = d.report
        /\ db'.backup = Dropped(d.backup, {b} \cap LiveBackups(d), GoneBackup)
    BY <2>1 DEF Sound, Fields
  <2> QED
    BY <2>2, BackupsGo DEF StoreInv
<1> QED
  BY <1>1, <1>2, <1>3, <1>4

\* A new policy reaches what is stored, and what is backed up.
LEMMA PolicyChanges ==
    ASSUME NEW d, Sound(d, d.policy.minimal), NEW p \in Policies, UpdatePolicy(d, p) PROVE StoreInv'
<1> DEFINE e == Purge(Shortened(Stricter(d, p), p))
<1>1. db' = d \/ db' = [e EXCEPT !.policy = p]
  BY DEF UpdatePolicy
<1>2. Sound(e, p.minimal)
  BY StricterHolds, ShortenedKeeps, PurgeKeeps
<1> HIDE DEF e
<1>3. CASE db' = [e EXCEPT !.policy = p]
  <2>1. Fields(db') /\ db'.policy = p /\ db'.report = e.report /\ db'.backup = e.backup
    BY <1>2, <1>3 DEF Sound, Fields
  <2> QED
    BY <1>2, <2>1, Aside DEF StoreInv
<1> QED
  BY <1>1, <1>3 DEF StoreInv

\* Each transaction on the rows that its purge left.
LEMMA TransactionKeeps ==
    ASSUME StoreInv, NEW d, Sound(d, d.policy.minimal), Transaction(d) PROVE StoreInv'
<1>1. CASE db' = d \/ db' = db
  BY <1>1 DEF StoreInv
<1>2. CASE PurgeOnly(d) \/ (\E c \in Creds : Begin(d, c)) \/ (\E c \in pending : Settle(d, c))
             \/ (\E b \in Backups : Restore(d, b))
  BY <1>1, <1>2 DEF PurgeOnly, Begin, Settle, Restore
<1> QED
  BY <1>2, CredentialsAside, EvidenceComes, EvidenceGoes, PolicyChanges DEF Transaction

\* An empty store.
LEMMA StoreOpens == ASSUME Init PROVE StoreInv
<1>1. PICK p \in Policies : \E cred :
         db = [policy |-> p, deleted |-> FALSE,
               report |-> [r \in Reports |-> NoReport], record |-> [k \in Records |-> NoRecord],
               backup |-> [b \in Backups |-> NoBackup], request |-> [q \in Requests |-> NoRequest],
               cred |-> cred]
  BY DEF Init
<1>2. NoReport = Row(NoReport) /\ NoBackup = Snapshot(NoBackup)
  BY DEF NoReport, NoBackup, Row, Snapshot
<1>3. NoReport.state = "none" /\ NoBackup.state = "none"
  BY DEF NoReport, NoBackup
<1> QED
  BY <1>1, <1>2, <1>3 DEF StoreInv, Sound, Fields, Tables, Restorable, AllMinimal

\* Every step keeps what can be restored within the policy.
LEMMA StepKeepsSound == ASSUME StoreInv, [Next]_vars PROVE StoreInv'
<1>1. CASE Local
  <2>1. CASE Tick
    BY <2>1 DEF Tick, StoreInv
  <2> QED
    BY <1>1, <2>1, CredentialsAside DEF Local, StoreInv
<1>2. ASSUME Transaction(Purge(db)) PROVE StoreInv'
  BY <1>2, PurgeKeeps, TransactionKeeps DEF StoreInv
<1>3. CASE UNCHANGED vars
  BY <1>3 DEF vars, StoreInv
<1> QED
  BY <1>1, <1>2, <1>3 DEF Next

(* A change of a report's form or presence reaches every snapshot of it:   *)
(* whatever is uploaded, deleted, shortened, transformed or expires, every *)
(* backup that is still there can be restored, and under the minimal       *)
(* profile no full report is stored anywhere (team_store.py,               *)
(* team_backups.py, team_governance.py).                                   *)
THEOREM SnapshotsFollowAlways == Spec => []SnapshotsFollow
<1>1. StoreInv => SnapshotsFollow
  BY DEF StoreInv, Sound, Restorable, AllMinimal, SnapshotsFollow, BackupsRestorable, MinimalMeansMinimal,
         LiveBackups, Active
<1> QED
  BY <1>1, StoreOpens, StepKeepsSound, PTL DEF Spec

-----------------------------------------------------------------------------
\* What is stored was stored before, and stays as it is or is deleted.
Spares(d, e) ==
    \A r \in Reports :
        /\ e.report[r].state = "active" => e.report[r] = d.report[r]
        /\ d.report[r].state = "active" => e.report[r] = d.report[r] \/ e.report[r].state = "deleted"

\* No report outlives the policy.
Lasting(d, p) ==
    \A r \in Reports : d.report[r].state = "active" =>
        /\ d.report[r].created \in Nat /\ d.report[r].expires \in Nat
        /\ d.report[r].expires <= d.report[r].created + p.retention

AuthorityInv == StoreInv /\ now \in Nat /\ db.policy \in Policies /\ Lasting(db, db.policy)

\* Somebody who may is done with what was prepared.
ByLeave == \E c \in pending \ pending' : Authorized(c, Creds)

\* A report that was not stored is stored by a transaction that may store it.
LEMMA ReportStored ==
    ASSUME NEW d, Sound(d, d.policy.minimal), NEW c \in pending, NEW q, NEW r \in Reports, Ingest(d, c, q, r)
    PROVE  /\ ByLeave /\ now' = now /\ db'.policy = d.policy /\ d.report[r].state = "none"
           /\ db'.report[r].created = now /\ db'.report[r].expires = now + d.policy.retention
           /\ \A x \in Reports : x # r => db'.report[x] = d.report[x]
<1> DEFINE row == [state |-> "active", created |-> now, expires |-> now + d.policy.retention,
                   form |-> IF d.policy.minimal THEN "minimal" ELSE "share"]
           e == [d EXCEPT !.report[r] = row]
<1>1. /\ d.report[r].state = "none" /\ db' = Remembered(e, q, r) /\ Authorized(c, Creds)
      /\ pending' = pending \ {c} /\ now' = now
  BY DEF Ingest, Done, Admitted
<1>2. row = Row(row) /\ (d.policy.minimal => row.form = "minimal")
  BY DEF Row
<1>3. row.created = now /\ row.expires = now + d.policy.retention
  OBVIOUS
<1> HIDE DEF row
<1>4. Sound(e, d.policy.minimal) /\ e.policy = d.policy
  BY <1>1, <1>2, ReportComes
<1>5. e.report[r] = row /\ \A x \in Reports : x # r => e.report[x] = d.report[x]
  BY DEF Sound, Fields, Tables
<1> HIDE DEF e
<1>6. db'.report = e.report /\ db'.policy = d.policy
  BY <1>1, <1>4, RememberedAside
<1> QED
  BY <1>1, <1>3, <1>5, <1>6 DEF ByLeave

\* A record that was not stored is stored by a transaction that may store it.
LEMMA RecordStored ==
    ASSUME NEW d, Sound(d, d.policy.minimal), NEW c \in pending, NEW q, NEW k, NEW links, NEW ttl, NEW a,
           Approve(d, c, q, k, links, ttl) \/ Attest(d, c, q, k, links, a, ttl)
    PROVE  ByLeave /\ now' = now /\ db'.policy = d.policy /\ Spares(d, db')
<1>1. PICK approval : CreateRecord(d, c, q, k, links, approval, ttl)
  BY DEF Approve, Attest
<1>2. PICK record : db' = Remembered([d EXCEPT !.record = record], q, k)
  BY <1>1 DEF CreateRecord
<1>3. pending' = pending \ {c} /\ now' = now
  BY <1>1 DEF CreateRecord, Done
<1>4. Authorized(c, Creds)
  BY DEF Approve, Attest, Admitted, Authorized, Creds
<1> DEFINE e == [d EXCEPT !.record = record]
<1>5. Fields(e) /\ e.policy = d.policy /\ e.report = d.report /\ e.backup = d.backup
  BY DEF Sound, Fields
<1>6. db' = Remembered(e, q, k)
  BY <1>2
<1> HIDE DEF e
<1>7. Sound(e, d.policy.minimal)
  BY <1>5, Aside
<1>8. db'.policy = d.policy /\ db'.report = d.report
  BY <1>5, <1>6, <1>7, RememberedAside
<1> QED
  BY <1>3, <1>4, <1>8 DEF ByLeave, Spares

\* A report goes by deletion, by expiry or with its project.
LEMMA ReportsDeleted ==
    ASSUME NEW d, Sound(d, d.policy.minimal), DeleteProject(d) \/ \E r \in Reports : DeleteReport(d, r)
    PROVE  db'.policy = d.policy /\ Spares(d, db')
<1>a. "deleted" # "active"
  OBVIOUS
<1>1. CASE DeleteProject(d)
  <2> DEFINE ids == {r \in Reports : d.report[r].state \notin {"none", "forgotten"}}
             e == RemoveReports(d, ids, "deleted")
             f == RemoveRecords(e, Records)
  <2>1. \E cred : db' = [f EXCEPT !.backup = Dropped(@, LiveBackups(f), GoneBackup), !.cred = cred, !.deleted = TRUE]
    BY <1>1 DEF DeleteProject
  <2>a. \A r \in Reports : r \in ids \/ d.report[r].state # "active"
    OBVIOUS
  <2> HIDE DEF ids
  <2>2. /\ Sound(e, d.policy.minimal) /\ e.policy = d.policy
        /\ \A r \in Reports : IF r \in ids THEN e.report[r].state = "deleted" ELSE e.report[r] = d.report[r]
    BY <1>a, ReportsGo
  <2> HIDE DEF e
  <2>3. Sound(f, d.policy.minimal) /\ f.policy = d.policy /\ f.report = e.report
    BY <2>2, RecordsAside
  <2> HIDE DEF f
  <2>4. db'.policy = f.policy /\ db'.report = f.report
    BY <2>1, <2>3 DEF Sound, Fields
  <2> QED
    BY <2>2, <2>3, <2>4 DEF Spares
<1>2. ASSUME NEW r \in Reports, DeleteReport(d, r) PROVE db'.policy = d.policy /\ Spares(d, db')
  <2>1. db' = RemoveReports(d, {r}, "deleted")
    BY <1>2 DEF DeleteReport
  <2> QED
    BY <1>a, <2>1, ReportsGo DEF Spares
<1> QED
  BY <1>1, <1>2

\* Transactions that are not about reports leave them.
LEMMA ReportsUntouched ==
    ASSUME NEW d, Sound(d, d.policy.minimal),
           \/ \E k \in Records : DeleteRecord(d, k)
           \/ \E b \in Backups : Backup(d, b) \/ DeleteBackup(d, b)
           \/ \E c \in Creds : Issue(d, c) \/ Revoke(d, c)
    PROVE  db'.policy = d.policy /\ Spares(d, db')
<1>1. ASSUME NEW k \in Records, DeleteRecord(d, k) PROVE db'.policy = d.policy /\ db'.report = d.report
  <2>1. db' = RemoveRecords(d, {k})
    BY <1>1 DEF DeleteRecord
  <2> QED
    BY <2>1, RecordsAside
<1>2. ASSUME NEW b \in Backups, Backup(d, b) \/ DeleteBackup(d, b)
      PROVE  db'.policy = d.policy /\ db'.report = d.report
  <2>1. \E backup : db' = [d EXCEPT !.backup = backup]
    BY <1>2 DEF Backup, DeleteBackup
  <2> QED
    BY <2>1 DEF Sound, Fields
<1>3. ASSUME NEW c \in Creds, Issue(d, c) \/ Revoke(d, c) PROVE db'.policy = d.policy /\ db'.report = d.report
  <2>1. \E cred : db' = [d EXCEPT !.cred = cred]
    BY <1>3 DEF Issue, Revoke
  <2> QED
    BY <2>1 DEF Sound, Fields
<1> QED
  BY <1>1, <1>2, <1>3 DEF Spares

\* A policy that is accepted bounds what it finds; one that changes nothing
\* touches nothing but what expires.
LEMMA PolicyBounds ==
    ASSUME NEW d, Sound(d, d.policy.minimal), Lasting(d, d.policy), NEW p \in Policies, UpdatePolicy(d, p)
    PROVE  \/ db' = d
           \/ /\ db'.policy = p /\ Lasting(db', p)
              /\ \A r \in Reports : db'.report[r].state = "active" => d.report[r].state = "active"
              /\ p = d.policy => \A r \in Active(d) : d.report[r].expires <= now \/ db'.report[r] = d.report[r]
<1> DEFINE a == Stricter(d, p)
           b == Shortened(a, p)
           e == Purge(b)
<1>1. db' = d \/ db' = [e EXCEPT !.policy = p]
  BY DEF UpdatePolicy
<1>2. /\ Sound(a, p.minimal)
      /\ \A r \in Reports : a.report[r].state = "active" =>
             /\ d.report[r].state = "active"
             /\ a.report[r].created = d.report[r].created /\ a.report[r].expires = d.report[r].expires
  BY StricterHolds
<1>3. p = d.policy => a = d
  BY DEF Stricter
<1>d. b = Shortened(a, p)
  OBVIOUS
<1> HIDE DEF a, b
<1>4. /\ Sound(b, p.minimal)
      /\ \A r \in Reports :
             /\ b.report[r].state = a.report[r].state /\ b.report[r].form = a.report[r].form
             /\ b.report[r].created = a.report[r].created
             /\ b.report[r].expires = Capped(a.report[r], p)
  BY <1>2, <1>d, ShortenedKeeps
<1>5. /\ Sound(e, p.minimal)
      /\ \A r \in Reports : e.report[r].state = "active" => e.report[r] = b.report[r]
      /\ \A r \in Active(b) : b.report[r].expires <= now \/ e.report[r] = b.report[r]
  BY <1>4, PurgeKeeps
<1> HIDE DEF e
<1>6. \A r \in Reports : a.report[r] = Row(a.report[r]) /\ b.report[r] = Row(b.report[r])
  BY <1>2, <1>4 DEF Sound, Tables
<1>7. \A r \in Reports :
          /\ b.report[r].state = a.report[r].state /\ b.report[r].created = a.report[r].created
          /\ b.report[r].expires = Capped(a.report[r], p)
          /\ b.report[r].expires = a.report[r].expires => b.report[r] = a.report[r]
  BY <1>4, <1>6 DEF Row
<1>8. p.retention \in Nat
  BY PolicyAssumption
<1>9. CASE db' = [e EXCEPT !.policy = p]
  <2>1. db'.policy = p /\ db'.report = e.report
    BY <1>5, <1>9 DEF Sound, Fields
  <2>2. ASSUME NEW r \in Reports, e.report[r].state = "active"
        PROVE  /\ d.report[r].state = "active"
               /\ e.report[r].created \in Nat /\ e.report[r].expires \in Nat
               /\ e.report[r].expires <= e.report[r].created + p.retention
    <3>1. e.report[r] = b.report[r] /\ a.report[r].state = "active"
      BY <1>5, <1>7, <2>2
    <3>2. d.report[r].state = "active" /\ a.report[r].created \in Nat /\ a.report[r].expires \in Nat
      BY <1>2, <3>1 DEF Lasting
    <3> QED
      BY <1>7, <1>8, <3>1, <3>2 DEF Capped, Least
  <2>3. ASSUME p = d.policy, NEW r \in Active(d), ~(d.report[r].expires <= now)
        PROVE  e.report[r] = d.report[r]
    <3>1. a = d /\ r \in Reports /\ d.report[r].state = "active"
      BY <1>3, <2>3 DEF Active
    <3>2. Capped(d.report[r], p) = d.report[r].expires
      BY <1>8, <2>3, <3>1 DEF Capped, Least, Lasting
    <3>3. b.report[r] = d.report[r]
      BY <1>7, <3>1, <3>2
    <3> QED
      BY <1>5, <2>3, <3>1, <3>3 DEF Active
  <2> QED
    BY <2>1, <2>2, <2>3 DEF Lasting
<1> QED
  BY <1>1, <1>9

\* What an operation does to the reports and to who is at work.
LEMMA StepKeepsAuthority ==
    ASSUME AuthorityInv, [Next]_vars
    PROVE  /\ (now \in Nat /\ db.policy \in Policies /\ Lasting(db, db.policy))'
           /\ (\E r \in Reports : r \in Active(db') \ Active(db)) \/ made' # made => ByLeave
           /\ \A r \in Active(db) : \/ db'.report[r] = db.report[r] \/ db.report[r].expires <= now
                                    \/ db'.report[r].state = "deleted" \/ db'.policy # db.policy
<1> DEFINE Goal ==
      /\ (now \in Nat /\ db.policy \in Policies /\ Lasting(db, db.policy))'
      /\ (\E r \in Reports : r \in Active(db') \ Active(db)) \/ made' # made => ByLeave
      /\ \A r \in Active(db) : \/ db'.report[r] = db.report[r] \/ db.report[r].expires <= now
                               \/ db'.report[r].state = "deleted" \/ db'.policy # db.policy
<1> SUFFICES Goal
  OBVIOUS
<1>1. ASSUME db'.report = db.report, db'.policy = db.policy, now' \in Nat, made' = made PROVE Goal
  BY <1>1 DEF AuthorityInv, Lasting, Active
<1>2. CASE Local
  <2>1. CASE Tick
    BY <1>1, <2>1 DEF Tick, AuthorityInv
  <2>2. ASSUME NEW c \in Creds, CredExpires(c) \/ RecoverAdmin(c) PROVE Goal
    <3>1. \E cred : db' = [db EXCEPT !.cred = cred]
      BY <2>2 DEF CredExpires, RecoverAdmin
    <3>2. db'.report = db.report /\ db'.policy = db.policy
      BY <3>1 DEF AuthorityInv, StoreInv, Sound, Fields
    <3> QED
      BY <1>1, <2>2, <3>2 DEF CredExpires, RecoverAdmin, AuthorityInv
  <2> QED
    BY <1>2, <2>1, <2>2 DEF Local
<1>3. CASE UNCHANGED vars
  BY <1>1, <1>3 DEF vars, AuthorityInv
<1>4. ASSUME NEW d, d = Purge(db), Transaction(d) PROVE Goal
  <2>1. /\ Sound(d, d.policy.minimal) /\ d.policy = db.policy
        /\ \A r \in Reports : d.report[r].state = "active" => d.report[r] = db.report[r]
        /\ \A r \in Active(db) : db.report[r].expires <= now \/ d.report[r] = db.report[r]
    BY <1>4, PurgeKeeps DEF AuthorityInv, StoreInv
  <2>2. Lasting(d, d.policy)
    BY <2>1 DEF AuthorityInv, Lasting
  <2>3. ASSUME Spares(d, db'), db'.policy = d.policy, now' = now, made' = made \/ ByLeave PROVE Goal
    BY <2>1, <2>3 DEF AuthorityInv, Lasting, Active, Spares
  <2>4. CASE db' = d /\ now' = now /\ made' = made
    BY <2>3, <2>4 DEF Spares
  <2>5. CASE PurgeOnly(d) \/ (\E c \in Creds : Begin(d, c)) \/ (\E b \in Backups : Restore(d, b))
    BY <2>4, <2>5 DEF PurgeOnly, Begin, Restore
  <2>6. ASSUME NEW c \in pending, Settle(d, c) PROVE Goal
    BY <1>1, <2>4, <2>6 DEF Settle, AuthorityInv
  <2>7. CASE DeleteProject(d) \/ \E r \in Reports : DeleteReport(d, r)
    BY <2>1, <2>3, <2>7, ReportsDeleted DEF DeleteProject, DeleteReport
  <2>8. CASE \/ \E k \in Records : DeleteRecord(d, k)
             \/ \E b \in Backups : Backup(d, b) \/ DeleteBackup(d, b)
             \/ \E c \in Creds : Issue(d, c) \/ Revoke(d, c)
    <3>1. now' = now /\ made' = made
      BY <2>8 DEF DeleteRecord, Backup, DeleteBackup, Issue, Revoke
    <3> QED
      BY <2>1, <2>3, <2>8, <3>1, ReportsUntouched
  <2>9. ASSUME NEW c \in pending, NEW q, NEW k, NEW links, NEW ttl, NEW a,
               Approve(d, c, q, k, links, ttl) \/ Attest(d, c, q, k, links, a, ttl)
        PROVE  Goal
    BY <2>1, <2>3, <2>9, RecordStored
  <2>10. ASSUME NEW c \in pending, NEW q, NEW r \in Reports, Ingest(d, c, q, r) PROVE Goal
    <3>1. /\ ByLeave /\ now' = now /\ db'.policy = d.policy /\ d.report[r].state = "none"
          /\ db'.report[r].created = now /\ db'.report[r].expires = now + d.policy.retention
          /\ \A x \in Reports : x # r => db'.report[x] = d.report[x]
      BY <2>1, <2>10, ReportStored
    <3>2. d.policy.retention \in Nat
      BY <2>1, PolicyAssumption DEF AuthorityInv
    <3>3. Lasting(db', db'.policy)
      BY <2>2, <3>1, <3>2 DEF Lasting, AuthorityInv
    <3>4. \A x \in Active(db) : db'.report[x] = db.report[x] \/ db.report[x].expires <= now
      BY <2>1, <3>1 DEF Active
    <3> QED
      BY <2>1, <3>1, <3>3, <3>4 DEF AuthorityInv
  <2>11. ASSUME NEW p \in Policies, UpdatePolicy(d, p) PROVE Goal
    <3>1. now' = now /\ made' = made
      BY <2>11 DEF UpdatePolicy
    <3>2. CASE db' = d
      BY <2>4, <3>1, <3>2
    <3>3. CASE /\ db'.policy = p /\ Lasting(db', p)
               /\ \A r \in Reports : db'.report[r].state = "active" => d.report[r].state = "active"
               /\ p = d.policy => \A r \in Active(d) : d.report[r].expires <= now \/ db'.report[r] = d.report[r]
      BY <2>1, <3>1, <3>3 DEF AuthorityInv, Active
    <3> QED
      BY <2>1, <2>2, <2>11, <3>2, <3>3, PolicyBounds
  <2> QED
    BY <1>4, <2>5, <2>6, <2>7, <2>8, <2>9, <2>10, <2>11 DEF Transaction
<1> QED
  BY <1>2, <1>3, <1>4 DEF Next

(* Whatever is revoked, expires or is recovered between the two            *)
(* transactions of an upload: nothing is stored or remembered without a    *)
(* credential that is good at that moment; and no report is lost or        *)
(* changed before its time by a policy that is refused, or was in force    *)
(* already (team_evidence.py ingest, team_governance.py update_policy).    *)
THEOREM AuthorityKept == Spec => AuthorityIsKept
<1>1. Init => now \in Nat /\ db.policy \in Policies /\ Lasting(db, db.policy)
  BY DEF Init, Lasting, NoReport
<1>2. AuthorityInv /\ [Next]_vars => AuthorityInv'
  BY StepKeepsSound, StepKeepsAuthority DEF AuthorityInv
<1>3. AuthorityInv /\ [Next]_vars =>
          [(\E r \in Reports : r \in Active(db') \ Active(db)) \/ made' # made
             => \E c \in pending \ pending' : Authorized(c, Creds)]_vars
  BY StepKeepsAuthority DEF ByLeave
<1>4. AuthorityInv /\ [Next]_vars =>
          [\A r \in Active(db) : \/ db'.report[r] = db.report[r]
                                 \/ db.report[r].expires <= now
                                 \/ db'.report[r].state = "deleted"
                                 \/ db'.policy # db.policy]_vars
  BY StepKeepsAuthority
<1>5. Init => AuthorityInv
  BY <1>1, StoreOpens DEF AuthorityInv
<1> QED
  BY <1>2, <1>3, <1>4, <1>5, PTL DEF Spec, AuthorityIsKept, RevokedNeverCommits, RefusalKeepsEvidence

(***************************************************************************)
(* Records, requests and what they rest on                                 *)
(***************************************************************************)


LinkedReports ==
    [Reports -> [state : {"none", "active", "deleted", "expired", "forgotten"},
                 created : Nat, expires : Nat, form : Forms]]
LinkedRecords ==
    [Records -> [state : {"none", "live", "gone"}, created : Nat, expires : Nat,
                 links : SUBSET Reports, approval : Approvals \cup {None}]]
LinkedRequests ==
    [Requests -> [state : {"none", "committed", "deleted", "expired"},
                  target : Reports \cup Records \cup {None}, created : Nat]]

Columns(d) ==
    /\ Fields(d) /\ d.policy \in Policies
    /\ d.report \in LinkedReports /\ d.record \in LinkedRecords /\ d.request \in LinkedRequests

\* A live record rests on active reports and a live approval, and on none of
\* them longer than they live.  An approval rests on no other.
Grounded(d) ==
    \A k \in Records : d.record[k].state = "live" =>
        /\ \A r \in d.record[k].links :
              d.report[r].state = "active" /\ d.record[k].expires <= d.report[r].expires
        /\ d.record[k].approval # None =>
              /\ d.record[d.record[k].approval].state = "live"
              /\ d.record[k].expires <= d.record[d.record[k].approval].expires
        /\ k \in Approvals => d.record[k].approval = None

Stands(d, t) ==
    (t \in Reports /\ d.report[t].state = "active") \/ (t \in Records /\ d.record[t].state = "live")

Answerable(d) ==
    \A q \in Requests : d.request[q].state = "committed" => Stands(d, d.request[q].target)

\* A request is remembered, or its history is over.
Recalled(d) ==
    \A x \in made :
        /\ x.req \in Requests /\ x.at \in Nat
        /\ \/ x.at + History <= now
           \/ /\ d.request[x.req].state # "none" /\ d.request[x.req].target = x.target
              /\ d.request[x.req].created = x.at

Linked(d) == Columns(d) /\ Grounded(d) /\ Answerable(d) /\ Recalled(d)

\* What is remembered of a request keeps what it created, and when.
SameRequests(d, e) ==
    \A q \in Requests :
        /\ e.request[q].state = "none" <=> d.request[q].state = "none"
        /\ e.request[q].target = d.request[q].target /\ e.request[q].created = d.request[q].created

\* The columns that links and lifetimes are read from.
LEMMA LinkTypes ==
    ASSUME NEW d, Columns(d)
    PROVE  /\ \A r \in Reports : d.report[r].created \in Nat /\ d.report[r].expires \in Nat
           /\ \A k \in Records : /\ d.record[k].created \in Nat /\ d.record[k].expires \in Nat
                                 /\ d.record[k].links \subseteq Reports
                                 /\ d.record[k].approval \in Approvals \cup {None}
           /\ \A q \in Requests : d.request[q].created \in Nat
           /\ DOMAIN d.report = Reports /\ DOMAIN d.record = Records /\ DOMAIN d.request = Requests
           /\ d.policy.retention \in Nat
<1>1. d.policy.retention \in Nat
  BY PolicyAssumption DEF Columns
<1>2. \A r \in Reports : d.report[r].created \in Nat /\ d.report[r].expires \in Nat
  BY DEF Columns, LinkedReports
<1>3. \A k \in Records : /\ d.record[k].created \in Nat /\ d.record[k].expires \in Nat
                         /\ d.record[k].links \subseteq Reports
                         /\ d.record[k].approval \in Approvals \cup {None}
  BY DEF Columns, LinkedRecords
<1>4. \A q \in Requests : d.request[q].created \in Nat
  BY DEF Columns, LinkedRequests
<1>5. DOMAIN d.report = Reports /\ DOMAIN d.record = Records /\ DOMAIN d.request = Requests
  BY DEF Columns, LinkedReports, LinkedRecords, LinkedRequests
<1> QED
  BY <1>1, <1>2, <1>3, <1>4, <1>5

\* What is remembered stays remembered.
LEMMA RecalledAlong ==
    ASSUME NEW d, NEW e, Recalled(d), SameRequests(d, e)
    PROVE  Recalled(e)
BY DEF Recalled, SameRequests

\* Requests that are marked.
LEMMA MarkedRequests ==
    ASSUME NEW d, Columns(d), NEW gone, NEW st \in {"deleted", "expired"}
    PROVE  LET m == Marked(d.request, Asking(d, gone), st)
           IN  /\ m \in LinkedRequests
               /\ \A q \in Requests :
                    /\ m[q].target = d.request[q].target /\ m[q].created = d.request[q].created
                    /\ m[q].state = "none" <=> d.request[q].state = "none"
                    /\ m[q].state = "committed" => d.request[q].state = "committed" /\ d.request[q].target \notin gone
<1> DEFINE A == Asking(d, gone)
           m == Marked(d.request, A, st)
<1>1. d.request \in LinkedRequests
  BY DEF Columns
<1>2. m = [q \in Requests |-> IF q \in A THEN [d.request[q] EXCEPT !.state = st] ELSE d.request[q]]
  BY <1>1 DEF Marked, LinkedRequests
<1>3. \A q \in Requests : q \in A <=> (d.request[q].state # "none" /\ d.request[q].target \in gone)
  BY DEF Asking
<1> HIDE DEF A, m
<1>4. m \in LinkedRequests
  BY <1>1, <1>2 DEF LinkedRequests
<1>5. \A q \in Requests :
          /\ m[q].target = d.request[q].target /\ m[q].created = d.request[q].created
          /\ m[q].state = IF q \in A THEN st ELSE d.request[q].state
  BY <1>1, <1>2 DEF LinkedRequests
<1> QED
  BY <1>3, <1>4, <1>5 DEF A, m

\* Records that are removed take the requests for them along.
LEMMA LinkedRecordsGo ==
    ASSUME NEW d, Linked(d), NEW ids, ids \subseteq Records
    PROVE  LET e == RemoveRecords(d, ids)
           IN  /\ Linked(e) /\ SameRequests(d, e) /\ e.policy = d.policy /\ e.report = d.report
               /\ \A k \in Records : e.record[k].state = "live" =>
                    k \notin ids /\ e.record[k] = d.record[k]
<1> DEFINE gone == {k \in LiveRecords(d) : k \in ids \/ d.record[k].approval \in ids}
           m == Marked(d.request, Asking(d, gone), "deleted")
           e == RemoveRecords(d, ids)
<1>1. Columns(d) /\ Grounded(d) /\ Answerable(d) /\ Recalled(d)
  BY DEF Linked
<1>2. e = [d EXCEPT !.record = Dropped(d.record, gone, GoneRecord), !.request = m]
  BY DEF RemoveRecords
<1>3. \A k \in Records : k \in gone <=> d.record[k].state = "live" /\ (k \in ids \/ d.record[k].approval \in ids)
  BY DEF LiveRecords
<1>4. /\ m \in LinkedRequests
      /\ \A q \in Requests :
           /\ m[q].target = d.request[q].target /\ m[q].created = d.request[q].created
           /\ m[q].state = "none" <=> d.request[q].state = "none"
           /\ m[q].state = "committed" => d.request[q].state = "committed" /\ d.request[q].target \notin gone
  BY <1>1, MarkedRequests
<1> HIDE DEF gone, m, e
<1>5. /\ Fields(e) /\ e.policy = d.policy /\ e.report = d.report /\ e.request = m
      /\ e.record = Dropped(d.record, gone, GoneRecord)
  BY <1>1, <1>2 DEF Columns, Fields
<1>6. /\ GoneRecord.state = "gone" /\ GoneRecord.links = {} /\ GoneRecord.approval = None
      /\ GoneRecord \in [state : {"none", "live", "gone"}, created : Nat, expires : Nat,
                         links : SUBSET Reports, approval : Approvals \cup {None}]
  BY DEF GoneRecord, NoRecord
<1>7. /\ e.record = [k \in Records |-> IF k \in gone THEN GoneRecord ELSE d.record[k]]
      /\ d.record \in LinkedRecords
  BY <1>1, <1>5 DEF Dropped, Columns, LinkedRecords
<1>8. e.record \in LinkedRecords /\ \A k \in Records : e.record[k] = IF k \in gone THEN GoneRecord ELSE d.record[k]
  BY <1>6, <1>7 DEF LinkedRecords
<1>9. Columns(e)
  BY <1>1, <1>4, <1>5, <1>8 DEF Columns
<1>10. \A k \in Records : e.record[k].state = "live" =>
           d.record[k].state = "live" /\ k \notin gone /\ k \notin ids /\ e.record[k] = d.record[k]
  BY <1>3, <1>6, <1>8
<1>11. Grounded(e)
  <2> SUFFICES ASSUME NEW k \in Records, e.record[k].state = "live"
               PROVE  /\ \A r \in e.record[k].links :
                            e.report[r].state = "active" /\ e.record[k].expires <= e.report[r].expires
                      /\ e.record[k].approval # None =>
                            /\ e.record[e.record[k].approval].state = "live"
                            /\ e.record[k].expires <= e.record[e.record[k].approval].expires
                      /\ k \in Approvals => e.record[k].approval = None
    BY DEF Grounded
  <2>1. e.record[k] = d.record[k] /\ d.record[k].state = "live" /\ k \notin gone
    BY <1>10
  <2>2. ASSUME d.record[k].approval # None
        PROVE  e.record[d.record[k].approval] = d.record[d.record[k].approval]
    <3> DEFINE a == d.record[k].approval
    <3>1. a \in Approvals /\ a \in Records /\ d.record[a].state = "live"
      BY <1>1, <2>1, <2>2, LinkTypes DEF Grounded, Records
    <3>2. d.record[a].approval = None /\ a \notin ids
      BY <1>1, <1>3, <2>1, <3>1 DEF Grounded
    <3>3. a \notin gone
      BY <1>3, <3>1, <3>2, NoneAssumption
    <3> QED
      BY <1>8, <3>1, <3>3
  <2> QED
    BY <1>1, <1>5, <2>1, <2>2 DEF Grounded
<1>12. Answerable(e)
  BY <1>1, <1>4, <1>5, <1>8 DEF Answerable, Stands
<1>13. SameRequests(d, e)
  BY <1>4, <1>5 DEF SameRequests
<1>14. Recalled(e)
  BY <1>1, <1>13, RecalledAlong
<1> QED
  BY <1>5, <1>9, <1>10, <1>11, <1>12, <1>13, <1>14 DEF Linked, e

\* A report takes the records that rest on it along.
LEMMA LinkedReportsGo ==
    ASSUME NEW d, Linked(d), NEW ids, NEW st \in {"deleted", "expired"}
    PROVE  LET e == RemoveReports(d, ids, st)
           IN  Linked(e) /\ SameRequests(d, e) /\ e.policy = d.policy
<1> DEFINE touched == {k \in LiveRecords(d) : d.record[k].links \cap ids # {}}
           c == RemoveRecords(d, touched)
           m == Marked(c.request, Asking(d, ids), st)
           e == RemoveReports(d, ids, st)
<1>1. touched \subseteq Records /\ \A k \in Records : k \in touched <=> d.record[k].state = "live" /\ d.record[k].links \cap ids # {}
  BY DEF LiveRecords
<1>2. e = [c EXCEPT !.backup = Dropped(c.backup, Holding(d, ids), GoneBackup),
                    !.report = Emptied(c.report, ids, st), !.request = m]
  BY DEF RemoveReports
<1> HIDE DEF touched, e
<1>3. /\ Linked(c) /\ SameRequests(d, c) /\ c.policy = d.policy /\ c.report = d.report
      /\ \A k \in Records : c.record[k].state = "live" => k \notin touched /\ c.record[k] = d.record[k]
  BY <1>1, LinkedRecordsGo
<1> HIDE DEF c
<1>4. Columns(c) /\ Grounded(c) /\ Answerable(c) /\ Recalled(c)
  BY <1>3 DEF Linked
<1>5. Asking(d, ids) = Asking(c, ids)
  BY <1>3 DEF Asking, SameRequests
<1>6. /\ m \in LinkedRequests
      /\ \A q \in Requests :
           /\ m[q].target = c.request[q].target /\ m[q].created = c.request[q].created
           /\ m[q].state = "none" <=> c.request[q].state = "none"
           /\ m[q].state = "committed" => c.request[q].state = "committed" /\ c.request[q].target \notin ids
  BY <1>4, <1>5, MarkedRequests
<1> HIDE DEF m
<1>7. /\ Fields(e) /\ e.policy = c.policy /\ e.record = c.record /\ e.request = m
      /\ e.report = Emptied(c.report, ids, st)
  BY <1>2, <1>4 DEF Columns, Fields
<1>8. c.report \in LinkedReports
  BY <1>4 DEF Columns
<1>9. e.report = [r \in Reports |->
         IF r \in ids THEN [state |-> st, created |-> c.report[r].created, expires |-> 0, form |-> "share"]
         ELSE c.report[r]]
  BY <1>7, <1>8 DEF Emptied, NoReport, LinkedReports
<1>10. /\ e.report \in LinkedReports
       /\ \A r \in Reports : r \notin ids => e.report[r] = c.report[r]
       /\ \A r \in Reports : r \in ids => e.report[r].state = st
  BY <1>8, <1>9 DEF LinkedReports, Forms
<1>11. Columns(e)
  BY <1>4, <1>6, <1>7, <1>10 DEF Columns
<1>12. Grounded(e)
  <2>1. \A k \in Records : c.record[k].state = "live" => \A r \in c.record[k].links : r \in Reports /\ r \notin ids
    BY <1>1, <1>3, <1>4, LinkTypes
  <2> QED
    BY <1>4, <1>7, <1>10, <2>1 DEF Grounded
<1>13. Answerable(e)
  BY <1>4, <1>6, <1>7, <1>10 DEF Answerable, Stands
<1>14. SameRequests(c, e) /\ SameRequests(d, e)
  BY <1>3, <1>6, <1>7 DEF SameRequests
<1>15. Recalled(e)
  BY <1>4, <1>14, RecalledAlong
<1> QED
  BY <1>3, <1>7, <1>11, <1>12, <1>13, <1>14, <1>15 DEF Linked, e

\* A purge keeps every link, and forgets a request when its history is over.
LEMMA LinkedPurge ==
    ASSUME NEW d, Linked(d)
    PROVE  Linked(Purge(d)) /\ Purge(d).policy = d.policy
<1> DEFINE dead == {r \in Active(d) : d.report[r].expires <= now}
           e == RemoveReports(d, dead, "expired")
           over == {k \in LiveRecords(e) : e.record[k].expires <= now}
           f == RemoveRecords(e, over)
           overdue == {q \in Requests : f.request[q].created + History <= now}
           old == {r \in Reports : /\ f.report[r].state \in {"deleted", "expired"}
                                   /\ f.report[r].created + History <= now}
           forgotten == [NoReport EXCEPT !.state = "forgotten"]
           g == Purge(d)
<1>1. g = [f EXCEPT !.backup = Dropped(f.backup, {b \in LiveBackups(f) : f.backup[b].expires <= now}, GoneBackup),
                    !.request = Dropped(f.request, overdue, NoRequest),
                    !.report = Dropped(f.report, old, forgotten)]
  BY DEF Purge
<1>2. Linked(e) /\ e.policy = d.policy
  BY LinkedReportsGo
<1>3. over \subseteq Records
  BY DEF LiveRecords
<1> HIDE DEF e, over, g
<1>4. Linked(f) /\ f.policy = d.policy
  BY <1>2, <1>3, LinkedRecordsGo
<1>5. \A r \in old : r \in Reports /\ f.report[r].state # "active"
  OBVIOUS
<1>6. \A q \in Requests : q \in overdue <=> f.request[q].created + History <= now
  OBVIOUS
<1> HIDE DEF f, old, overdue
<1>7. Columns(f) /\ Grounded(f) /\ Answerable(f) /\ Recalled(f)
  BY <1>4 DEF Linked
<1>8. /\ Fields(g) /\ g.policy = f.policy /\ g.record = f.record
      /\ g.request = Dropped(f.request, overdue, NoRequest) /\ g.report = Dropped(f.report, old, forgotten)
  BY <1>1, <1>7 DEF Columns, Fields
<1>9. forgotten = [state |-> "forgotten", created |-> 0, expires |-> 0, form |-> "share"]
  BY DEF NoReport
<1> HIDE DEF forgotten
<1>10. g.report = [r \in Reports |-> IF r \in old THEN forgotten ELSE f.report[r]] /\ f.report \in LinkedReports
  BY <1>7, <1>8 DEF Dropped, Columns, LinkedReports
<1>11. /\ g.report \in LinkedReports
       /\ \A r \in Reports : r \notin old => g.report[r] = f.report[r]
  BY <1>9, <1>10 DEF LinkedReports, Forms
<1>12. g.request = [q \in Requests |-> IF q \in overdue THEN NoRequest ELSE f.request[q]] /\ f.request \in LinkedRequests
  BY <1>7, <1>8 DEF Dropped, Columns, LinkedRequests
<1>13. /\ g.request \in LinkedRequests
       /\ \A q \in Requests : g.request[q] = IF q \in overdue THEN NoRequest ELSE f.request[q]
  BY <1>12 DEF LinkedRequests, NoRequest
<1>14. NoRequest.state = "none"
  BY DEF NoRequest
<1>15. Columns(g)
  BY <1>7, <1>8, <1>11, <1>13 DEF Columns
<1>16. Grounded(g)
  <2>1. \A k \in Records : f.record[k].state = "live" => \A r \in f.record[k].links : g.report[r] = f.report[r]
    BY <1>5, <1>7, <1>11, LinkTypes DEF Grounded
  <2> QED
    BY <1>7, <1>8, <2>1 DEF Grounded
<1>17. Answerable(g)
  BY <1>5, <1>7, <1>8, <1>11, <1>13, <1>14 DEF Answerable, Stands
<1>18. Recalled(g)
  BY <1>6, <1>7, <1>13 DEF Recalled
<1> QED
  BY <1>4, <1>8, <1>15, <1>16, <1>17, <1>18 DEF Linked, g

\* A set of numbers that is not empty has a least one.
LEMMA LeastOfNats ==
    ASSUME NEW S, S \subseteq Nat, S # {}
    PROVE  Min(S) \in S /\ \A y \in S : Min(S) <= y
<1> DEFINE R == OpToRel(<, Nat)
<1>1. R = {p \in Nat \X Nat : p[1] < p[2]}
  BY DEF OpToRel
<1>2. IsWellFoundedOn(R, Nat)
  BY NatLessThanWellFounded
<1> HIDE DEF R
<1>3. PICK x \in S : \A y \in S : ~(<<y, x>> \in R)
  BY <1>2, WFMin
<1>4. \A y \in S : x <= y
  <2> SUFFICES ASSUME NEW y \in S, ~(x <= y) PROVE FALSE
    OBVIOUS
  <2>1. y \in Nat /\ x \in Nat
    OBVIOUS
  <2>2. y < x
    BY <2>1
  <2>3. <<y, x>> \in R
    BY <1>1, <2>1, <2>2
  <2> QED
    BY <1>3, <2>3
<1> QED
  BY <1>4 DEF Min

\* Lifetimes and forms change; what is there, and its links, do not.
LEMMA LinkedAlong ==
    ASSUME NEW d, Linked(d), NEW e, Columns(e), e.request = d.request,
           \A r \in Reports : e.report[r].state = d.report[r].state,
           \A k \in Records : /\ e.record[k].state = d.record[k].state /\ e.record[k].links = d.record[k].links
                              /\ e.record[k].approval = d.record[k].approval,
           \A k \in Records : d.record[k].state = "live" =>
               /\ \A r \in d.record[k].links : e.record[k].expires <= e.report[r].expires
               /\ d.record[k].approval # None =>
                     e.record[k].expires <= e.record[d.record[k].approval].expires
    PROVE  Linked(e)
<1>1. Columns(d) /\ Grounded(d) /\ Answerable(d) /\ Recalled(d)
  BY DEF Linked
<1>2. Grounded(e)
  <2> SUFFICES ASSUME NEW k \in Records, e.record[k].state = "live"
               PROVE  /\ \A r \in e.record[k].links :
                            e.report[r].state = "active" /\ e.record[k].expires <= e.report[r].expires
                      /\ e.record[k].approval # None =>
                            /\ e.record[e.record[k].approval].state = "live"
                            /\ e.record[k].expires <= e.record[e.record[k].approval].expires
                      /\ k \in Approvals => e.record[k].approval = None
    BY DEF Grounded
  <2>1. d.record[k].state = "live" /\ e.record[k].links = d.record[k].links /\ e.record[k].approval = d.record[k].approval
    OBVIOUS
  <2>2. /\ \A r \in d.record[k].links : d.report[r].state = "active" /\ r \in Reports
        /\ d.record[k].approval # None =>
             d.record[d.record[k].approval].state = "live" /\ d.record[k].approval \in Records
        /\ k \in Approvals => d.record[k].approval = None
    BY <1>1, <2>1, LinkTypes DEF Grounded, Records
  <2> QED
    BY <2>1, <2>2
<1>3. Answerable(e)
  BY <1>1 DEF Answerable, Stands
<1>4. Recalled(e)
  BY <1>1 DEF Recalled
<1> QED
  BY <1>2, <1>3, <1>4 DEF Linked

\* A stricter policy rewrites forms, no links.
LEMMA LinkedStricter ==
    ASSUME NEW d, Linked(d), NEW p
    PROVE  Linked(Stricter(d, p)) /\ Stricter(d, p).policy = d.policy
<1>1. CASE ~p.minimal \/ d.policy.minimal
  BY <1>1 DEF Stricter
<1>2. CASE ~(~p.minimal \/ d.policy.minimal)
  <2> DEFINE e == Stricter(d, p)
  <2>1. e = [d EXCEPT !.backup = Dropped(d.backup, LiveBackups(d), GoneBackup),
                      !.report = [r \in Reports |->
                          IF r \in Active(d) THEN [d.report[r] EXCEPT !.form = "minimal"] ELSE d.report[r]]]
    BY <1>2 DEF Stricter
  <2> HIDE DEF e
  <2>2. Columns(d) /\ Grounded(d)
    BY DEF Linked
  <2>3. /\ Fields(e) /\ e.policy = d.policy /\ e.record = d.record /\ e.request = d.request
        /\ e.report = [r \in Reports |->
               IF r \in Active(d) THEN [d.report[r] EXCEPT !.form = "minimal"] ELSE d.report[r]]
    BY <2>1, <2>2 DEF Columns, Fields
  <2>4. d.report \in LinkedReports
    BY <2>2 DEF Columns
  <2>5. e.report \in LinkedReports
    BY <2>3, <2>4 DEF LinkedReports, Forms
  <2>6. \A r \in Reports : e.report[r].state = d.report[r].state /\ e.report[r].expires = d.report[r].expires
    BY <2>3, <2>4 DEF LinkedReports
  <2>7. Columns(e)
    BY <2>2, <2>3, <2>5 DEF Columns
  <2>8. \A k \in Records : d.record[k].state = "live" => \A r \in d.record[k].links : r \in Reports
    BY <2>2, LinkTypes
  <2>9. Linked(e)
    <3>1. \A k \in Records : d.record[k].state = "live" =>
              /\ \A r \in d.record[k].links : e.record[k].expires <= e.report[r].expires
              /\ d.record[k].approval # None =>
                    e.record[k].expires <= e.record[d.record[k].approval].expires
      BY <2>2, <2>3, <2>6, <2>8 DEF Grounded
    <3>2. \A k \in Records : /\ e.record[k].state = d.record[k].state /\ e.record[k].links = d.record[k].links
                             /\ e.record[k].approval = d.record[k].approval
      BY <2>3
    <3>3. e.request = d.request /\ \A r \in Reports : e.report[r].state = d.report[r].state
      BY <2>3, <2>6
    <3> QED
      BY <2>7, <3>1, <3>2, <3>3, LinkedAlong
  <2> QED
    BY <2>3, <2>9 DEF e
<1> QED
  BY <1>1, <1>2

\* New lifetimes reach the records through their reports and approvals.
LEMMA LinkedShortened ==
    ASSUME NEW d, Linked(d), NEW p \in Policies
    PROVE  Linked(Shortened(d, p)) /\ Shortened(d, p).policy = d.policy
<1> DEFINE report == [r \in Reports |->
               [d.report[r] EXCEPT !.expires = Least(@, d.report[r].created + p.retention)]]
           backup == [b \in Backups |->
               [d.backup[b] EXCEPT !.expires = Least(@, d.backup[b].created + p.ttl)]]
           ends(k) == {d.record[k].expires, d.record[k].created + p.retention}
                        \cup {report[r].expires : r \in d.record[k].links}
           linked == [k \in Records |-> Min(ends(k))]
           bound(k) == IF d.record[k].approval = None THEN linked[k]
                       ELSE Least(linked[k], linked[d.record[k].approval])
           record == [k \in Records |-> [d.record[k] EXCEPT !.expires = bound(k)]]
           e == Shortened(d, p)
<1>1. e = [d EXCEPT !.report = report, !.backup = backup, !.record = record]
  BY DEF Shortened
<1>2. Columns(d) /\ Grounded(d) /\ p.retention \in Nat
  BY PolicyAssumption DEF Linked
<1> HIDE DEF e, backup
<1>3. d.report \in LinkedReports /\ d.record \in LinkedRecords
  BY <1>2 DEF Columns
<1>4. \A r \in Reports : d.report[r].created + p.retention \in Nat /\ d.report[r].expires \in Nat
  BY <1>2, LinkTypes
<1>5. \A r \in Reports : Least(d.report[r].expires, d.report[r].created + p.retention) \in Nat
  BY <1>4 DEF Least
<1>6. report \in LinkedReports /\ \A r \in Reports : report[r].state = d.report[r].state /\ report[r].expires \in Nat
  BY <1>3, <1>5 DEF LinkedReports
<1> HIDE DEF report
<1>7. ASSUME NEW k \in Records
      PROVE  linked[k] \in Nat /\ \A r \in d.record[k].links : linked[k] <= report[r].expires
  <2>1. d.record[k].expires \in Nat /\ d.record[k].created + p.retention \in Nat /\ d.record[k].links \subseteq Reports
    BY <1>2, LinkTypes
  <2>2. ends(k) \subseteq Nat /\ ends(k) # {} /\ \A r \in d.record[k].links : report[r].expires \in ends(k)
    BY <1>6, <2>1
  <2> HIDE DEF ends
  <2>3. Min(ends(k)) \in ends(k) /\ \A y \in ends(k) : Min(ends(k)) <= y
    BY <2>2, LeastOfNats
  <2>4. linked[k] = Min(ends(k))
    OBVIOUS
  <2> QED
    BY <2>2, <2>3, <2>4
<1> HIDE DEF linked, ends
<1>8. ASSUME NEW k \in Records
      PROVE  /\ bound(k) \in Nat /\ bound(k) <= linked[k]
             /\ d.record[k].approval = None => bound(k) = linked[k]
             /\ d.record[k].approval # None => bound(k) <= linked[d.record[k].approval]
  <2>1. d.record[k].approval # None => d.record[k].approval \in Records
    BY <1>2, LinkTypes DEF Records
  <2>2. linked[k] \in Nat /\ (d.record[k].approval # None => linked[d.record[k].approval] \in Nat)
    BY <1>7, <2>1
  <2> QED
    BY <2>2 DEF Least
<1> HIDE DEF bound
<1>9. /\ Fields(e) /\ e.policy = d.policy /\ e.request = d.request /\ e.report = report /\ e.record = record
  BY <1>1, <1>2 DEF Columns, Fields
<1>10. /\ record \in LinkedRecords
       /\ \A k \in Records : /\ record[k].state = d.record[k].state /\ record[k].links = d.record[k].links
                             /\ record[k].approval = d.record[k].approval /\ record[k].expires = bound(k)
  BY <1>3, <1>8 DEF LinkedRecords
<1> HIDE DEF record
<1>11. Columns(e)
  BY <1>2, <1>6, <1>9, <1>10 DEF Columns
<1>12. ASSUME NEW k \in Records, d.record[k].state = "live"
       PROVE  /\ \A r \in d.record[k].links : e.record[k].expires <= e.report[r].expires
              /\ d.record[k].approval # None =>
                    e.record[k].expires <= e.record[d.record[k].approval].expires
  <2>1. \A r \in d.record[k].links : bound(k) <= report[r].expires
    <3> SUFFICES ASSUME NEW r \in d.record[k].links PROVE bound(k) <= report[r].expires
      OBVIOUS
    <3>1. r \in Reports
      BY <1>2, LinkTypes
    <3>2. report[r].expires \in Nat /\ linked[k] \in Nat /\ bound(k) \in Nat
      BY <1>6, <1>7, <1>8, <3>1
    <3> QED
      BY <1>7, <1>8, <3>2
  <2>2. ASSUME d.record[k].approval # None
        PROVE  bound(k) <= bound(d.record[k].approval)
    <3> DEFINE a == d.record[k].approval
    <3>1. a \in Approvals /\ a \in Records /\ d.record[a].state = "live"
      BY <1>2, <1>12, <2>2, LinkTypes DEF Grounded, Records
    <3>2. d.record[a].approval = None
      BY <1>2, <3>1 DEF Grounded
    <3>3. bound(a) = linked[a]
      BY <1>8, <3>1, <3>2
    <3> QED
      BY <1>8, <2>2, <3>3
  <2>3. d.record[k].approval # None => d.record[k].approval \in Records
    BY <1>2, LinkTypes DEF Records
  <2> QED
    BY <1>9, <1>10, <2>1, <2>2, <2>3
<1>13. Linked(e)
  BY <1>6, <1>9, <1>10, <1>11, <1>12, LinkedAlong
<1> QED
  BY <1>9, <1>13 DEF e

\* What is neither a report, a record nor a request does not matter.
LEMMA LinkedAside ==
    ASSUME NEW d, Linked(d), NEW e, Fields(e), e.policy \in Policies,
           e.report = d.report, e.record = d.record, e.request = d.request
    PROVE  Linked(e)
BY DEF Linked, Columns, Grounded, Answerable, Stands, Recalled

\* What is linked stays so when the time and the history of requests do.
LEMMA LinkedLater ==
    ASSUME NEW d, Linked(d), made' = made, now' = now, db' = d
    PROVE  (Linked(db))'
<1>1. Columns(db)'
  BY DEF Linked, Columns, Fields, LinkedReports, LinkedRecords, LinkedRequests
<1>2. Grounded(db)'
  BY DEF Linked, Grounded
<1>3. Answerable(db)'
  BY DEF Linked, Answerable, Stands
<1>4. Recalled(db)'
  BY DEF Linked, Recalled
<1> QED
  BY <1>1, <1>2, <1>3, <1>4 DEF Linked

LinkInv == Linked(db) /\ now \in Nat /\ OneTargetPerRequest

\* A request that is new creates the one thing it is remembered for.
LEMMA RequestDone ==
    ASSUME LinkInv, NEW d, Columns(d), Grounded(d), NEW old, Recalled(old), NEW c, NEW q \in Requests \cup {None},
           NEW target \in Reports \cup Records, NewRequest(old, q), old.request = d.request, Stands(d, target),
           \A u \in Requests : d.request[u].state = "committed" => Stands(d, d.request[u].target),
           db' = Remembered(d, q, target), Done(c, q, target)
    PROVE  LinkInv'
<1>1. Recalled(d)
  BY DEF Recalled
<1>2. now' = now
  BY DEF Done
<1>3. CASE q = None
  <2>1. db' = d /\ made' = made
    BY <1>3 DEF Remembered, Done
  <2>2. Linked(d)
    BY <1>1 DEF Linked, Answerable
  <2>3. (Linked(db))'
    BY <1>2, <2>1, <2>2, LinkedLater
  <2> QED
    BY <1>2, <2>1, <2>3 DEF LinkInv, OneTargetPerRequest
<1>4. CASE q # None
  <2> DEFINE row == [state |-> "committed", target |-> target, created |-> now]
             one == [req |-> q, target |-> target, at |-> now]
  <2>1. q \in Requests /\ d.request[q].state = "none"
    BY <1>4 DEF NewRequest
  <2>2. db' = [d EXCEPT !.request[q] = row] /\ made' = made \cup {one}
    BY <1>4 DEF Remembered, Done
  <2>3. d.request \in LinkedRequests /\ now \in Nat
    BY DEF Columns, LinkInv
  <2>4. one.req = q /\ one.target = target /\ one.at = now
    OBVIOUS
  <2>5. row.state = "committed" /\ row.target = target /\ row.created = now
    OBVIOUS
  <2>6. row \in [state : {"none", "committed", "deleted", "expired"},
                 target : Reports \cup Records \cup {None}, created : Nat]
    BY <2>3
  <2> HIDE DEF row, one
  <2>7. /\ Fields(db') /\ db'.policy = d.policy /\ db'.report = d.report /\ db'.record = d.record
        /\ db'.request = [d.request EXCEPT ![q] = row]
    BY <2>2 DEF Columns, Fields
  <2>8. /\ db'.request \in LinkedRequests
        /\ \A u \in Requests : db'.request[u] = IF u = q THEN row ELSE d.request[u]
    BY <2>1, <2>3, <2>6, <2>7 DEF LinkedRequests
  <2>9. Columns(db)'
    <3>1. db'.policy \in Policies /\ db'.report \in LinkedReports /\ db'.record \in LinkedRecords
      BY <2>7 DEF Columns
    <3> QED
      BY <2>7, <2>8, <3>1 DEF Columns, Fields, LinkedReports, LinkedRecords, LinkedRequests
  <2>10. Grounded(db)'
    BY <2>7 DEF Grounded
  <2>11. Answerable(db)'
    BY <2>1, <2>5, <2>7, <2>8 DEF Answerable, Stands
  <2>12. \A x \in made : x.req = q => x.at + History <= now
    BY <1>1, <2>1 DEF Recalled
  <2>13. Recalled(db)'
    <3> SUFFICES ASSUME NEW x \in made'
                 PROVE  /\ x.req \in Requests /\ x.at \in Nat
                        /\ \/ x.at + History <= now
                           \/ /\ db'.request[x.req].state # "none" /\ db'.request[x.req].target = x.target
                              /\ db'.request[x.req].created = x.at
      BY <1>2 DEF Recalled
    <3>1. CASE x = one
      BY <2>1, <2>3, <2>4, <2>5, <2>8, <3>1
    <3>2. CASE x \in made
      BY <1>1, <2>8, <2>12, <3>2 DEF Recalled
    <3> QED
      BY <2>2, <3>1, <3>2
  <2>14. OneTargetPerRequest'
    <3> SUFFICES ASSUME NEW x \in made', NEW y \in made', x.req = y.req, x.target # y.target
                 PROVE  x.at + History <= y.at \/ y.at + History <= x.at
      BY DEF OneTargetPerRequest
    <3>1. CASE x \in made /\ y \in made
      BY <3>1 DEF LinkInv, OneTargetPerRequest
    <3>2. CASE x \in made /\ y = one
      BY <2>4, <2>12, <3>2
    <3>3. CASE x = one /\ y \in made
      BY <2>4, <2>12, <3>3
    <3> QED
      BY <2>2, <3>1, <3>2, <3>3
  <2> QED
    BY <1>2, <2>3, <2>9, <2>10, <2>11, <2>13, <2>14 DEF LinkInv, Linked
<1> QED
  BY <1>3, <1>4

\* A report comes in, for a request or without one (_ingest).
LEMMA LinkedReportComes ==
    ASSUME LinkInv, NEW d, Linked(d), NEW c, NEW q \in Requests \cup {None}, NEW r \in Reports, Ingest(d, c, q, r)
    PROVE  LinkInv'
<1> DEFINE row == [state |-> "active", created |-> now, expires |-> now + d.policy.retention,
                   form |-> IF d.policy.minimal THEN "minimal" ELSE "share"]
           e == [d EXCEPT !.report[r] = row]
<1>1. /\ d.report[r].state = "none" /\ NewRequest(d, q) /\ db' = Remembered(e, q, r) /\ Done(c, q, r)
  BY DEF Ingest
<1>2. Columns(d) /\ Grounded(d) /\ Answerable(d) /\ Recalled(d)
  BY DEF Linked
<1>3. now \in Nat /\ now + d.policy.retention \in Nat
  BY <1>2, LinkTypes DEF LinkInv
<1>4. /\ row \in [state : {"none", "active", "deleted", "expired", "forgotten"},
                  created : Nat, expires : Nat, form : Forms]
      /\ row.state = "active"
  BY <1>3 DEF Forms
<1> HIDE DEF row
<1>5. /\ Fields(e) /\ e.policy = d.policy /\ e.record = d.record /\ e.request = d.request
      /\ e.report = [d.report EXCEPT ![r] = row]
  BY <1>2 DEF Columns, Fields
<1> HIDE DEF e
<1>6. /\ e.report \in LinkedReports
      /\ \A x \in Reports : e.report[x] = IF x = r THEN row ELSE d.report[x]
  BY <1>2, <1>4, <1>5 DEF Columns, LinkedReports
<1>7. Columns(e)
  BY <1>2, <1>5, <1>6 DEF Columns
<1>8. Grounded(e)
  <2>1. \A k \in Records : d.record[k].state = "live" => \A x \in d.record[k].links : x \in Reports /\ x # r
    BY <1>1, <1>2, LinkTypes DEF Grounded
  <2> QED
    BY <1>2, <1>5, <1>6, <2>1 DEF Grounded
<1>9. Stands(e, r) /\ \A u \in Requests : e.request[u].state = "committed" => Stands(e, e.request[u].target)
  BY <1>1, <1>2, <1>4, <1>5, <1>6 DEF Answerable, Stands
<1>10. r \in Reports \cup Records
  OBVIOUS
<1> QED
  BY <1>1, <1>2, <1>5, <1>7, <1>8, <1>9, <1>10, RequestDone

\* A record is made on reports and an approval that stand (_create_record).
LEMMA LinkedRecordComes ==
    ASSUME LinkInv, NEW d, Linked(d), NEW c, NEW q \in Requests \cup {None}, NEW k \in Records,
           NEW links \in SUBSET Reports, NEW approval \in Approvals \cup {None}, NEW ttl \in TTLs,
           k \in Approvals => approval = None, CreateRecord(d, c, q, k, links, approval, ttl)
    PROVE  LinkInv'
<1> DEFINE bounds == {now + ttl, now + d.policy.retention}
                       \cup {d.report[r].expires : r \in links}
                       \cup {d.record[a].expires : a \in {approval} \ {None}}
           row == [state |-> "live", created |-> now, expires |-> Min(bounds),
                   links |-> links, approval |-> approval]
           e == [d EXCEPT !.record[k] = row]
<1>1. /\ NewRequest(d, q) /\ d.record[k].state = "none" /\ links \subseteq Active(d)
      /\ approval # None => d.record[approval].state = "live"
      /\ db' = Remembered(e, q, k) /\ Done(c, q, k)
  BY DEF CreateRecord
<1>2. Columns(d) /\ Grounded(d) /\ Answerable(d) /\ Recalled(d)
  BY DEF Linked
<1>3. now + ttl \in Nat /\ now + d.policy.retention \in Nat /\ now \in Nat
  BY <1>2, LinkTypes, LifetimeAssumption DEF LinkInv
<1>4. approval # None => approval \in Records /\ d.record[approval].expires \in Nat
  BY <1>2, LinkTypes DEF Records
<1>5. \A r \in links : d.report[r].expires \in Nat /\ d.report[r].state = "active"
  BY <1>1, <1>2, LinkTypes DEF Active
<1>6. bounds \subseteq Nat /\ bounds # {} /\ (\A r \in links : d.report[r].expires \in bounds)
      /\ (approval # None => d.record[approval].expires \in bounds)
  BY <1>3, <1>4, <1>5
<1> HIDE DEF bounds
<1>7. Min(bounds) \in bounds /\ \A y \in bounds : Min(bounds) <= y
  BY <1>6, LeastOfNats
<1>8. Min(bounds) \in Nat
  BY <1>6, <1>7
<1>9. /\ row \in [state : {"none", "live", "gone"}, created : Nat, expires : Nat,
                  links : SUBSET Reports, approval : Approvals \cup {None}]
      /\ row.state = "live" /\ row.links = links /\ row.approval = approval /\ row.expires = Min(bounds)
  BY <1>3, <1>8
<1> HIDE DEF row
<1>10. /\ Fields(e) /\ e.policy = d.policy /\ e.report = d.report /\ e.request = d.request
       /\ e.record = [d.record EXCEPT ![k] = row]
  BY <1>2 DEF Columns, Fields
<1> HIDE DEF e
<1>11. /\ e.record \in LinkedRecords
       /\ \A x \in Records : e.record[x] = IF x = k THEN row ELSE d.record[x]
  BY <1>2, <1>9, <1>10 DEF Columns, LinkedRecords
<1>12. Columns(e)
  BY <1>2, <1>10, <1>11 DEF Columns
<1>13. Grounded(e)
  <2> SUFFICES ASSUME NEW x \in Records, e.record[x].state = "live"
               PROVE  /\ \A r \in e.record[x].links :
                            e.report[r].state = "active" /\ e.record[x].expires <= e.report[r].expires
                      /\ e.record[x].approval # None =>
                            /\ e.record[e.record[x].approval].state = "live"
                            /\ e.record[x].expires <= e.record[e.record[x].approval].expires
                      /\ x \in Approvals => e.record[x].approval = None
    BY DEF Grounded
  <2>1. CASE x = k
    <3>1. approval # None => approval # k /\ e.record[approval] = d.record[approval]
      BY <1>1, <1>4, <1>11
    <3>2. e.record[x] = row
      BY <1>11, <2>1
    <3>3. \A r \in links : e.report[r].state = "active" /\ row.expires <= e.report[r].expires
      BY <1>5, <1>6, <1>7, <1>9, <1>10
    <3>4. approval # None => /\ e.record[approval].state = "live"
                             /\ row.expires <= e.record[approval].expires
      BY <1>1, <1>6, <1>7, <1>9, <3>1
    <3>5. x \in Approvals => approval = None
      BY <2>1
    <3>6. row.links = links /\ row.approval = approval
      BY <1>9
    <3> QED
      BY <3>2, <3>3, <3>4, <3>5, <3>6
  <2>2. CASE x # k
    <3>1. e.record[x] = d.record[x] /\ d.record[x].state = "live"
      BY <1>11, <2>2
    <3>2. d.record[x].approval # None =>
            /\ d.record[x].approval \in Records /\ d.record[d.record[x].approval].state = "live"
            /\ d.record[x].approval # k /\ e.record[d.record[x].approval] = d.record[d.record[x].approval]
      BY <1>1, <1>2, <1>11, <3>1, LinkTypes DEF Grounded, Records
    <3> QED
      BY <1>2, <1>10, <3>1, <3>2 DEF Grounded
  <2> QED
    BY <2>1, <2>2
<1>14. Stands(e, k) /\ \A u \in Requests : e.request[u].state = "committed" => Stands(e, e.request[u].target)
  BY <1>1, <1>2, <1>9, <1>10, <1>11 DEF Answerable, Stands
<1>15. k \in Reports \cup Records
  OBVIOUS
<1> QED
  BY <1>1, <1>2, <1>10, <1>12, <1>13, <1>14, <1>15, RequestDone

\* A step that makes nothing leaves what is linked linked.
LEMMA LinkedOn ==
    ASSUME LinkInv, NEW d, Linked(d), db' = d, now' = now, made' = made
    PROVE  LinkInv'
<1>1. (Linked(db))'
  BY LinkedLater
<1> QED
  BY <1>1 DEF LinkInv, OneTargetPerRequest

\* Reports, records, backups or the project are deleted.
LEMMA LinkedEvidenceGoes ==
    ASSUME LinkInv, NEW d, Linked(d),
           \/ DeleteProject(d)
           \/ \E r \in Reports : DeleteReport(d, r)
           \/ \E k \in Records : DeleteRecord(d, k)
           \/ \E b \in Backups : Backup(d, b) \/ DeleteBackup(d, b)
    PROVE  LinkInv'
<1>1. CASE DeleteProject(d)
  <2> DEFINE e == RemoveReports(d, {r \in Reports : d.report[r].state \notin {"none", "forgotten"}}, "deleted")
             f == RemoveRecords(e, Records)
  <2>1. \E cred : db' = [f EXCEPT !.backup = Dropped(@, LiveBackups(f), GoneBackup), !.cred = cred, !.deleted = TRUE]
    BY <1>1 DEF DeleteProject
  <2>2. Linked(e)
    BY LinkedReportsGo
  <2> HIDE DEF e
  <2>3. Linked(f)
    BY <2>2, LinkedRecordsGo
  <2> HIDE DEF f
  <2>4. Fields(f) /\ f.policy \in Policies
    BY <2>3 DEF Linked, Columns
  <2>5. /\ Fields(db') /\ db'.policy = f.policy /\ db'.report = f.report /\ db'.record = f.record
        /\ db'.request = f.request
    BY <2>1, <2>4 DEF Fields
  <2> DEFINE g == db'
  <2>6. Linked(g)
    BY <2>3, <2>4, <2>5, LinkedAside
  <2> HIDE DEF g
  <2>7. db' = g
    BY DEF g
  <2> QED
    BY <1>1, <2>6, <2>7, LinkedOn DEF DeleteProject
<1>2. ASSUME NEW r \in Reports, DeleteReport(d, r) PROVE LinkInv'
  BY <1>2, LinkedReportsGo, LinkedOn DEF DeleteReport
<1>3. ASSUME NEW k \in Records, DeleteRecord(d, k) PROVE LinkInv'
  BY <1>3, LinkedRecordsGo, LinkedOn DEF DeleteRecord
<1>4. ASSUME NEW b \in Backups, Backup(d, b) \/ DeleteBackup(d, b) PROVE LinkInv'
  <2>1. PICK backup : db' = [d EXCEPT !.backup = backup]
    BY <1>4 DEF Backup, DeleteBackup
  <2> DEFINE g == [d EXCEPT !.backup = backup]
  <2>2. Fields(d) /\ d.policy \in Policies
    BY DEF Linked, Columns
  <2>3. Fields(g) /\ g.policy \in Policies /\ g.report = d.report /\ g.record = d.record /\ g.request = d.request
    BY <2>2 DEF Fields
  <2> HIDE DEF g
  <2>4. Linked(g)
    BY <2>3, LinkedAside
  <2>5. db' = g
    BY <2>1 DEF g
  <2> QED
    BY <1>4, <2>4, <2>5, LinkedOn DEF Backup, DeleteBackup
<1> QED
  BY <1>1, <1>2, <1>3, <1>4

\* Credentials are issued, revoked, or expire: no link changes.
LEMMA LinkedCredentials ==
    ASSUME LinkInv, NEW d, Linked(d), NEW c,
           Issue(d, c) \/ Revoke(d, c) \/ CredExpires(c) \/ RecoverAdmin(c)
    PROVE  LinkInv'
<1>1. PICK o \in {d, db} : \E cred : db' = [o EXCEPT !.cred = cred]
  BY DEF Issue, Revoke, CredExpires, RecoverAdmin
<1>2. Linked(o)
  BY <1>1 DEF LinkInv
<1>3. PICK cred : db' = [o EXCEPT !.cred = cred]
  BY <1>1
<1> DEFINE g == [o EXCEPT !.cred = cred]
<1>4. Fields(o) /\ o.policy \in Policies
  BY <1>2 DEF Linked, Columns
<1>5. Fields(g) /\ g.policy \in Policies /\ g.report = o.report /\ g.record = o.record /\ g.request = o.request
  BY <1>4 DEF Fields
<1> HIDE DEF g
<1>6. Linked(g)
  BY <1>2, <1>5, LinkedAside
<1>7. db' = g /\ now' = now /\ made' = made
  BY <1>3 DEF g, Issue, Revoke, CredExpires, RecoverAdmin
<1> QED
  BY <1>6, <1>7, LinkedOn

\* A new policy expires, shortens and rewrites, and leaves what is linked
\* linked.
LEMMA LinkedPolicy ==
    ASSUME LinkInv, NEW d, Linked(d), NEW p \in Policies, UpdatePolicy(d, p)
    PROVE  LinkInv'
<1> DEFINE a == Stricter(d, p)
           b == Shortened(a, p)
           e == Purge(b)
           g == [e EXCEPT !.policy = p]
<1>1. (db' = d \/ db' = g) /\ now' = now /\ made' = made
  BY DEF UpdatePolicy
<1>2. Linked(a)
  BY LinkedStricter
<1> HIDE DEF a
<1>3. Linked(b)
  BY <1>2, LinkedShortened
<1> HIDE DEF b
<1>4. Linked(e)
  BY <1>3, LinkedPurge
<1> HIDE DEF e
<1>5. Fields(e)
  BY <1>4 DEF Linked, Columns
<1>6. Fields(g) /\ g.policy \in Policies /\ g.report = e.report /\ g.record = e.record /\ g.request = e.request
  BY <1>5 DEF Fields
<1> HIDE DEF g
<1>7. Linked(g)
  BY <1>4, <1>6, LinkedAside
<1> QED
  BY <1>1, <1>7, LinkedOn

\* A transaction of any of these kinds, or one that is rolled back.
LEMMA LinkedTransaction ==
    ASSUME LinkInv, NEW d, Linked(d), Transaction(d) PROVE LinkInv'
<1>1. ASSUME NEW g \in {d, db}, db' = g, now' = now, made' = made PROVE LinkInv'
  <2>1. Linked(g)
    BY DEF LinkInv
  <2> QED
    BY <1>1, <2>1, LinkedOn
<1>2. CASE PurgeOnly(d) \/ (\E c \in Creds : Begin(d, c)) \/ (\E c \in pending : Settle(d, c))
             \/ (\E b \in Backups : Restore(d, b))
  <2>1. (db' = d \/ db' = db) /\ now' = now /\ made' = made
    BY <1>2 DEF PurgeOnly, Begin, Settle, Restore
  <2> QED
    BY <1>1, <2>1
<1>3. ASSUME NEW c \in pending, NEW q \in Requests \cup {None}, NEW links \in SUBSET Reports, NEW ttl \in TTLs,
             NEW k \in Approvals, Approve(d, c, q, k, links, ttl)
      PROVE  LinkInv'
  <2>1. CreateRecord(d, c, q, k, links, None, ttl)
    BY <1>3 DEF Approve
  <2>2. k \in Records /\ None \in Approvals \cup {None}
    BY DEF Records
  <2> QED
    BY <2>1, <2>2, LinkedRecordComes
<1>4. ASSUME NEW c \in pending, NEW q \in Requests \cup {None}, NEW links \in SUBSET Reports, NEW ttl \in TTLs,
             NEW k \in Receipts, NEW a \in Approvals, Attest(d, c, q, k, links, a, ttl)
      PROVE  LinkInv'
  <2>1. CreateRecord(d, c, q, k, links, a, ttl)
    BY <1>4 DEF Attest
  <2>2. k \in Records /\ k \notin Approvals /\ a \in Approvals \cup {None}
    BY KindAssumption DEF Records
  <2> QED
    BY <2>1, <2>2, LinkedRecordComes
<1> QED
  BY <1>2, <1>3, <1>4, LinkedReportComes, LinkedEvidenceGoes, LinkedCredentials, LinkedPolicy DEF Transaction

\* An empty store.
LEMMA LinksStart ==
    ASSUME Init PROVE LinkInv
<1>1. PICK p \in Policies : \E cred :
         db = [policy |-> p, deleted |-> FALSE,
               report |-> [r \in Reports |-> NoReport], record |-> [k \in Records |-> NoRecord],
               backup |-> [b \in Backups |-> NoBackup], request |-> [q \in Requests |-> NoRequest],
               cred |-> cred]
  BY DEF Init
<1>2. /\ Fields(db) /\ db.policy \in Policies /\ db.report = [r \in Reports |-> NoReport]
      /\ db.record = [k \in Records |-> NoRecord] /\ db.request = [q \in Requests |-> NoRequest]
  BY <1>1 DEF Fields
<1>3. /\ NoReport \in [state : {"none", "active", "deleted", "expired", "forgotten"},
                       created : Nat, expires : Nat, form : Forms]
      /\ NoRecord \in [state : {"none", "live", "gone"}, created : Nat, expires : Nat,
                       links : SUBSET Reports, approval : Approvals \cup {None}]
      /\ NoRequest \in [state : {"none", "committed", "deleted", "expired"},
                        target : Reports \cup Records \cup {None}, created : Nat]
      /\ NoRecord.state = "none" /\ NoRequest.state = "none"
  BY DEF NoReport, NoRecord, NoRequest, Forms
<1>4. Columns(db)
  BY <1>2, <1>3 DEF Columns, LinkedReports, LinkedRecords, LinkedRequests
<1>5. Grounded(db) /\ Answerable(db)
  BY <1>2, <1>3 DEF Grounded, Answerable
<1>6. made = {} /\ now = 0
  BY DEF Init
<1>7. Recalled(db) /\ OneTargetPerRequest /\ now \in Nat
  BY <1>6 DEF Recalled, OneTargetPerRequest
<1> QED
  BY <1>4, <1>5, <1>7 DEF LinkInv, Linked

\* Every step keeps every link.
LEMMA StepKeepsLinks == ASSUME LinkInv, [Next]_vars PROVE LinkInv'
<1>1. CASE Tick
  <2>1. now' = now + 1 /\ db' = db /\ made' = made /\ now \in Nat
    BY <1>1 DEF Tick, LinkInv
  <2>2. \A x \in made : x.at + History <= now => x.at + History <= now + 1
    <3> SUFFICES ASSUME NEW x \in made, x.at + History <= now PROVE x.at + History <= now + 1
      OBVIOUS
    <3>1. x.at \in Nat
      BY DEF LinkInv, Linked, Recalled
    <3> QED
      BY <2>1, <3>1, LifetimeAssumption
  <2>3. Recalled(db)'
    BY <2>1, <2>2 DEF LinkInv, Linked, Recalled
  <2>4. Columns(db)' /\ Grounded(db)'
    BY <2>1 DEF LinkInv, Linked, Columns, Grounded, Fields, LinkedReports, LinkedRecords, LinkedRequests
  <2>5. Answerable(db)'
    BY <2>1 DEF LinkInv, Linked, Answerable, Stands
  <2> QED
    BY <2>1, <2>3, <2>4, <2>5 DEF LinkInv, Linked, OneTargetPerRequest
<1>2. ASSUME NEW c \in Creds, CredExpires(c) \/ RecoverAdmin(c) PROVE LinkInv'
  <2>1. Linked(db)
    BY DEF LinkInv
  <2> QED
    BY <1>2, <2>1, LinkedCredentials
<1>3. ASSUME Transaction(Purge(db)) PROVE LinkInv'
  <2>1. Linked(Purge(db))
    BY LinkedPurge DEF LinkInv
  <2> QED
    BY <1>3, <2>1, LinkedTransaction
<1>4. CASE UNCHANGED vars
  <2>1. Linked(db) /\ db' = db /\ now' = now /\ made' = made
    BY <1>4 DEF vars, LinkInv
  <2> QED
    BY <2>1, LinkedOn
<1> QED
  BY <1>1, <1>2, <1>3, <1>4 DEF Next, Local

(* Whatever is uploaded, approved, deleted, shortened or expires, and      *)
(* however often a request is sent: a record rests on reports and an       *)
(* approval that are there and outlive it, a remembered request on what it *)
(* created, and it created one thing (team_store.py, team_evidence.py,     *)
(* team_governance.py).                                                    *)
THEOREM LinksHoldAlways == Spec => []LinksHold
<1>1. LinkInv => LinksHold
  <2> SUFFICES ASSUME LinkInv PROVE LinksHold
    OBVIOUS
  <2>1. Columns(db) /\ Grounded(db) /\ Answerable(db) /\ OneTargetPerRequest
    BY DEF LinkInv, Linked
  <2>2. RecordsGrounded
    <3> SUFFICES ASSUME NEW k \in Records, db.record[k].state = "live"
                 PROVE  /\ \A r \in db.record[k].links :
                              r \in Active(db) /\ db.record[k].expires <= db.report[r].expires
                        /\ \A a \in {db.record[k].approval} \ {None} :
                              a \in LiveRecords(db) /\ db.record[k].expires <= db.record[a].expires
      BY DEF RecordsGrounded, LiveRecords
    <3>1. db.record[k].links \subseteq Reports /\ (db.record[k].approval # None => db.record[k].approval \in Records)
      BY <2>1, LinkTypes DEF Records
    <3> QED
      BY <2>1, <3>1 DEF Grounded, Active, LiveRecords
  <2>3. CommittedIsLive
    BY <2>1 DEF Answerable, Stands, CommittedIsLive, Active, LiveRecords
  <2> QED
    BY <2>1, <2>2, <2>3 DEF LinksHold
<1> QED
  BY <1>1, LinksStart, StepKeepsLinks, PTL DEF Spec

(***************************************************************************)
(* The upload queue                                                        *)
(***************************************************************************)

\* The limits are numbers, and leave room for an entry and a request.
LEMMA Limits ==
    MaxEntries \in Nat /\ MaxAttempts \in Nat /\ MaxLimit \in Nat /\ MaxSends \in Nat
    /\ MaxEntries > 0 /\ MaxAttempts > 0 /\ MaxLimit > 0 /\ MaxSends > 0
BY LimitAssumption

\* A list without repetitions is as long as the set of its elements is large.
LEMMA DistinctCount ==
    ASSUME NEW X, NEW s \in Seq(X), \A m, n \in 1..Len(s) : s[m] = s[n] => m = n
    PROVE  LET S == {s[n] : n \in 1..Len(s)} IN IsFiniteSet(S) /\ Cardinality(S) = Len(s)
<1> DEFINE S == {s[n] : n \in 1..Len(s)}
           D == 1..Len(s)
<1>1. Len(s) \in Nat
  OBVIOUS
<1>2. IsFiniteSet(D) /\ Cardinality(D) = Len(s)
  <2>1. 1 \in Int /\ Len(s) \in Int
    BY <1>1
  <2>2. IsFiniteSet(1..Len(s)) /\ Cardinality(1..Len(s)) = IF 1 > Len(s) THEN 0 ELSE Len(s) - 1 + 1
    BY <2>1, FS_Interval
  <2>3. (IF 1 > Len(s) THEN 0 ELSE Len(s) - 1 + 1) = Len(s)
    BY <1>1
  <2> QED
    BY <2>2, <2>3
<1> DEFINE f == [n \in D |-> s[n]]
<1>3. f \in [D -> S] /\ (\A x \in S : \E n \in D : f[n] = x) /\ (\A m, n \in D : f[m] = f[n] => m = n)
  OBVIOUS
<1> HIDE DEF f
<1>4. f \in Surjection(D, S) /\ f \in Injection(D, S)
  BY <1>3 DEF Surjection, Injection, IsInjective
<1>5. IsFiniteSet(S) /\ Cardinality(S) = Cardinality(D)
  BY <1>2, <1>4, FS_Surjection
<1> QED
  BY <1>2, <1>5

-----------------------------------------------------------------------------
(* The file of the queue *)

Shape(f) ==
    /\ f.entries \in Seq(Items) /\ f.attempts \in [Items -> 0..MaxAttempts]
    /\ f.fate \in [Items -> {"none", "delivered", "expired"}]
    /\ f.observed \in Nat /\ f.delivered \in Nat /\ f.expired \in Nat

\* It accounts for its entries: none is there twice, or was dealt with.
Accounts(f) ==
    /\ f.observed = Len(f.entries) + f.delivered + f.expired
    /\ \A m, n \in 1..Len(f.entries) : f.entries[m] = f.entries[n] => m = n
    /\ \A i \in Queued(f) : f.fate[i] = "none"

FileInv(f) == Shape(f) /\ Accounts(f)

\* A queue file has as many entries as different items.
LEMMA FileCount ==
    ASSUME NEW f, FileInv(f)
    PROVE  /\ IsFiniteSet(Queued(f)) /\ Cardinality(Queued(f)) = Len(f.entries) /\ Len(f.entries) \in Nat
           /\ Queued(f) \subseteq Items
<1>1. f.entries \in Seq(Items) /\ \A m, n \in 1..Len(f.entries) : f.entries[m] = f.entries[n] => m = n
  BY DEF FileInv, Shape, Accounts
<1> DEFINE s == f.entries
<1>2. s \in Seq(Items) /\ \A m, n \in 1..Len(s) : s[m] = s[n] => m = n
  BY <1>1
<1>3. Queued(f) = {s[n] : n \in 1..Len(s)}
  BY DEF Queued
<1> HIDE DEF s
<1>4. IsFiniteSet({s[n] : n \in 1..Len(s)}) /\ Cardinality({s[n] : n \in 1..Len(s)}) = Len(s)
  BY <1>2, DistinctCount
<1>5. {s[n] : n \in 1..Len(s)} \subseteq Items /\ Len(s) \in Nat
  BY <1>2
<1> QED
  BY <1>3, <1>4, <1>5 DEF s

\* The entries that are taken out are as many as the list gets shorter by.
LEMMA WithoutCount ==
    ASSUME NEW f, FileInv(f), NEW out
    PROVE  LET r == Without(f, out)
           IN  /\ r \in Seq(Items) /\ \A m, n \in 1..Len(r) : r[m] = r[n] => m = n
               /\ {r[n] : n \in 1..Len(r)} = Queued(f) \ out
               /\ Len(r) = Len(f.entries) - Cardinality(Queued(f) \cap out)
               /\ Cardinality(Queued(f) \cap out) \in Nat
<1> DEFINE s == f.entries
           I == {n \in DOMAIN s : s[n] \notin out}
           r == Without(f, out)
<1>1. /\ s \in Seq(Items) /\ DOMAIN s = 1..Len(s) /\ Len(s) \in Nat
      /\ \A m, n \in 1..Len(s) : s[m] = s[n] => m = n
  BY DEF FileInv, Shape, Accounts
<1>2. r = Selected(s, I)
  BY DEF Without
<1>3. s \in Seq(Items)
  BY <1>1
<1>4. Queued(f) = {s[n] : n \in 1..Len(s)}
  BY DEF Queued
<1> HIDE DEF s
<1>5. r \in Seq(Items)
  BY <1>2, <1>3, SelectedPlaces
<1>6. PICK h : Places(h, r, s, I, Len(s))
  BY <1>2, <1>3, SelectedPlaces
<1> HIDE DEF r
<1>7. /\ \A k \in 1..Len(r) : h[k] \in I /\ h[k] \in 1..Len(s) /\ r[k] = s[h[k]]
      /\ \A j, k \in 1..Len(r) : j < k => h[j] < h[k]
      /\ \A i \in I \cap (1..Len(s)) : \E k \in 1..Len(r) : h[k] = i
  BY <1>6 DEF Places
<1>8. Len(r) \in Nat
  BY <1>5
<1>9. \A m, n \in 1..Len(r) : r[m] = r[n] => m = n
  <2> SUFFICES ASSUME NEW m \in 1..Len(r), NEW n \in 1..Len(r), r[m] = r[n] PROVE m = n
    OBVIOUS
  <2>1. h[m] = h[n] /\ h[m] \in 1..Len(s)
    BY <1>1, <1>7
  <2> QED
    BY <1>7, <1>8, <2>1
<1>10. {r[n] : n \in 1..Len(r)} = {s[n] : n \in 1..Len(s)} \ out
  <2>1. ASSUME NEW n \in 1..Len(r)
        PROVE  r[n] \in {s[k] : k \in 1..Len(s)} \ out
    BY <1>7
  <2>2. ASSUME NEW n \in 1..Len(s), s[n] \notin out
        PROVE  \E k \in 1..Len(r) : r[k] = s[n]
    <3>1. n \in I \cap (1..Len(s))
      BY <1>1, <2>2
    <3>2. PICK k \in 1..Len(r) : h[k] = n
      BY <1>7, <3>1
    <3> QED
      BY <1>7, <3>2
  <2> QED
    BY <2>1, <2>2
<1>11. IsFiniteSet(Queued(f)) /\ Cardinality(Queued(f)) = Len(s)
  BY FileCount DEF s
<1>12. /\ Cardinality(Queued(f) \ out) = Cardinality(Queued(f)) - Cardinality(Queued(f) \cap out)
       /\ IsFiniteSet(Queued(f) \cap out)
  BY <1>11, FS_Difference, FS_Intersection
<1>13. Cardinality(Queued(f) \cap out) \in Nat
  BY <1>12, FS_CardinalityType
<1>14. Cardinality({r[n] : n \in 1..Len(r)}) = Len(r)
  BY <1>5, <1>9, DistinctCount
<1>15. Len(r) = Len(s) - Cardinality(Queued(f) \cap out)
  BY <1>4, <1>10, <1>11, <1>12, <1>14
<1> QED
  BY <1>4, <1>5, <1>9, <1>10, <1>13, <1>15 DEF r, s

\* Expired entries leave the queue and are counted.
LEMMA ExpireAllKeeps ==
    ASSUME NEW f, f \in Files, FileInv(f), NEW gone
    PROVE  /\ ExpireAll(f, gone) \in Files /\ FileInv(ExpireAll(f, gone))
           /\ Queued(ExpireAll(f, gone)) = Queued(f) \ gone
           /\ ExpireAll(f, gone).attempts = f.attempts
           /\ \A i \in Items : ExpireAll(f, gone).fate[i] =
                IF i \in gone /\ i \in Queued(f) THEN "expired" ELSE f.fate[i]
<1> DEFINE out == gone \cap Queued(f)
           r == Without(f, out)
           c == Cardinality(out)
           fate == [i \in Items |-> IF i \in out THEN "expired" ELSE f.fate[i]]
           g == [f EXCEPT !.entries = r, !.expired = f.expired + c, !.fate = fate]
<1>1. ExpireAll(f, gone) = g
  BY DEF ExpireAll
<1>2. Queued(f) \cap out = out /\ Queued(f) \ out = Queued(f) \ gone
  OBVIOUS
<1>3. /\ r \in Seq(Items) /\ \A m, n \in 1..Len(r) : r[m] = r[n] => m = n
      /\ {r[n] : n \in 1..Len(r)} = Queued(f) \ gone
      /\ Len(r) = Len(f.entries) - c /\ c \in Nat
  BY <1>2, WithoutCount
<1>4. fate \in [Items -> {"none", "delivered", "expired"}]
  BY DEF FileInv, Shape
<1>5. \A i \in Items : fate[i] = IF i \in gone /\ i \in Queued(f) THEN "expired" ELSE f.fate[i]
  OBVIOUS
<1>6. Len(f.entries) \in Nat /\ Queued(f) \subseteq Items
  BY FileCount
<1> HIDE DEF out, r, c, fate
<1>7. /\ g.entries = r /\ g.expired = f.expired + c /\ g.fate = fate /\ g.attempts = f.attempts
      /\ g.observed = f.observed /\ g.delivered = f.delivered
  BY DEF Files
<1>8. g \in Files
  <2>1. f.expired + c \in Nat
    BY <1>3 DEF FileInv, Shape
  <2> QED
    BY <1>3, <1>4, <2>1 DEF Files
<1> HIDE DEF g
<1>9. Queued(g) = Queued(f) \ gone
  BY <1>3, <1>7 DEF Queued
<1>10. Shape(g)
  BY <1>3, <1>4, <1>7 DEF FileInv, Shape
<1>11. g.observed = Len(g.entries) + g.delivered + g.expired
  BY <1>3, <1>6, <1>7 DEF FileInv, Shape, Accounts
<1>12. \A i \in Queued(g) : g.fate[i] = "none"
  BY <1>5, <1>6, <1>7, <1>9 DEF FileInv, Accounts
<1>13. FileInv(g)
  BY <1>3, <1>7, <1>10, <1>11, <1>12 DEF FileInv, Accounts
<1> QED
  BY <1>1, <1>5, <1>7, <1>8, <1>9, <1>13

\* A delivered entry leaves the queue and is counted.
LEMMA DeliveredKeeps ==
    ASSUME NEW f, f \in Files, FileInv(f), NEW i \in Queued(f)
    PROVE  /\ Delivered(f, i) \in Files /\ FileInv(Delivered(f, i))
           /\ Queued(Delivered(f, i)) = Queued(f) \ {i}
           /\ Delivered(f, i).attempts = f.attempts
           /\ \A j \in Items : Delivered(f, i).fate[j] = IF j = i THEN "delivered" ELSE f.fate[j]
<1> DEFINE r == Without(f, {i})
           fate == [f.fate EXCEPT ![i] = "delivered"]
           g == [f EXCEPT !.entries = r, !.delivered = f.delivered + 1, !.fate = fate]
<1>1. Delivered(f, i) = g
  BY DEF Delivered
<1>2. Queued(f) \cap {i} = {i} /\ Cardinality({i}) = 1
  BY FS_Singleton
<1>3. /\ r \in Seq(Items) /\ \A m, n \in 1..Len(r) : r[m] = r[n] => m = n
      /\ {r[n] : n \in 1..Len(r)} = Queued(f) \ {i}
      /\ Len(r) = Len(f.entries) - 1
  <2>1. Len(r) = Len(f.entries) - Cardinality(Queued(f) \cap {i})
    BY WithoutCount
  <2>2. Cardinality(Queued(f) \cap {i}) = 1
    BY <1>2
  <2>3. /\ r \in Seq(Items) /\ \A m, n \in 1..Len(r) : r[m] = r[n] => m = n
        /\ {r[n] : n \in 1..Len(r)} = Queued(f) \ {i}
    BY WithoutCount
  <2> QED
    BY <2>1, <2>2, <2>3
<1>4. Len(f.entries) \in Nat /\ Queued(f) \subseteq Items
  BY FileCount
<1>5. /\ fate \in [Items -> {"none", "delivered", "expired"}]
      /\ \A j \in Items : fate[j] = IF j = i THEN "delivered" ELSE f.fate[j]
  BY <1>4 DEF FileInv, Shape
<1> HIDE DEF r, fate
<1>6. /\ g.entries = r /\ g.expired = f.expired /\ g.fate = fate /\ g.attempts = f.attempts
      /\ g.observed = f.observed /\ g.delivered = f.delivered + 1
  BY DEF Files
<1>7. g \in Files
  <2>1. f.delivered + 1 \in Nat
    BY DEF FileInv, Shape
  <2> QED
    BY <1>3, <1>5, <2>1 DEF Files
<1> HIDE DEF g
<1>8. Queued(g) = Queued(f) \ {i}
  BY <1>3, <1>6 DEF Queued
<1>9. Shape(g)
  BY <1>3, <1>5, <1>6 DEF FileInv, Shape
<1>10. g.observed = Len(g.entries) + g.delivered + g.expired
  <2>1. /\ f.observed = Len(f.entries) + f.delivered + f.expired
        /\ f.observed \in Nat /\ f.delivered \in Nat /\ f.expired \in Nat
    BY DEF FileInv, Shape, Accounts
  <2>2. g.observed = f.observed /\ g.delivered = f.delivered + 1 /\ g.expired = f.expired
    BY <1>6
  <2>3. Len(g.entries) = Len(f.entries) - 1
    BY <1>3, <1>6
  <2> QED
    BY <1>4, <2>1, <2>2, <2>3
<1>11. \A j \in Queued(g) : g.fate[j] = "none"
  BY <1>4, <1>5, <1>6, <1>8 DEF FileInv, Accounts
<1>12. FileInv(g)
  BY <1>3, <1>6, <1>9, <1>10, <1>11 DEF FileInv, Accounts
<1> QED
  BY <1>1, <1>5, <1>6, <1>7, <1>8, <1>12

\* Attempts and blocks change no entry and no count.
SameEntries(f, g) ==
    /\ g \in Files /\ FileInv(g) /\ Queued(g) = Queued(f) /\ g.fate = f.fate

\* Counting an attempt changes the one count only (_attempt).
LEMMA AttemptedKeeps ==
    ASSUME NEW f, f \in Files, FileInv(f), NEW i \in Items
    PROVE  /\ SameEntries(f, Attempted(f, i))
           /\ \A j \in Items : Attempted(f, i).attempts[j] =
                IF j = i /\ f.attempts[i] # MaxAttempts THEN f.attempts[i] + 1 ELSE f.attempts[j]
<1> DEFINE k == IF f.attempts[i] = MaxAttempts THEN MaxAttempts ELSE f.attempts[i] + 1
           att == [f.attempts EXCEPT ![i] = k]
           bl == IF k = MaxAttempts THEN f.blocked \cup {i} ELSE f.blocked
           g == [f EXCEPT !.attempts = att, !.blocked = bl]
<1>1. Attempted(f, i) = g
  BY DEF Attempted
<1>2. f.attempts \in [Items -> 0..MaxAttempts] /\ f.blocked \in SUBSET Items /\ MaxAttempts \in Nat
  BY Limits DEF Files
<1>3. k \in 0..MaxAttempts /\ bl \in SUBSET Items
  BY <1>2
<1>4. att \in [Items -> 0..MaxAttempts] /\ \A j \in Items : att[j] = IF j = i THEN k ELSE f.attempts[j]
  BY <1>2, <1>3
<1>5. \A j \in Items : att[j] = IF j = i /\ f.attempts[i] # MaxAttempts THEN f.attempts[i] + 1 ELSE f.attempts[j]
  BY <1>4
<1> HIDE DEF att, bl, k
<1>6. /\ g.entries = f.entries /\ g.expired = f.expired /\ g.fate = f.fate /\ g.attempts = att
      /\ g.observed = f.observed /\ g.delivered = f.delivered
  BY DEF Files
<1>7. g \in Files
  BY <1>3, <1>4 DEF Files
<1> HIDE DEF g
<1>8. Queued(g) = Queued(f)
  BY <1>6 DEF Queued
<1>9. FileInv(g)
  BY <1>4, <1>6, <1>8 DEF FileInv, Shape, Accounts
<1> QED
  BY <1>1, <1>5, <1>6, <1>7, <1>8, <1>9 DEF SameEntries

\* A failure that is noted changes no count and no entry (_failed).
LEMMA FailedKeeps ==
    ASSUME NEW f, f \in Files, FileInv(f), NEW i \in Items, NEW code
    PROVE  SameEntries(f, Failed(f, i, code)) /\ Failed(f, i, code).attempts = f.attempts
<1> DEFINE bl == IF code \in Retry /\ f.attempts[i] < MaxAttempts THEN f.blocked \ {i} ELSE f.blocked \cup {i}
           g == [f EXCEPT !.blocked = bl]
<1>1. Failed(f, i, code) = g
  BY DEF Failed
<1>2. bl \in SUBSET Items
  BY DEF Files
<1> HIDE DEF bl
<1>3. /\ g.entries = f.entries /\ g.expired = f.expired /\ g.fate = f.fate /\ g.attempts = f.attempts
      /\ g.observed = f.observed /\ g.delivered = f.delivered
  BY DEF Files
<1>4. g \in Files
  BY <1>2 DEF Files
<1> HIDE DEF g
<1>5. Queued(g) = Queued(f)
  BY <1>3 DEF Queued
<1>6. FileInv(g)
  BY <1>3, <1>5 DEF FileInv, Shape, Accounts
<1> QED
  BY <1>1, <1>3, <1>4, <1>5, <1>6 DEF SameEntries

\* A new entry is queued and observed.
LEMMA EnqueuedKeeps ==
    ASSUME NEW f, f \in Files, FileInv(f), NEW i \in Items, i \notin Queued(f), f.fate[i] = "none",
           NEW g, g = [f EXCEPT !.entries = Append(@, i), !.observed = @ + 1]
    PROVE  /\ g \in Files /\ FileInv(g) /\ Queued(g) = Queued(f) \cup {i}
           /\ g.attempts = f.attempts /\ g.fate = f.fate
<1> DEFINE s == f.entries
           r == Append(s, i)
<1>1. s \in Seq(Items) /\ Len(s) \in Nat
  BY DEF Files
<1>2. Queued(f) = {s[n] : n \in 1..Len(s)} /\ \A m, n \in 1..Len(s) : s[m] = s[n] => m = n
  BY DEF Queued, FileInv, Accounts
<1> HIDE DEF s
<1>3. /\ r \in Seq(Items) /\ Len(r) = Len(s) + 1 /\ r[Len(s) + 1] = i /\ \A n \in 1..Len(s) : r[n] = s[n]
  BY <1>1
<1> HIDE DEF r
<1>4. \A n \in 1..Len(r) : n = Len(s) + 1 \/ n \in 1..Len(s)
  BY <1>1, <1>3
<1>5. \A n \in 1..Len(s) : s[n] # i
  BY <1>2
<1>6. {r[n] : n \in 1..Len(r)} = Queued(f) \cup {i}
  <2>1. \A n \in 1..Len(r) : r[n] \in Queued(f) \cup {i}
    BY <1>2, <1>3, <1>4
  <2>2. \A n \in 1..Len(s) : n \in 1..Len(r) /\ r[n] = s[n]
    BY <1>1, <1>3
  <2>3. Len(s) + 1 \in 1..Len(r)
    BY <1>1, <1>3
  <2> QED
    BY <1>2, <1>3, <2>1, <2>2, <2>3
<1>7. \A m, n \in 1..Len(r) : r[m] = r[n] => m = n
  BY <1>2, <1>3, <1>4, <1>5
<1>8. /\ g.entries = r /\ g.expired = f.expired /\ g.fate = f.fate /\ g.attempts = f.attempts
      /\ g.observed = f.observed + 1 /\ g.delivered = f.delivered
  BY DEF Files, r, s
<1>9. g \in Files
  <2>1. r \in Seq(Items) /\ f.observed + 1 \in Nat
    BY <1>3 DEF FileInv, Shape
  <2>2. g = [f EXCEPT !.entries = r, !.observed = f.observed + 1]
    BY DEF r, s
  <2> QED
    BY <2>1, <2>2 DEF Files
<1>10. Queued(g) = Queued(f) \cup {i}
  BY <1>6, <1>8 DEF Queued
<1>11. g.observed = Len(g.entries) + g.delivered + g.expired
  <2>1. /\ f.observed = Len(s) + f.delivered + f.expired
        /\ f.observed \in Nat /\ f.delivered \in Nat /\ f.expired \in Nat
    BY DEF FileInv, Shape, Accounts, s
  <2>2. /\ g.observed = f.observed + 1 /\ g.delivered = f.delivered /\ g.expired = f.expired
        /\ Len(g.entries) = Len(s) + 1
    BY <1>3, <1>8
  <2> QED
    BY <1>1, <2>1, <2>2
<1>12. FileInv(g)
  <2>1. Shape(g)
    <3>1. f.observed + 1 \in Nat
      BY DEF FileInv, Shape
    <3> QED
      BY <1>3, <1>8, <3>1 DEF FileInv, Shape
  <2>2. \A j \in Queued(g) : g.fate[j] = "none"
    BY <1>8, <1>10 DEF FileInv, Accounts
  <2>3. \A m, n \in 1..Len(g.entries) : g.entries[m] = g.entries[n] => m = n
    BY <1>7, <1>8
  <2> QED
    BY <1>11, <2>1, <2>2, <2>3 DEF FileInv, Accounts
<1> QED
  BY <1>8, <1>9, <1>10, <1>12
-----------------------------------------------------------------------------
(* What holds after every step of the queue and of the server *)

\* m is the copy of a command that has looked for expired entries of d.
Behind(m, d) ==
    /\ m.attempts = d.attempts /\ Queued(m) \subseteq Queued(d)
    /\ \A i \in Queued(d) : i \notin Queued(m) => m.fate[i] = "expired"
    /\ \A i \in Items : i \notin Queued(d) => m.fate[i] = d.fate[i]

QueueFiles ==
    /\ disk \in Files /\ FileInv(disk)
    /\ mem \in Files /\ FileInv(mem)
    /\ Behind(mem, disk)

\* A flush looks at each entry once, and is sending one it no longer looks at.
Busy == flush \in {"intent", "flying", "answered"}
Flushing ==
    /\ flush \in {"idle", "scan", "intent", "flying", "answered"}
    /\ todo \in Seq(Items)
    /\ \A m, n \in 1..Len(todo) : todo[m] = todo[n] => m = n
    /\ flush # "idle" => \A n \in 1..Len(todo) : todo[n] \in Queued(mem)
    /\ Busy => current \in Queued(mem) /\ \A n \in 1..Len(todo) : todo[n] # current

\* A request is counted before it leaves; an entry nobody enqueued has none.
Counted ==
    /\ sends \in [Items -> Nat]
    /\ SentIsCounted
    /\ flush = "intent" => disk.attempts[current] = MaxAttempts \/ sends[current] < disk.attempts[current]
    /\ \A i \in Items : i \notin Queued(disk) /\ disk.fate[i] = "none" => sends[i] = 0

\* What the server has stored was sent, and is in its ledger.
Served ==
    /\ late \in [Items -> Nat] /\ stored \in [Items -> {0, 1}]
    /\ ledger \in [Items -> {"none", "committed", "deleted"}]
    /\ \A i \in Items : (late[i] > 0 => sends[i] > 0) /\ (ledger[i] = "none" => stored[i] = 0)
                        /\ (ledger[i] # "none" => stored[i] = 1)
    /\ flush = "flying" => sends[current] > 0
    /\ flush = "answered" /\ answer = "stored" => stored[current] = 1

UploadInv == QueueFiles /\ Flushing /\ Counted /\ Served

\* Every entry of d takes one step to where it is in g.
After(d, g) ==
    \A i \in Items :
        \/ (i \in Queued(g) <=> i \in Queued(d)) /\ g.fate[i] = d.fate[i]
        \/ i \notin Queued(d) /\ d.fate[i] = "none" /\ i \in Queued(g)
        \/ i \in Queued(d) /\ i \notin Queued(g) /\ g.fate[i] = "expired"
        \/ i \in Queued(d) /\ i \notin Queued(g) /\ g.fate[i] = "delivered" /\ stored[i] = 1

\* The server stores what was sent and is not in its ledger.
Stores(i) ==
    /\ disk' = disk /\ sends[i] > 0 /\ stored[i] = 0
    /\ stored' = [stored EXCEPT ![i] = 1]

Advance == (After(disk, disk') /\ stored' = stored) \/ \E i \in Items : Stores(i)

\* What is queued is an item nothing has become of yet.
LEMMA QueuedAreItems ==
    ASSUME NEW f, FileInv(f)
    PROVE  /\ \A i \in Queued(f) : i \in Items /\ f.fate[i] = "none"
           /\ f.attempts \in [Items -> 0..MaxAttempts]
           /\ f.entries \in Seq(Items) /\ Queued(f) = {f.entries[n] : n \in 1..Len(f.entries)}
BY FileCount DEF FileInv, Shape, Accounts, Queued

\* Whatever is saved of the copy of a command, an entry takes at most one step.
LEMMA AfterBehind ==
    ASSUME NEW d, NEW m, NEW g, FileInv(d), FileInv(m), FileInv(g), Behind(m, d),
           \A i \in Items :
               \/ (i \in Queued(g) <=> i \in Queued(m)) /\ g.fate[i] = m.fate[i]
               \/ i \in Queued(m) /\ i \notin Queued(g) /\ g.fate[i] = "expired"
               \/ i \in Queued(m) /\ i \notin Queued(g) /\ g.fate[i] = "delivered" /\ stored[i] = 1
    PROVE  After(d, g)
<1> SUFFICES ASSUME NEW i \in Items
             PROVE  \/ (i \in Queued(g) <=> i \in Queued(d)) /\ g.fate[i] = d.fate[i]
                    \/ i \notin Queued(d) /\ d.fate[i] = "none" /\ i \in Queued(g)
                    \/ i \in Queued(d) /\ i \notin Queued(g) /\ g.fate[i] = "expired"
                    \/ i \in Queued(d) /\ i \notin Queued(g) /\ g.fate[i] = "delivered" /\ stored[i] = 1
  BY DEF After
<1>1. /\ i \in Queued(m) => i \in Queued(d) /\ m.fate[i] = "none"
      /\ i \in Queued(d) => d.fate[i] = "none"
      /\ i \in Queued(d) /\ i \notin Queued(m) => m.fate[i] = "expired"
      /\ i \notin Queued(d) => m.fate[i] = d.fate[i]
  BY QueuedAreItems DEF Behind
<1> QED
  BY <1>1

\* A file is what may become of it.
LEMMA AfterSame ==
    ASSUME NEW d PROVE After(d, d) /\ Behind(d, d)
BY DEF After, Behind

\* What a save does to the files, and to what is counted.
LEMMA SavedFiles ==
    ASSUME NEW g, g \in Files, FileInv(g), Save(g)
    PROVE  QueueFiles'
<1>1. disk' = g /\ mem' = g
  BY DEF Save
<1>2. disk' \in Files /\ FileInv(disk') /\ mem' \in Files /\ FileInv(mem')
  BY <1>1
<1>3. Behind(mem', disk')
  BY <1>1, AfterSame
<1> QED
  BY <1>2, <1>3 DEF QueueFiles

\* What a save counts is no less than what was sent.
LEMMA SavedCounts ==
    ASSUME UploadInv, NEW g, FileInv(g), disk' = g, After(disk, g), sends' = sends, flush' # "intent",
           \A i \in Queued(disk) : g.attempts[i] = disk.attempts[i],
           \A i \in Items : i \notin Queued(disk) => g.attempts[i] \in Nat
    PROVE  Counted'
<1>1. /\ sends \in [Items -> Nat]
      /\ \A i \in Queued(disk) : disk.attempts[i] = MaxAttempts \/ sends[i] <= disk.attempts[i]
      /\ \A i \in Items : i \notin Queued(disk) /\ disk.fate[i] = "none" => sends[i] = 0
  BY DEF UploadInv, Counted, SentIsCounted
<1>2. \A i \in Queued(g) : g.attempts[i] = MaxAttempts \/ sends[i] <= g.attempts[i]
  <2> SUFFICES ASSUME NEW i \in Queued(g) PROVE g.attempts[i] = MaxAttempts \/ sends[i] <= g.attempts[i]
    OBVIOUS
  <2>1. i \in Items
    BY QueuedAreItems
  <2>2. CASE i \in Queued(disk)
    BY <1>1, <2>2
  <2>3. CASE i \notin Queued(disk)
    <3>1. disk.fate[i] = "none"
      <4>1. FileInv(g) /\ g.fate[i] = "none"
        BY QueuedAreItems
      <4> QED
        BY <2>1, <2>3, <4>1 DEF After
    <3>2. sends[i] = 0 /\ g.attempts[i] \in Nat
      BY <1>1, <2>1, <2>3, <3>1
    <3> QED
      BY <3>2
  <2> QED
    BY <2>2, <2>3
<1>3. \A i \in Items : i \notin Queued(g) /\ g.fate[i] = "none" => sends[i] = 0
  <2> SUFFICES ASSUME NEW i \in Items, i \notin Queued(g), g.fate[i] = "none" PROVE sends[i] = 0
    OBVIOUS
  <2>1. i \notin Queued(disk) /\ disk.fate[i] = "none"
    BY DEF After
  <2> QED
    BY <1>1, <2>1
<1>4. SentIsCounted'
  BY <1>2 DEF SentIsCounted, Queued
<1>5. \A i \in Items : i \notin Queued(disk)' /\ disk'.fate[i] = "none" => sends'[i] = 0
  BY <1>3 DEF Queued
<1> QED
  BY <1>1, <1>4, <1>5 DEF Counted

\* The server, and the answer, are as they were.
LEMMA ServerStays ==
    ASSUME UploadInv, UNCHANGED <<serverVars, sends>>, flush' \notin {"flying", "answered"}
    PROVE  Served'
BY DEF UploadInv, Served, serverVars

\* An entry is as it was, or has expired.
LEMMA Expired ==
    ASSUME NEW f, f \in Files, FileInv(f), NEW gone
    PROVE  \A i \in Items :
               \/ (i \in Queued(ExpireAll(f, gone)) <=> i \in Queued(f)) /\ ExpireAll(f, gone).fate[i] = f.fate[i]
               \/ i \in Queued(f) /\ i \notin Queued(ExpireAll(f, gone)) /\ ExpireAll(f, gone).fate[i] = "expired"
BY ExpireAllKeeps

\* An attempt count is a number up to its limit.
LEMMA AttemptsAreNat ==
    ASSUME NEW f, FileInv(f), NEW i \in Items
    PROVE  f.attempts[i] \in Nat /\ f.attempts[i] <= MaxAttempts
BY Limits DEF FileInv, Shape

\* enqueue adds an entry that was not queued before, or says why it cannot.
LEMMA EnqueueKeeps ==
    ASSUME UploadInv, NEW i \in Items, Enqueue(i)
    PROVE  UploadInv' /\ Advance
<1> DEFINE f == ExpireAll(disk, expired)
           g == [f EXCEPT !.entries = Append(@, i), !.observed = @ + 1]
<1>1. disk \in Files /\ FileInv(disk)
  BY DEF UploadInv, QueueFiles
<1>2. /\ flush = "idle" /\ i \notin Queued(disk) /\ disk.fate[i] = "none" /\ Save(g)
      /\ UNCHANGED <<flush, todo, current, answer, serverVars, sends>>
  BY DEF Enqueue, flushVars
<1>3. /\ f \in Files /\ FileInv(f) /\ Queued(f) = Queued(disk) \ expired /\ f.attempts = disk.attempts
      /\ \A j \in Items : f.fate[j] = IF j \in expired /\ j \in Queued(disk) THEN "expired" ELSE disk.fate[j]
  BY <1>1, ExpireAllKeeps
<1> HIDE DEF f
<1>4. i \notin Queued(f) /\ f.fate[i] = "none"
  BY <1>2, <1>3
<1>5. /\ g \in Files /\ FileInv(g) /\ Queued(g) = Queued(f) \cup {i}
      /\ g.attempts = f.attempts /\ g.fate = f.fate
  BY <1>3, <1>4, EnqueuedKeeps
<1> HIDE DEF g
<1>6. After(disk, g)
  BY <1>2, <1>3, <1>5 DEF After
<1>7. QueueFiles'
  BY <1>2, <1>5, SavedFiles
<1>8. Flushing'
  BY <1>2 DEF UploadInv, Flushing, Busy
<1>9. Counted'
  <2>1. disk' = g /\ sends' = sends /\ flush' # "intent"
    BY <1>2 DEF Save
  <2>2. \A j \in Items : g.attempts[j] \in Nat /\ g.attempts[j] = disk.attempts[j]
    BY <1>3, <1>5, AttemptsAreNat
  <2>3. Queued(disk) \subseteq Items
    BY <1>1, QueuedAreItems
  <2> QED
    BY <1>5, <1>6, <2>1, <2>2, <2>3, SavedCounts
<1>10. Served'
  BY <1>2, ServerStays
<1>11. Advance
  BY <1>2, <1>6 DEF Advance, Save, serverVars
<1> QED
  BY <1>7, <1>8, <1>9, <1>10, <1>11 DEF UploadInv

\* A file that is saved, with the attempts and the expired entries of one
\* that is behind the file on disk.
LEMMA SaveKeeps ==
    ASSUME UploadInv, NEW g, g \in Files, FileInv(g), Save(g), After(disk, g), g.attempts = disk.attempts,
           UNCHANGED <<serverVars, sends>>, Flushing', flush' \in {"idle", "scan"}
    PROVE  UploadInv' /\ Advance
<1>1. disk \in Files /\ FileInv(disk)
  BY DEF UploadInv, QueueFiles
<1>2. QueueFiles'
  BY SavedFiles
<1>3. disk' = g /\ sends' = sends /\ flush' # "intent"
  BY DEF Save
<1>4. \A j \in Items : g.attempts[j] \in Nat /\ g.attempts[j] = disk.attempts[j]
  BY AttemptsAreNat
<1>5. Queued(disk) \subseteq Items
  BY <1>1, QueuedAreItems
<1>6. Counted'
  BY <1>3, <1>4, <1>5, SavedCounts
<1>7. Served'
  BY ServerStays
<1>8. Advance
  BY <1>3 DEF Advance, serverVars
<1> QED
  BY <1>2, <1>6, <1>7, <1>8 DEF UploadInv

\* Looking at the queue saves what has expired.
LEMMA InspectKeeps ==
    ASSUME UploadInv, Inspect
    PROVE  UploadInv' /\ Advance
<1> DEFINE g == ExpireAll(disk, expired)
<1>1. disk \in Files /\ FileInv(disk) /\ Flushing
  BY DEF UploadInv, QueueFiles
<1>2. flush = "idle" /\ Save(g) /\ UNCHANGED <<flush, todo, current, answer, serverVars, sends>>
  BY DEF Inspect, flushVars
<1>3. g \in Files /\ FileInv(g) /\ g.attempts = disk.attempts
  BY <1>1, ExpireAllKeeps
<1>4. After(disk, g)
  <2>1. Behind(disk, disk)
    BY AfterSame
  <2> QED
    BY <1>1, <1>3, <2>1, Expired, AfterBehind
<1> HIDE DEF g
<1>5. Flushing' /\ flush' \in {"idle", "scan"}
  BY <1>1, <1>2 DEF Flushing, Busy
<1> QED
  BY <1>2, <1>3, <1>4, <1>5, SaveKeeps

\* A flush begins with what has not expired.
LEMMA FlushBeginKeeps ==
    ASSUME UploadInv, FlushBegin
    PROVE  UploadInv' /\ Advance
<1> DEFINE g == ExpireAll(disk, expired)
<1>1. disk \in Files /\ FileInv(disk)
  BY DEF UploadInv, QueueFiles
<1>2. /\ flush = "idle" /\ mem' = g /\ todo' = mem'.entries /\ flush' = "scan"
      /\ UNCHANGED <<disk, current, answer, serverVars, sends>>
  BY DEF FlushBegin
<1>3. /\ g \in Files /\ FileInv(g) /\ g.attempts = disk.attempts /\ Queued(g) = Queued(disk) \ expired
      /\ \A i \in Items : g.fate[i] = IF i \in expired /\ i \in Queued(disk) THEN "expired" ELSE disk.fate[i]
  BY <1>1, ExpireAllKeeps
<1> HIDE DEF g
<1>4. Behind(g, disk)
  <2>1. Queued(disk) \subseteq Items
    BY <1>1, QueuedAreItems
  <2> QED
    BY <1>3, <2>1 DEF Behind
<1>5. QueueFiles'
  <2>1. disk' \in Files /\ FileInv(disk') /\ mem' \in Files /\ FileInv(mem') /\ Behind(mem', disk')
    BY <1>1, <1>2, <1>3, <1>4
  <2> QED
    BY <2>1 DEF QueueFiles
<1>6. Flushing'
  <2>1. /\ todo' = g.entries /\ g.entries \in Seq(Items) /\ Queued(g) = {g.entries[n] : n \in 1..Len(g.entries)}
        /\ \A m, n \in 1..Len(g.entries) : g.entries[m] = g.entries[n] => m = n
    BY <1>2, <1>3, QueuedAreItems DEF FileInv, Accounts
  <2>2. \A n \in 1..Len(todo') : todo'[n] \in Queued(mem')
    BY <1>2, <2>1
  <2> QED
    BY <1>2, <2>1, <2>2 DEF Flushing, Busy
<1>7. Counted'
  BY <1>2 DEF UploadInv, Counted, SentIsCounted, Queued
<1>8. Served'
  BY <1>2, ServerStays
<1>9. Advance
  BY <1>2, AfterSame DEF Advance, serverVars
<1> QED
  BY <1>5, <1>6, <1>7, <1>8, <1>9 DEF UploadInv

\* What is left of a list without repetitions does not have its head.
LEMMA HeadAndTail ==
    ASSUME NEW s \in Seq(Items), s # <<>>, \A m, n \in 1..Len(s) : s[m] = s[n] => m = n
    PROVE  /\ Tail(s) \in Seq(Items) /\ Head(s) = s[1] /\ 1 \in 1..Len(s)
           /\ \A n \in 1..Len(Tail(s)) : n + 1 \in 1..Len(s) /\ Tail(s)[n] = s[n + 1] /\ Tail(s)[n] # Head(s)
           /\ \A m, n \in 1..Len(Tail(s)) : Tail(s)[m] = Tail(s)[n] => m = n
<1>1. Tail(s) \in Seq(Items) /\ Head(s) = s[1] /\ Len(s) > 0 /\ Len(s) \in Nat
  OBVIOUS
<1>2. Len(Tail(s)) = Len(s) - 1 /\ \A n \in 1..Len(s) - 1 : Tail(s)[n] = s[n + 1]
  OBVIOUS
<1> DEFINE t == Tail(s)
<1> HIDE DEF t
<1>3. \A n \in 1..Len(t) : n + 1 \in 1..Len(s) /\ t[n] = s[n + 1] /\ n + 1 # 1
  BY <1>1, <1>2 DEF t
<1>4. 1 \in 1..Len(s)
  BY <1>1
<1>5. \A n \in 1..Len(t) : t[n] # s[1]
  BY <1>3, <1>4
<1>6. \A m, n \in 1..Len(t) : t[m] = t[n] => m = n
  <2> SUFFICES ASSUME NEW m \in 1..Len(t), NEW n \in 1..Len(t), t[m] = t[n] PROVE m = n
    OBVIOUS
  <2>1. m + 1 = n + 1
    BY <1>3
  <2>2. m \in Nat /\ n \in Nat
    OBVIOUS
  <2> QED
    BY <2>1, <2>2
<1> QED
  BY <1>1, <1>3, <1>4, <1>5, <1>6 DEF t

\* The next entry of a flush, and the ones it looks at afterwards.
LEMMA NextEntry ==
    ASSUME UploadInv, flush # "idle", todo # <<>>
    PROVE  /\ Head(todo) \in Queued(mem) /\ Head(todo) \in Items /\ Tail(todo) \in Seq(Items)
           /\ \A n \in 1..Len(Tail(todo)) : Tail(todo)[n] \in Queued(mem) /\ Tail(todo)[n] # Head(todo)
           /\ \A m, n \in 1..Len(Tail(todo)) : Tail(todo)[m] = Tail(todo)[n] => m = n
<1>1. /\ todo \in Seq(Items) /\ \A m, n \in 1..Len(todo) : todo[m] = todo[n] => m = n
      /\ \A n \in 1..Len(todo) : todo[n] \in Queued(mem)
  BY DEF UploadInv, Flushing
<1>2. todo \in Seq(Items)
  BY <1>1
<1>3. /\ Tail(todo) \in Seq(Items) /\ Head(todo) = todo[1] /\ 1 \in 1..Len(todo)
      /\ \A n \in 1..Len(Tail(todo)) : n + 1 \in 1..Len(todo) /\ Tail(todo)[n] = todo[n + 1] /\ Tail(todo)[n] # Head(todo)
      /\ \A m, n \in 1..Len(Tail(todo)) : Tail(todo)[m] = Tail(todo)[n] => m = n
  BY <1>1, <1>2, HeadAndTail
<1>4. \A i \in Queued(mem) : i \in Items
  BY QueuedAreItems DEF UploadInv, QueueFiles
<1> QED
  BY <1>1, <1>3, <1>4

\* What a command saves of its copy when entries of it expired.
LEMMA ExpiredSave ==
    ASSUME UploadInv, NEW gone
    PROVE  LET g == ExpireAll(mem, gone)
           IN  /\ g \in Files /\ FileInv(g) /\ After(disk, g) /\ g.attempts = disk.attempts
               /\ Queued(g) = Queued(mem) \ gone
<1> DEFINE g == ExpireAll(mem, gone)
<1>1. disk \in Files /\ FileInv(disk) /\ mem \in Files /\ FileInv(mem) /\ Behind(mem, disk)
  BY DEF UploadInv, QueueFiles
<1>2. g \in Files /\ FileInv(g) /\ g.attempts = mem.attempts /\ Queued(g) = Queued(mem) \ gone
  BY <1>1, ExpireAllKeeps
<1>3. After(disk, g)
  BY <1>1, <1>2, Expired, AfterBehind
<1>4. g.attempts = disk.attempts
  BY <1>1, <1>2 DEF Behind
<1> QED
  BY <1>2, <1>3, <1>4

\* Nothing of the files, the server and the requests changes.
LEMMA IdleKeeps ==
    ASSUME UploadInv, UNCHANGED <<disk, mem, serverVars, sends>>, Flushing', flush' \in {"idle", "scan"}
    PROVE  UploadInv' /\ Advance
<1>1. QueueFiles'
  <2>1. disk' \in Files /\ FileInv(disk') /\ mem' \in Files /\ FileInv(mem') /\ Behind(mem', disk')
    BY DEF UploadInv, QueueFiles
  <2> QED
    BY <2>1 DEF QueueFiles
<1>2. Counted'
  BY DEF UploadInv, Counted, SentIsCounted, Queued
<1>3. Served'
  BY ServerStays
<1>4. Advance
  BY AfterSame DEF Advance, serverVars
<1> QED
  BY <1>1, <1>2, <1>3, <1>4 DEF UploadInv

\* An entry that waits, or has expired, is passed over.
LEMMA PassKeeps ==
    ASSUME UploadInv, Pass
    PROVE  UploadInv' /\ Advance
<1> DEFINE i == Head(todo)
           g == ExpireAll(mem, {i})
<1>1. /\ flush = "scan" /\ todo # <<>> /\ todo' = Tail(todo)
      /\ Save(g) \/ UNCHANGED <<disk, mem>>
      /\ UNCHANGED <<flush, current, answer, serverVars, sends>>
  BY DEF Pass, fileVars
<1>2. /\ i \in Queued(mem) /\ Tail(todo) \in Seq(Items)
      /\ \A n \in 1..Len(Tail(todo)) : Tail(todo)[n] \in Queued(mem) /\ Tail(todo)[n] # i
      /\ \A m, n \in 1..Len(Tail(todo)) : Tail(todo)[m] = Tail(todo)[n] => m = n
  BY <1>1, NextEntry
<1>3. CASE Save(g)
  <2>1. g \in Files /\ FileInv(g) /\ After(disk, g) /\ g.attempts = disk.attempts /\ Queued(g) = Queued(mem) \ {i}
    BY ExpiredSave
  <2> HIDE DEF i
  <2> HIDE DEF g
  <2>2. mem' = g
    BY <1>3 DEF Save
  <2>3. \A n \in 1..Len(todo') : todo'[n] \in Queued(mem')
    BY <1>1, <1>2, <2>1, <2>2
  <2>4. Flushing' /\ flush' \in {"idle", "scan"}
    BY <1>1, <1>2, <2>3 DEF Flushing, Busy
  <2> QED
    BY <1>1, <1>3, <2>1, <2>4, SaveKeeps
<1>4. CASE UNCHANGED <<disk, mem>>
  <2>1. \A n \in 1..Len(todo') : todo'[n] \in Queued(mem')
    BY <1>1, <1>2, <1>4
  <2>2. Flushing' /\ flush' \in {"idle", "scan"}
    BY <1>1, <1>2, <2>1 DEF Flushing, Busy
  <2> QED
    BY <1>1, <1>4, <2>2, IdleKeeps
<1> QED
  BY <1>1, <1>3, <1>4

\* The attempt is counted and saved before the request leaves (flush).
LEMMA BeginAttemptKeeps ==
    ASSUME UploadInv, BeginAttempt
    PROVE  UploadInv' /\ Advance
<1> DEFINE i == Head(todo)
           g == Attempted(mem, i)
<1>1. /\ flush = "scan" /\ todo # <<>> /\ todo' = Tail(todo) /\ flush' = "intent" /\ current' = i
      /\ Save(g) /\ UNCHANGED <<answer, serverVars, sends>>
  BY DEF BeginAttempt
<1>2. /\ i \in Queued(mem) /\ i \in Items /\ Tail(todo) \in Seq(Items)
      /\ \A n \in 1..Len(Tail(todo)) : Tail(todo)[n] \in Queued(mem) /\ Tail(todo)[n] # i
      /\ \A m, n \in 1..Len(Tail(todo)) : Tail(todo)[m] = Tail(todo)[n] => m = n
  BY <1>1, NextEntry
<1> HIDE DEF i
<1>3. disk \in Files /\ FileInv(disk) /\ mem \in Files /\ FileInv(mem) /\ Behind(mem, disk)
  BY DEF UploadInv, QueueFiles
<1>4. /\ SameEntries(mem, g)
      /\ \A j \in Items : g.attempts[j] =
           IF j = i /\ mem.attempts[i] # MaxAttempts THEN mem.attempts[i] + 1 ELSE mem.attempts[j]
  BY <1>2, <1>3, AttemptedKeeps
<1> HIDE DEF g
<1>5. g \in Files /\ FileInv(g) /\ Queued(g) = Queued(mem) /\ g.fate = mem.fate
  BY <1>4 DEF SameEntries
<1>6. After(disk, g)
  BY <1>3, <1>5, AfterBehind
<1>7. disk' = g /\ mem' = g /\ mem.attempts = disk.attempts
  BY <1>1, <1>3 DEF Save, Behind
<1>8. QueueFiles'
  BY <1>1, <1>5, SavedFiles
<1>9. Flushing'
  <2>1. \A n \in 1..Len(todo') : todo'[n] \in Queued(mem') /\ todo'[n] # current'
    BY <1>1, <1>2, <1>5, <1>7
  <2>2. current' \in Queued(mem')
    BY <1>1, <1>2, <1>5, <1>7
  <2> QED
    BY <1>1, <1>2, <2>1, <2>2 DEF Flushing, Busy
<1>10. Counted'
  <2>1. /\ sends \in [Items -> Nat]
        /\ \A j \in Queued(disk) : disk.attempts[j] = MaxAttempts \/ sends[j] <= disk.attempts[j]
        /\ \A j \in Items : j \notin Queued(disk) /\ disk.fate[j] = "none" => sends[j] = 0
    BY DEF UploadInv, Counted, SentIsCounted
  <2>2. i \in Queued(disk)
    BY <1>2, <1>3 DEF Behind
  <2>3. \A j \in Queued(g) : j \in Queued(disk) /\ j \in Items
    BY <1>3, <1>5, QueuedAreItems DEF Behind
  <2>4. \A j \in Items : sends[j] \in Nat /\ disk.attempts[j] \in Nat /\ disk.attempts[j] <= MaxAttempts
    BY <1>3, <2>1, AttemptsAreNat
  <2>5. \A j \in Queued(g) : g.attempts[j] = MaxAttempts \/ sends[j] <= g.attempts[j]
    BY <1>4, <1>7, <2>1, <2>3, <2>4, Limits
  <2>6. g.attempts[i] = MaxAttempts \/ sends[i] < g.attempts[i]
    BY <1>2, <1>4, <1>7, <2>1, <2>2, <2>4, Limits
  <2>7. \A j \in Items : j \notin Queued(g) /\ g.fate[j] = "none" => sends[j] = 0
    BY <1>6, <2>1 DEF After
  <2>8. SentIsCounted'
    BY <1>1, <1>7, <2>5 DEF SentIsCounted, Queued
  <2>9. \A j \in Items : j \notin Queued(disk)' /\ disk'.fate[j] = "none" => sends'[j] = 0
    BY <1>1, <1>7, <2>7 DEF Queued
  <2> QED
    BY <1>1, <1>7, <2>1, <2>6, <2>8, <2>9 DEF Counted
<1>11. Served'
  BY <1>1, ServerStays
<1>12. Advance
  BY <1>1, <1>6, <1>7 DEF Advance, serverVars
<1> QED
  BY <1>8, <1>9, <1>10, <1>11, <1>12 DEF UploadInv

\* The entry expires between the look and the request.
LEMMA IntentExpiredKeeps ==
    ASSUME UploadInv, IntentExpired
    PROVE  UploadInv' /\ Advance
<1> DEFINE g == ExpireAll(mem, {current})
<1>1. /\ flush = "intent" /\ Save(g) /\ flush' = "scan"
      /\ UNCHANGED <<todo, answer, serverVars, sends>>
  BY DEF IntentExpired
<1>2. g \in Files /\ FileInv(g) /\ After(disk, g) /\ g.attempts = disk.attempts /\ Queued(g) = Queued(mem) \ {current}
  BY ExpiredSave
<1> HIDE DEF g
<1>3. mem' = g
  BY <1>1 DEF Save
<1>4. Flushing' /\ flush' \in {"idle", "scan"}
  <2>1. \A n \in 1..Len(todo') : todo'[n] \in Queued(mem')
    BY <1>1, <1>2, <1>3 DEF UploadInv, Flushing, Busy
  <2> QED
    BY <1>1, <2>1 DEF UploadInv, Flushing, Busy
<1> QED
  BY <1>1, <1>2, <1>4, SaveKeeps

\* What touches neither the file nor the copy keeps both.
LEMMA FilesStay ==
    ASSUME UploadInv, UNCHANGED <<disk, mem>>
    PROVE  QueueFiles'
<1>1. disk' \in Files /\ FileInv(disk') /\ mem' \in Files /\ FileInv(mem') /\ Behind(mem', disk')
  BY DEF UploadInv, QueueFiles
<1> QED
  BY <1>1 DEF QueueFiles

\* The entry that is being sent is one that is queued.
LEMMA CurrentIsQueued ==
    ASSUME UploadInv, Busy
    PROVE  current \in Queued(mem) /\ current \in Queued(disk) /\ current \in Items
<1>1. current \in Queued(mem)
  BY DEF UploadInv, Flushing
<1> QED
  BY <1>1, QueuedAreItems DEF UploadInv, QueueFiles, Behind

\* The request leaves.
LEMMA SendKeeps ==
    ASSUME UploadInv, Send
    PROVE  UploadInv' /\ Advance
<1>1. /\ flush = "intent" /\ flush' = "flying" /\ sends' = [sends EXCEPT ![current] = @ + 1]
      /\ UNCHANGED <<disk, mem, todo, current, answer, late, ledger, stored>>
  BY DEF Send, fileVars, serverVars
<1>2. current \in Queued(mem) /\ current \in Queued(disk) /\ current \in Items
  BY <1>1, CurrentIsQueued DEF Busy
<1>3. QueueFiles'
  BY <1>1, FilesStay
<1>4. Flushing'
  BY <1>1 DEF UploadInv, Flushing, Busy, Queued
<1>5. /\ sends \in [Items -> Nat]
      /\ \A j \in Queued(disk) : disk.attempts[j] = MaxAttempts \/ sends[j] <= disk.attempts[j]
      /\ disk.attempts[current] = MaxAttempts \/ sends[current] < disk.attempts[current]
      /\ \A j \in Items : j \notin Queued(disk) /\ disk.fate[j] = "none" => sends[j] = 0
  BY <1>1 DEF UploadInv, Counted, SentIsCounted
<1>6. /\ sends' \in [Items -> Nat] /\ sends'[current] > 0
      /\ \A j \in Items : sends'[j] = IF j = current THEN sends[j] + 1 ELSE sends[j]
  BY <1>1, <1>2, <1>5
<1>7. Counted'
  <2>1. \A j \in Queued(disk) : j \in Items /\ disk.attempts[j] \in Nat /\ sends[j] \in Nat
    BY <1>5, QueuedAreItems, AttemptsAreNat DEF UploadInv, QueueFiles
  <2>2. \A j \in Queued(disk) : disk.attempts[j] = MaxAttempts \/ sends'[j] <= disk.attempts[j]
    BY <1>2, <1>5, <1>6, <2>1
  <2>3. SentIsCounted'
    BY <1>1, <2>2 DEF SentIsCounted, Queued
  <2>4. \A j \in Items : j \notin Queued(disk)' /\ disk'.fate[j] = "none" => sends'[j] = 0
    BY <1>1, <1>2, <1>5, <1>6 DEF Queued
  <2> QED
    BY <1>1, <1>6, <2>3, <2>4 DEF Counted
<1>8. Served'
  <2>1. \A i \in Items : late[i] > 0 => sends'[i] > 0
    BY <1>5, <1>6 DEF UploadInv, Served
  <2> QED
    BY <1>1, <1>6, <2>1 DEF UploadInv, Served
<1>9. Advance
  BY <1>1, AfterSame DEF Advance
<1> QED
  BY <1>3, <1>4, <1>7, <1>8, <1>9 DEF UploadInv

\* A request the client no longer waits for was sent.
LEMMA LateKeeps ==
    ASSUME UploadInv, UNCHANGED <<ledger, stored, sends>>, flush = "flying",
           late' = late \/ late' = [late EXCEPT ![current] = @ + 1],
           flush' # "flying", flush' = "answered" => answer' # "stored"
    PROVE  Served'
<1>1. current \in Items /\ sends[current] > 0
  BY CurrentIsQueued DEF Busy, UploadInv, Served
<1>2. late' \in [Items -> Nat] /\ \A i \in Items : late'[i] > 0 => sends[i] > 0
  BY <1>1 DEF UploadInv, Served
<1> QED
  BY <1>2 DEF UploadInv, Served

\* No answer comes: the entry stays, and its attempt stays counted.
LEMMA NoAnswerKeeps ==
    ASSUME UploadInv, NoAnswer
    PROVE  UploadInv' /\ Advance
<1>1. /\ flush = "flying" /\ flush' = "answered" /\ answer' = "unavailable"
      /\ late' = late \/ late' = [late EXCEPT ![current] = @ + 1]
      /\ UNCHANGED <<disk, mem, todo, current, ledger, stored, sends>>
  BY DEF NoAnswer, fileVars
<1>2. QueueFiles'
  BY <1>1, FilesStay
<1>3. Flushing'
  <2>1. Queued(mem)' = Queued(mem)
    BY <1>1
  <2> HIDE DEF Queued
  <2> QED
    BY <1>1, <2>1 DEF UploadInv, Flushing, Busy
<1>4. Counted'
  <2>1. Queued(disk)' = Queued(disk)
    BY <1>1
  <2> HIDE DEF Queued
  <2> QED
    BY <1>1, <2>1 DEF UploadInv, Counted, SentIsCounted
<1>5. Served'
  BY <1>1, LateKeeps
<1>6. Advance
  BY <1>1, AfterSame DEF Advance
<1> QED
  BY <1>2, <1>3, <1>4, <1>5, <1>6 DEF UploadInv

\* The answer decides what becomes of the entry.
LEMMA TakeAnswerKeeps ==
    ASSUME UploadInv, TakeAnswer
    PROVE  UploadInv' /\ Advance
<1> DEFINE g == IF answer = "stored" THEN Delivered(mem, current)
                ELSE IF current \in expired THEN ExpireAll(mem, {current})
                ELSE Failed(mem, current, answer)
<1>1. flush = "answered" /\ Save(g) /\ flush' = "scan" /\ UNCHANGED <<todo, serverVars, sends>>
  BY DEF TakeAnswer
<1>2. current \in Queued(mem) /\ current \in Queued(disk) /\ current \in Items
  BY <1>1, CurrentIsQueued DEF Busy
<1>3. disk \in Files /\ FileInv(disk) /\ mem \in Files /\ FileInv(mem) /\ Behind(mem, disk)
  BY DEF UploadInv, QueueFiles
<1>4. answer = "stored" => stored[current] = 1
  BY <1>1 DEF UploadInv, Served
<1>5. /\ g \in Files /\ FileInv(g) /\ After(disk, g) /\ g.attempts = disk.attempts
      /\ Queued(g) = Queued(mem) \ {current} \/ Queued(g) = Queued(mem)
  <2>1. CASE answer = "stored"
    <3>1. g = Delivered(mem, current)
      BY <2>1
    <3> HIDE DEF g
    <3>2. /\ g \in Files /\ FileInv(g) /\ Queued(g) = Queued(mem) \ {current} /\ g.attempts = mem.attempts
          /\ \A j \in Items : g.fate[j] = IF j = current THEN "delivered" ELSE mem.fate[j]
      BY <1>2, <1>3, <3>1, DeliveredKeeps
    <3>3. \A j \in Items :
               \/ (j \in Queued(g) <=> j \in Queued(mem)) /\ g.fate[j] = mem.fate[j]
               \/ j \in Queued(mem) /\ j \notin Queued(g) /\ g.fate[j] = "expired"
               \/ j \in Queued(mem) /\ j \notin Queued(g) /\ g.fate[j] = "delivered" /\ stored[j] = 1
      BY <1>2, <1>4, <2>1, <3>2
    <3>4. After(disk, g)
      BY <1>3, <3>2, <3>3, AfterBehind
    <3> QED
      BY <1>3, <3>2, <3>4 DEF Behind
  <2>2. CASE answer # "stored" /\ current \in expired
    <3>1. g = ExpireAll(mem, {current})
      BY <2>2
    <3> QED
      BY <3>1, ExpiredSave
  <2>3. CASE answer # "stored" /\ current \notin expired
    <3>1. g = Failed(mem, current, answer)
      BY <2>3
    <3> HIDE DEF g
    <3>2. /\ g \in Files /\ FileInv(g) /\ Queued(g) = Queued(mem) /\ g.attempts = mem.attempts
          /\ g.fate = mem.fate
      BY <1>2, <1>3, <3>1, FailedKeeps DEF SameEntries
    <3>3. After(disk, g)
      BY <1>3, <3>2, AfterBehind
    <3> QED
      BY <1>3, <3>2, <3>3 DEF Behind
  <2> QED
    BY <2>1, <2>2, <2>3
<1> HIDE DEF g
<1>6. mem' = g
  BY <1>1 DEF Save
<1>7. Flushing' /\ flush' \in {"idle", "scan"}
  <2>1. /\ \A n \in 1..Len(todo) : todo[n] \in Queued(mem) /\ todo[n] # current
    BY <1>1 DEF UploadInv, Flushing, Busy
  <2>2. \A n \in 1..Len(todo') : todo'[n] \in Queued(mem')
    BY <1>1, <1>5, <1>6, <2>1
  <2> QED
    BY <1>1, <2>2 DEF UploadInv, Flushing, Busy
<1> QED
  BY <1>1, <1>5, <1>7, SaveKeeps

\* The flush ends when it has looked at each entry.
LEMMA FlushEndKeeps ==
    ASSUME UploadInv, FlushEnd
    PROVE  UploadInv' /\ Advance
<1>1. Save(mem) /\ flush' = "idle" /\ todo' = <<>> /\ UNCHANGED <<serverVars, sends>>
  BY DEF FlushEnd, Stop
<1>2. disk \in Files /\ FileInv(disk) /\ mem \in Files /\ FileInv(mem) /\ Behind(mem, disk)
  BY DEF UploadInv, QueueFiles
<1>3. After(disk, mem) /\ mem.attempts = disk.attempts
  BY <1>2, AfterBehind DEF Behind
<1>4. Flushing' /\ flush' \in {"idle", "scan"}
  <2>1. todo' \in Seq(Items) /\ \A m, n \in 1..Len(todo') : todo'[m] = todo'[n] => m = n
    BY <1>1
  <2> QED
    BY <1>1, <2>1 DEF Flushing, Busy
<1> QED
  BY <1>1, <1>2, <1>3, <1>4, SaveKeeps

\* A crash loses the copy, never the file.
LEMMA CrashKeeps ==
    ASSUME UploadInv, Crash
    PROVE  UploadInv' /\ Advance
<1>1. /\ mem' = disk /\ disk' = disk /\ flush' = "idle" /\ todo' = <<>> /\ answer' = "none"
      /\ UNCHANGED <<ledger, stored, sends>>
      /\ IF flush = "flying" THEN late' = late \/ late' = [late EXCEPT ![current] = @ + 1] ELSE late' = late
  BY DEF Crash
<1>2. QueueFiles'
  <2>1. disk' \in Files /\ FileInv(disk') /\ mem' \in Files /\ FileInv(mem') /\ Behind(mem', disk')
    BY <1>1, AfterSame DEF UploadInv, QueueFiles
  <2> QED
    BY <2>1 DEF QueueFiles
<1>3. Flushing'
  <2>1. todo' \in Seq(Items) /\ \A m, n \in 1..Len(todo') : todo'[m] = todo'[n] => m = n
    BY <1>1
  <2> QED
    BY <1>1, <2>1 DEF Flushing, Busy
<1>4. Counted'
  BY <1>1 DEF UploadInv, Counted, SentIsCounted, Queued
<1>5. Served'
  <2>1. CASE flush = "flying"
    BY <1>1, <2>1, LateKeeps
  <2>2. CASE flush # "flying"
    BY <1>1, <2>2, ServerStays DEF serverVars
  <2> QED
    BY <2>1, <2>2
<1>6. Advance
  BY <1>1, AfterSame DEF Advance
<1> QED
  BY <1>2, <1>3, <1>4, <1>5, <1>6 DEF UploadInv

\* A request changes the ledger and what is stored together.
LEMMA HandleKeeps ==
    ASSUME UploadInv, NEW i \in Items, sends[i] > 0, NEW reply, Handle(i, reply), disk' = disk
    PROVE  /\ stored' \in [Items -> {0, 1}] /\ ledger' \in [Items -> {"none", "committed", "deleted"}]
           /\ \A j \in Items : (ledger'[j] = "none" => stored'[j] = 0) /\ (ledger'[j] # "none" => stored'[j] = 1)
           /\ \A j \in Items : stored[j] = 1 => stored'[j] = 1
           /\ reply = "stored" => stored'[i] = 1
           /\ Advance
<1>1. /\ stored \in [Items -> {0, 1}] /\ ledger \in [Items -> {"none", "committed", "deleted"}]
      /\ \A j \in Items : (ledger[j] = "none" => stored[j] = 0) /\ (ledger[j] # "none" => stored[j] = 1)
  BY DEF UploadInv, Served
<1>2. CASE UNCHANGED <<ledger, stored>> /\ (reply = "stored" => ledger[i] = "committed")
  BY <1>1, <1>2, AfterSame DEF Advance
<1>3. CASE /\ ledger[i] = "none" /\ ledger' = [ledger EXCEPT ![i] = "committed"]
           /\ stored' = [stored EXCEPT ![i] = @ + 1]
  <2>1. stored[i] = 0
    BY <1>1, <1>3
  <2>2. stored' = [stored EXCEPT ![i] = 1]
    BY <1>3, <2>1
  <2>3. Advance
    BY <2>1, <2>2 DEF Advance, Stores
  <2> QED
    BY <1>1, <1>3, <2>2, <2>3
<1>4. reply \in Refusals => reply # "stored"
  BY DEF Refusals
<1> QED
  BY <1>2, <1>3, <1>4 DEF Handle

\* The server handles the request the client waits for.
LEMMA HandleCurrentKeeps ==
    ASSUME UploadInv, HandleCurrent
    PROVE  UploadInv' /\ Advance
<1>1. PICK reply \in {"stored", "conflict"} \cup Refusals :
           Handle(current, reply) /\ answer' \in {reply, "unavailable"}
  BY DEF HandleCurrent
<1>2. flush = "flying" /\ flush' = "answered" /\ UNCHANGED <<disk, mem, todo, current, late, sends>>
  BY DEF HandleCurrent, fileVars
<1>3. current \in Items /\ sends[current] > 0
  BY <1>2, CurrentIsQueued DEF Busy, UploadInv, Served
<1>4. /\ stored' \in [Items -> {0, 1}] /\ ledger' \in [Items -> {"none", "committed", "deleted"}]
      /\ \A j \in Items : (ledger'[j] = "none" => stored'[j] = 0) /\ (ledger'[j] # "none" => stored'[j] = 1)
      /\ reply = "stored" => stored'[current] = 1
      /\ Advance
  BY <1>1, <1>2, <1>3, HandleKeeps
<1>5. QueueFiles'
  BY <1>2, FilesStay
<1>6. Flushing'
  BY <1>2 DEF UploadInv, Flushing, Busy, Queued
<1>7. Counted'
  BY <1>2 DEF UploadInv, Counted, SentIsCounted, Queued
<1>8. Served'
  BY <1>1, <1>2, <1>4 DEF UploadInv, Served
<1> QED
  BY <1>4, <1>5, <1>6, <1>7, <1>8 DEF UploadInv

\* The server handles a request the client no longer waits for.
LEMMA HandleLateKeeps ==
    ASSUME UploadInv, NEW i \in Items, HandleLate(i)
    PROVE  UploadInv' /\ Advance
<1>1. PICK reply \in {"stored", "conflict"} \cup Refusals : Handle(i, reply)
  BY DEF HandleLate
<1>2. /\ late[i] > 0 /\ late' = [late EXCEPT ![i] = @ - 1]
      /\ UNCHANGED <<disk, mem, flush, todo, current, answer, sends>>
  BY DEF HandleLate, fileVars, flushVars
<1>3. sends[i] > 0 /\ late \in [Items -> Nat]
  BY <1>2 DEF UploadInv, Served
<1>4. /\ stored' \in [Items -> {0, 1}] /\ ledger' \in [Items -> {"none", "committed", "deleted"}]
      /\ \A j \in Items : (ledger'[j] = "none" => stored'[j] = 0) /\ (ledger'[j] # "none" => stored'[j] = 1)
      /\ \A j \in Items : stored[j] = 1 => stored'[j] = 1
      /\ Advance
  BY <1>1, <1>2, <1>3, HandleKeeps
<1>5. QueueFiles'
  BY <1>2, FilesStay
<1>6. Flushing'
  BY <1>2 DEF UploadInv, Flushing, Busy, Queued
<1>7. Counted'
  BY <1>2 DEF UploadInv, Counted, SentIsCounted, Queued
<1>8. late' \in [Items -> Nat] /\ \A j \in Items : late'[j] > 0 => sends'[j] > 0
  <2>1. \A j \in Items : late[j] \in Nat /\ (late[j] > 0 => sends[j] > 0)
    BY DEF UploadInv, Served
  <2> QED
    BY <1>2, <1>3, <2>1
<1>9. flush' = "answered" /\ answer' = "stored" => stored'[current'] = 1
  <2>1. flush = "answered" => current \in Items
    BY CurrentIsQueued DEF Busy
  <2> QED
    BY <1>2, <1>4, <2>1 DEF UploadInv, Served
<1>10. Served'
  BY <1>2, <1>4, <1>8, <1>9 DEF UploadInv, Served
<1> QED
  BY <1>4, <1>5, <1>6, <1>7, <1>10 DEF UploadInv

\* The administrator and the clock leave the queue alone.
LEMMA OthersKeep ==
    ASSUME UploadInv, UNCHANGED <<disk, mem, flush, todo, current, answer, late, stored, sends>>,
           ledger' = ledger \/ \E i \in Items : ledger[i] = "committed" /\ ledger' = [ledger EXCEPT ![i] = "deleted"]
    PROVE  UploadInv' /\ Advance
<1>1. QueueFiles'
  BY FilesStay
<1>2. Flushing'
  BY DEF UploadInv, Flushing, Busy, Queued
<1>3. Counted'
  BY DEF UploadInv, Counted, SentIsCounted, Queued
<1>4. ledger' \in [Items -> {"none", "committed", "deleted"}] /\ \A i \in Items : ledger'[i] = "none" <=> ledger[i] = "none"
  BY DEF UploadInv, Served
<1>5. Served'
  BY <1>4 DEF UploadInv, Served
<1>6. Advance
  BY AfterSame DEF Advance
<1> QED
  BY <1>1, <1>2, <1>3, <1>5, <1>6 DEF UploadInv

\* Every step of the queue and of the server keeps all this.
LEMMA UploadStep ==
    ASSUME UploadInv, [UploadNext]_uploadVars
    PROVE  UploadInv' /\ Advance
<1>1. CASE UNCHANGED uploadVars
  BY <1>1, OthersKeep DEF uploadVars, fileVars, flushVars, serverVars
<1>2. ASSUME NEW i \in Items, Enqueue(i) PROVE UploadInv' /\ Advance
  BY <1>2, EnqueueKeeps
<1>3. ASSUME NEW i \in Items, HandleLate(i) PROVE UploadInv' /\ Advance
  BY <1>3, HandleLateKeeps
<1>4. ASSUME NEW i \in Items, Delete(i) \/ LifetimeEnds(i) \/ BackoffEnds(i) PROVE UploadInv' /\ Advance
  <2>1. /\ UNCHANGED <<disk, mem, flush, todo, current, answer, late, stored, sends>>
        /\ ledger' = ledger \/ (ledger[i] = "committed" /\ ledger' = [ledger EXCEPT ![i] = "deleted"])
    BY <1>4 DEF Delete, LifetimeEnds, BackoffEnds, fileVars, flushVars, serverVars
  <2> QED
    BY <2>1, OthersKeep
<1> QED
  BY <1>1, <1>2, <1>3, <1>4, InspectKeeps, FlushBeginKeeps, PassKeeps, BeginAttemptKeeps, IntentExpiredKeeps,
     SendKeeps, NoAnswerKeeps, TakeAnswerKeeps, FlushEndKeeps, CrashKeeps, HandleCurrentKeeps DEF UploadNext

\* Nothing is queued, sent or stored.
LEMMA UploadStart ==
    ASSUME UploadInit
    PROVE  UploadInv /\ \A i \in Items : i \notin Queued(disk) /\ disk.fate[i] = "none"
<1>1. /\ disk = Empty /\ mem = Empty /\ flush = "idle" /\ todo = <<>>
      /\ late = [i \in Items |-> 0] /\ ledger = [i \in Items |-> "none"]
      /\ stored = [i \in Items |-> 0] /\ sends = [i \in Items |-> 0]
  BY DEF UploadInit
<1>2. /\ Empty.entries = <<>> /\ Empty.attempts = [i \in Items |-> 0] /\ Empty.blocked = {}
      /\ Empty.observed = 0 /\ Empty.delivered = 0 /\ Empty.expired = 0
      /\ Empty.fate = [i \in Items |-> "none"]
  BY DEF Empty
<1>3. Empty.entries \in Seq(Items) /\ Len(Empty.entries) = 0
  BY <1>2
<1>4. Empty.attempts \in [Items -> 0..MaxAttempts] /\ Empty.fate \in [Items -> {"none", "delivered", "expired"}]
  BY <1>2, Limits
<1>5. Empty \in Files
  <2>1. /\ <<>> \in Seq(Items) /\ [i \in Items |-> 0] \in [Items -> 0..MaxAttempts] /\ {} \in SUBSET Items
        /\ [i \in Items |-> "none"] \in [Items -> {"none", "delivered", "expired"}]
    BY Limits
  <2> QED
    BY <2>1 DEF Empty, Files
<1>6. Queued(Empty) = {}
  BY <1>3 DEF Queued
<1>7. FileInv(Empty)
  <2>1. Empty.observed = Len(Empty.entries) + Empty.delivered + Empty.expired
    BY <1>2, <1>3
  <2>2. \A m, n \in 1..Len(Empty.entries) : Empty.entries[m] = Empty.entries[n] => m = n
    BY <1>3
  <2>3. Empty.observed \in Nat /\ Empty.delivered \in Nat /\ Empty.expired \in Nat
    BY <1>2
  <2> QED
    BY <1>3, <1>4, <1>6, <2>1, <2>2, <2>3 DEF FileInv, Shape, Accounts
<1>8. QueueFiles
  BY <1>1, <1>5, <1>7, AfterSame DEF QueueFiles
<1>9. Flushing
  <2>1. todo \in Seq(Items) /\ \A m, n \in 1..Len(todo) : todo[m] = todo[n] => m = n
    BY <1>1
  <2> QED
    BY <1>1, <2>1 DEF Flushing, Busy
<1>10. Queued(disk) = {}
  BY <1>1, <1>6
<1>11. Counted
  BY <1>1, <1>10 DEF Counted, SentIsCounted
<1>12. Served
  BY <1>1 DEF Served
<1>13. \A i \in Items : disk.fate[i] = "none"
  BY <1>1, <1>2
<1> QED
  BY <1>8, <1>9, <1>10, <1>11, <1>12, <1>13 DEF UploadInv

(* Every entry somebody enqueued is still queued, or was delivered, failed or*)
(* expired, and is told as that; no request leaves uncounted, and what the *)
(* server stored was sent (PersistentUploadQueue).                         *)
THEOREM EntriesAccounted == UploadSpec => []EveryEntryAccounted
<1>1. UploadInit => UploadInv
  BY UploadStart
<1>2. UploadInv /\ [UploadNext]_uploadVars => UploadInv'
  BY UploadStep
<1>3. UploadInv => EveryEntryAccounted
  <2> SUFFICES ASSUME UploadInv PROVE EveryEntryAccounted
    OBVIOUS
  <2>1. FileInv(disk) /\ SentIsCounted
    BY DEF UploadInv, QueueFiles, Counted
  <2>2. Cardinality(Queued(disk)) = Len(disk.entries)
    BY <2>1, FileCount
  <2>3. AllAccounted
    BY <2>1, <2>2 DEF AllAccounted, FileInv, Accounts
  <2> QED
    BY <2>1, <2>3 DEF EveryEntryAccounted
<1> QED
  BY <1>1, <1>2, <1>3, PTL DEF UploadSpec

-----------------------------------------------------------------------------
(* The refinement *)

\* What has become of an entry, by where it is.
LEMMA StatusOf ==
    ASSUME NEW i \in Items
    PROVE  /\ i \in Queued(disk) => Status[i] = "queued"
           /\ i \notin Queued(disk) /\ disk.fate[i] = "none" => Status[i] = "new"
           /\ i \notin Queued(disk) /\ disk.fate[i] # "none" => Status[i] = disk.fate[i]
BY DEF Status

\* The same after a step.
LEMMA StatusOfNext ==
    ASSUME NEW i \in Items
    PROVE  /\ i \in Queued(disk') => Status'[i] = "queued"
           /\ i \notin Queued(disk') /\ disk'.fate[i] = "none" => Status'[i] = "new"
           /\ i \notin Queued(disk') /\ disk'.fate[i] # "none" => Status'[i] = disk'.fate[i]
BY DEF Status, Queued

\* A step of the queue and the server is one of UploadDelivery.
LEMMA AdvanceIsDelivery ==
    ASSUME UploadInv, Advance
    PROVE  Delivery!Next
<1>1. CASE After(disk, disk') /\ stored' = stored
  <2> SUFFICES ASSUME NEW i \in Items PROVE Delivery!Move(i)
    BY <1>1 DEF Delivery!Next, Delivery!Queue
  <2>1. CASE (i \in Queued(disk') <=> i \in Queued(disk)) /\ disk'.fate[i] = disk.fate[i]
    BY <2>1, StatusOf, StatusOfNext DEF Delivery!Move
  <2>2. CASE i \notin Queued(disk) /\ disk.fate[i] = "none" /\ i \in Queued(disk')
    BY <2>2, StatusOf, StatusOfNext DEF Delivery!Move
  <2>3. CASE i \in Queued(disk) /\ i \notin Queued(disk') /\ disk'.fate[i] = "expired"
    BY <2>3, StatusOf, StatusOfNext DEF Delivery!Move
  <2>4. CASE i \in Queued(disk) /\ i \notin Queued(disk') /\ disk'.fate[i] = "delivered" /\ stored[i] = 1
    BY <2>4, StatusOf, StatusOfNext DEF Delivery!Move
  <2> QED
    BY <1>1, <2>1, <2>2, <2>3, <2>4 DEF After
<1>2. ASSUME NEW i \in Items, Stores(i)
      PROVE  Delivery!Next
  <2>1. disk' = disk /\ sends[i] > 0 /\ stored[i] = 0 /\ stored' = [stored EXCEPT ![i] = 1]
    BY <1>2 DEF Stores
  <2>2. Status' = Status
    BY <2>1 DEF Status, Queued
  <2>3. Status[i] # "new"
    <3>1. ~(i \notin Queued(disk) /\ disk.fate[i] = "none")
      BY <2>1 DEF UploadInv, Counted
    <3>2. disk.fate[i] \in {"none", "delivered", "expired"}
      BY DEF UploadInv, QueueFiles, Files
    <3> QED
      BY <3>1, <3>2, StatusOf
  <2> QED
    BY <2>1, <2>2, <2>3 DEF Delivery!Next, Delivery!Store
<1> QED
  BY <1>1, <1>2 DEF Advance

(* The queue and the server implement UploadDelivery: an item is queued once,*)
(* stored once at most, and its fate is final, whatever crashes, is lost or*)
(* is answered late (PersistentUploadQueue, team_server.py).               *)
THEOREM DeliveryImplemented == UploadSpec => ImplementsDelivery
<1>1. UploadInit => UploadInv /\ Delivery!Init
  <2> SUFFICES ASSUME UploadInit PROVE UploadInv /\ Delivery!Init
    OBVIOUS
  <2>1. UploadInv /\ \A i \in Items : i \notin Queued(disk) /\ disk.fate[i] = "none"
    BY UploadStart
  <2>2. Status = [i \in Items |-> "new"]
    BY <2>1 DEF Status
  <2> QED
    BY <2>1, <2>2 DEF Delivery!Init, UploadInit
<1>2. UploadInv /\ [UploadNext]_uploadVars => UploadInv' /\ Delivery!Next
  BY UploadStep, AdvanceIsDelivery
<1> QED
  BY <1>1, <1>2, PTL DEF UploadSpec, ImplementsDelivery, Delivery!Spec
=============================================================================
