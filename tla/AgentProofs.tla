------------------------------ MODULE AgentProofs ------------------------------
(***************************************************************************)
(* Proofs about Agent, for any requests, any parameters and any bounds on  *)
(* sessions, records, identities, retention and time.                      *)
(*                                                                         *)
(* The inductive invariant says what the records, the identities and the   *)
(* journal know of the admissions (Recorded, Tombed, Covered): every entry *)
(* is of the admission that it names, identities are in the order of their *)
(* admissions, and the last MaxTombs of them are there until they expire.  *)
(* So a request of which nothing is known was not admitted lately, and the *)
(* bound on the identities is the bound on how soon it can be repeated.    *)
(***************************************************************************)
EXTENDS Agent, FiniteSetTheorems

-----------------------------------------------------------------------------
(* The helpers on sequences *)

\* The bounds are positive numbers.
LEMMA Positive ==
    /\ MaxActive \in Nat /\ MaxRecords \in Nat /\ MaxTombs \in Nat /\ MaxReplies \in Nat
    /\ Retention \in Nat /\ MaxTime \in Nat /\ MaxStarts \in Nat
    /\ MaxActive > 0 /\ MaxRecords > 0 /\ MaxTombs > 0 /\ MaxReplies > 0
    /\ Retention > 0 /\ MaxTime > 0 /\ MaxStarts > 0
    /\ MaxActive <= MaxRecords
BY BoundsAssumption

\* Joined sequences keep the elements of both, in order.
LEMMA ConcatIsSeq ==
    ASSUME NEW X, NEW p \in Seq(X), NEW q \in Seq(X)
    PROVE  /\ p \o q \in Seq(X) /\ Len(p \o q) = Len(p) + Len(q)
           /\ \A k \in 1..Len(p) : (p \o q)[k] = p[k]
           /\ \A k \in 1..Len(q) : (p \o q)[k + Len(p)] = q[k]
OBVIOUS

\* Newest drops a prefix, and nothing of a list within the bound.
LEMMA NewestIsEnd ==
    ASSUME NEW X, NEW s \in Seq(X), NEW b \in Nat, b > 0
    PROVE  /\ Newest(s, b) \in Seq(X) /\ Len(Newest(s, b)) <= b
           /\ Len(s) <= b => Newest(s, b) = s
           /\ \E d \in 0..Len(s) :
                /\ Len(Newest(s, b)) = Len(s) - d /\ (d > 0 => Len(s) - d = b)
                /\ \A k \in 1..Len(s) - d : Newest(s, b)[k] = s[k + d]
<1>0. Len(s) \in Nat
  OBVIOUS
<1>1. CASE Len(s) > b
  <2> DEFINE r == Newest(s, b)
             d == Len(s) - b
  <2>1. r = SubSeq(s, d + 1, Len(s))
    BY <1>1 DEF Newest
  <2>2. d \in 0..Len(s) /\ d > 0 /\ Len(s) - d = b
    BY <1>0, <1>1
  <2> HIDE DEF d
  <2>3. r \in Seq(X) /\ Len(r) = Len(s) - d
    BY <1>0, <2>1, <2>2
  <2>4. \A k \in 1..Len(s) - d : r[k] = s[k + d]
    BY <1>0, <2>1, <2>2
  <2> QED
    BY <1>1, <2>2, <2>3, <2>4
<1>2. CASE ~(Len(s) > b)
  <2>1. Newest(s, b) = s
    BY <1>2 DEF Newest
  <2>2. 0 \in 0..Len(s) /\ Len(s) - 0 = Len(s) /\ \A k \in 1..Len(s) - 0 : s[k] = s[k + 0]
    BY <1>0
  <2>3. Len(s) <= b
    BY <1>0, <1>2
  <2>4. \E d \in 0..Len(s) :
           /\ Len(s) = Len(s) - d /\ (d > 0 => Len(s) - d = b)
           /\ \A k \in 1..Len(s) - d : s[k] = s[k + d]
    <3> WITNESS 0 \in 0..Len(s)
    <3> QED
      BY <1>0, <2>2
  <2> QED
    BY <2>1, <2>3, <2>4
<1> QED
  BY <1>1, <1>2

\* What Newest keeps are elements of the list.
LEMMA NewestFrom ==
    ASSUME NEW X, NEW s \in Seq(X), NEW b \in Nat, b > 0
    PROVE  /\ Newest(s, b) \in Seq(X)
           /\ \A k \in 1..Len(Newest(s, b)) : \E i \in 1..Len(s) : Newest(s, b)[k] = s[i]
<1> DEFINE r == Newest(s, b)
<1>1. PICK d \in 0..Len(s) :
           /\ Len(r) = Len(s) - d /\ (d > 0 => Len(s) - d = b)
           /\ \A k \in 1..Len(s) - d : r[k] = s[k + d]
  BY NewestIsEnd
<1>2. Len(s) \in Nat /\ r \in Seq(X)
  BY NewestIsEnd
<1> HIDE DEF r
<1>3. ASSUME NEW k \in 1..Len(r)
      PROVE  \E i \in 1..Len(s) : r[k] = s[i]
  <2>1. k + d \in 1..Len(s) /\ r[k] = s[k + d]
    BY <1>1, <1>2
  <2> QED
    BY <2>1
<1> QED
  BY <1>2, <1>3 DEF r

\* Every other element stays, in its place or the one before.
LEMMA RemoveAtDrops ==
    ASSUME NEW X, NEW s \in Seq(X), NEW i \in 1..Len(s)
    PROVE  /\ RemoveAt(s, i) \in Seq(X) /\ Len(RemoveAt(s, i)) = Len(s) - 1
           /\ \A k \in 1..Len(s) - 1 : RemoveAt(s, i)[k] = IF k < i THEN s[k] ELSE s[k + 1]
<1> DEFINE p == SubSeq(s, 1, i - 1)
           q == SubSeq(s, i + 1, Len(s))
<1>0. Len(s) \in Nat /\ i \in Nat
  OBVIOUS
<1>1. p \in Seq(X) /\ Len(p) = i - 1 /\ \A k \in 1..i - 1 : p[k] = s[k]
  BY <1>0
<1>2. q \in Seq(X) /\ Len(q) = Len(s) - i /\ \A k \in 1..Len(s) - i : q[k] = s[k + i]
  BY <1>0
<1>3. RemoveAt(s, i) = p \o q
  BY DEF RemoveAt
<1> HIDE DEF p, q
<1>4. p \o q \in Seq(X) /\ Len(p \o q) = Len(s) - 1
  <2>0. p \in Seq(X) /\ q \in Seq(X)
    BY <1>1, <1>2
  <2>1. p \o q \in Seq(X) /\ Len(p \o q) = Len(p) + Len(q)
    BY <2>0, ConcatIsSeq
  <2>2. Len(p) = i - 1 /\ Len(q) = Len(s) - i
    BY <1>1, <1>2
  <2> QED
    BY <1>0, <2>1, <2>2
<1>5. ASSUME NEW k \in 1..Len(s) - 1
      PROVE  (p \o q)[k] = IF k < i THEN s[k] ELSE s[k + 1]
  <2>1. CASE k < i
    <3>1. k \in 1..Len(p)
      BY <1>0, <1>1, <2>1
    <3>2. (p \o q)[k] = p[k]
      BY <1>1, <1>2, <3>1
    <3> QED
      BY <1>1, <2>1, <3>1, <3>2
  <2>2. CASE ~(k < i)
    <3>1. (p \o q)[k] = q[k - (i - 1)]
      BY <1>0, <1>1, <1>2, <2>2
    <3>2. k - (i - 1) \in 1..Len(s) - i /\ (k - (i - 1)) + i = k + 1
      BY <1>0, <2>2
    <3> QED
      BY <1>2, <2>2, <3>1, <3>2
  <2> QED
    BY <2>1, <2>2
<1> QED
  BY <1>3, <1>4, <1>5

\* Numbers that climb within a bound are no more than the bound.
LEMMA ClimbingIsBounded ==
    ASSUME NEW m \in Nat, NEW n \in Nat, NEW h \in [1..m -> 1..n],
           \A j, k \in 1..m : j < k => h[j] < h[k]
    PROVE  m <= n
<1> DEFINE S == {k \in Nat : k \in 1..m => k <= h[k]}
<1>1. 0 \in S
  OBVIOUS
<1>2. ASSUME NEW k \in Nat, k \in S
      PROVE  k + 1 \in S
  <2> SUFFICES ASSUME k + 1 \in 1..m PROVE k + 1 <= h[k + 1]
    OBVIOUS
  <2>1. CASE k = 0
    BY <2>1
  <2>2. CASE k # 0
    <3>1. k \in 1..m /\ k <= h[k]
      BY <1>2, <2>2
    <3>2. h[k] < h[k + 1] /\ h[k] \in 1..n /\ h[k + 1] \in 1..n
      BY <3>1
    <3> QED
      BY <3>1, <3>2
  <2> QED
    BY <2>1, <2>2
<1>3. m \in S
  <2> HIDE DEF S
  <2> QED
    BY <1>1, <1>2, Climb
<1> QED
  <2>1. CASE m = 0
    BY <2>1
  <2>2. CASE m # 0
    <3>1. m \in 1..m /\ m <= h[m] /\ h[m] \in 1..n
      BY <1>3, <2>2
    <3> QED
      BY <3>1
  <2> QED
    BY <2>1, <2>2

\* There is a first one among some positions.
LEMMA FirstExists ==
    ASSUME NEW S, S \subseteq Nat, S # {}
    PROVE  \E x \in S : \A y \in S : x <= y
<1> DEFINE R == OpToRel(<, Nat)
<1>1. IsWellFoundedOn(R, Nat)
  BY NatLessThanWellFounded
<1>2. R = {p \in Nat \X Nat : p[1] < p[2]}
  BY DEF OpToRel
<1> HIDE DEF R
<1>3. PICK x \in S : \A y \in S : ~(<<y, x>> \in R)
  BY <1>1, WFMin
<1>4. \A y \in S : ~(y < x)
  BY <1>2, <1>3
<1> QED
  BY <1>4

-----------------------------------------------------------------------------
(* The inductive invariant *)

TypeInv ==
    /\ now \in 0..MaxTime
    /\ phase \in {"down", "idle", "dispatch", "admitted", "closing"}
    /\ backend \in [Sids -> {"absent", "running", "finished"}]
    /\ admitted \in Seq(Admission) /\ Len(admitted) <= MaxStarts
    /\ \A n \in 1..Len(admitted) : admitted[n].sid = n
    /\ disk \in [sessions : Seq(Record), tombs : Seq(Tomb)]
    /\ phase \in {"dispatch", "admitted"} => request \in [req : Reqs, digest : Digests]

\* An entry is of the session that it names.
Of(a, e) == e.sid \in 1..Len(a) /\ a[e.sid].req = e.req /\ a[e.sid].digest = e.digest

Recorded(a, recs) ==
    /\ recs \in Seq(Record) /\ Len(recs) <= MaxRecords
    /\ \A n \in 1..Len(recs) : Of(a, recs[n])
    /\ \A m, n \in 1..Len(recs) : recs[m].sid = recs[n].sid => m = n

Tombed(a, ts) ==
    /\ ts \in Seq(Tomb)
    /\ \A n \in 1..Len(ts) : Of(a, ts[n]) /\ ts[n].expires = a[ts[n].sid].at + Retention
    /\ \A m, n \in 1..Len(ts) : m < n => ts[m].sid < ts[n].sid

\* The identities of the last admissions are there as long as they are retained.
Covered(a, t, ts) ==
    \A m \in 1..Len(a) :
        Len(a) - m < MaxTombs /\ a[m].at + Retention > t => \E n \in 1..Len(ts) : ts[n].sid = m

\* What the old records say of an ended session, the new ones say too.
Agrees(old, new) ==
    \A m \in 1..Len(old), n \in 1..Len(new) :
        old[m].sid = new[n].sid /\ old[m].state \in Terminal => new[n] = old[m]

Stored == Recorded(admitted, disk.sessions) /\ Tombed(admitted, disk.tombs) /\ Covered(admitted, now, disk.tombs)
Held ==
    /\ Recorded(admitted, records) /\ Tombed(admitted, tombs) /\ Covered(admitted, now, tombs)
    /\ Agrees(disk.sessions, records)

Told ==
    /\ replies \in Seq(Reply)
    /\ \A n \in 1..Len(replies) : replies[n].sid # Error => Of(admitted, replies[n])

Gone == Len(records) = 0 /\ Len(tombs) = 0 /\ \A s \in Sids : backend[s] = "absent"

\* A session that runs is unfinished in memory and on disk.
Unfinished(recs, s) == \E n \in 1..Len(recs) : recs[n].sid = s /\ recs[n].state \notin Terminal
LiveInv ==
    \A s \in Sids :
        /\ backend[s] # "absent" => s \in 1..Len(admitted)
        /\ backend[s] = "running" => Unfinished(records, s) /\ Unfinished(disk.sessions, s)

\* A start on its way: nothing is retained of its request; then it is the last
\* that was admitted, on disk, and without a backend.
Unretained(a, r, t) ==
    \A m \in 1..Len(a) : a[m].req = r => t >= a[m].at + Retention \/ Len(a) + 1 - m > MaxTombs
StartInv ==
    /\ phase = "dispatch" => Unretained(admitted, request.req, now)
    /\ phase = "admitted" =>
         /\ Len(records) > 0 /\ Len(admitted) > 0 /\ disk.sessions = records
         /\ records[Len(records)].sid = Len(admitted) /\ records[Len(records)].state = "accepted"
         /\ backend[Len(admitted)] = "absent"
         /\ admitted[Len(admitted)].req = request.req /\ admitted[Len(admitted)].digest = request.digest

OnceInv ==
    \A m, n \in 1..Len(admitted) :
        m < n /\ admitted[m].req = admitted[n].req =>
            admitted[n].at >= admitted[m].at + Retention \/ n - m > MaxTombs

AgentInv ==
    /\ TypeInv /\ Stored /\ Told /\ LiveInv /\ StartInv /\ OnceInv
    /\ phase # "down" => Held
    /\ phase = "down" => Gone

-----------------------------------------------------------------------------
(* What the operators keep *)

\* Expired identities go; those that go are expired, and the order stays.
LEMMA UnexpiredKeeps ==
    ASSUME NEW a \in Seq(Admission), NEW ts, Tombed(a, ts), Covered(a, now, ts), now \in Nat
    PROVE  Tombed(a, Unexpired(ts)) /\ Covered(a, now, Unexpired(ts))
<1> DEFINE I == {n \in DOMAIN ts : ts[n].expires > now}
           r == Unexpired(ts)
<1>0. ts \in Seq(Tomb) /\ DOMAIN ts = 1..Len(ts) /\ Len(ts) \in Nat
  BY DEF Tombed
<1>1. r = Selected(ts, I)
  BY DEF Unexpired
<1>2. PICK h : Places(h, r, ts, I, Len(ts))
  BY <1>0, <1>1, SelectedPlaces
<1>3. r \in Seq(Tomb)
  BY <1>0, <1>1, SelectedPlaces
<1> HIDE DEF r
<1>4. /\ \A k \in 1..Len(r) : h[k] \in 1..Len(ts) /\ r[k] = ts[h[k]]
      /\ \A j, k \in 1..Len(r) : j < k => h[j] < h[k]
      /\ \A i \in I \cap (1..Len(ts)) : \E k \in 1..Len(r) : h[k] = i
  BY <1>2 DEF Places
<1>5. Tombed(a, r)
  <2>1. ASSUME NEW n \in 1..Len(r)
        PROVE  Of(a, r[n]) /\ r[n].expires = a[r[n].sid].at + Retention
    <3>1. h[n] \in 1..Len(ts) /\ r[n] = ts[h[n]]
      BY <1>4
    <3>2. Of(a, ts[h[n]]) /\ ts[h[n]].expires = a[ts[h[n]].sid].at + Retention
      BY <3>1 DEF Tombed
    <3> QED
      BY <3>1, <3>2
  <2>2. ASSUME NEW m \in 1..Len(r), NEW n \in 1..Len(r), m < n
        PROVE  r[m].sid < r[n].sid
    <3>1. h[m] < h[n] /\ h[m] \in 1..Len(ts) /\ h[n] \in 1..Len(ts)
      BY <1>4, <2>2
    <3>2. ts[h[m]].sid < ts[h[n]].sid
      BY <3>1 DEF Tombed
    <3> QED
      BY <1>4, <3>2
  <2> QED
    BY <1>3, <2>1, <2>2 DEF Tombed
<1>6. Covered(a, now, r)
  <2> SUFFICES ASSUME NEW m \in 1..Len(a), Len(a) - m < MaxTombs, a[m].at + Retention > now
               PROVE  \E n \in 1..Len(r) : r[n].sid = m
    BY DEF Covered
  <2>1. PICK n \in 1..Len(ts) : ts[n].sid = m
    BY DEF Covered
  <2>2. ts[n].expires = a[m].at + Retention
    BY <2>1 DEF Tombed
  <2>3. n \in I
    BY <1>0, <2>2
  <2>4. PICK k \in 1..Len(r) : h[k] = n
    BY <1>4, <2>3
  <2> QED
    BY <1>4, <2>1, <2>4
<1> QED
  BY <1>5, <1>6 DEF r

\* Time only lets identities expire.
LEMMA CoveredLater ==
    ASSUME NEW a \in Seq(Admission), NEW ts, Covered(a, now, ts), now \in Nat
    PROVE  Covered(a, now + 1, ts)
<1> SUFFICES ASSUME NEW m \in 1..Len(a), Len(a) - m < MaxTombs, a[m].at + Retention > now + 1
             PROVE  \E n \in 1..Len(ts) : ts[n].sid = m
  BY DEF Covered
<1>0. a[m] \in Admission
  OBVIOUS
<1>1. a[m].at \in Nat /\ Retention \in Nat
  BY <1>0, Positive DEF Admission
<1>2. a[m].at + Retention > now
  BY <1>1
<1> QED
  BY <1>2 DEF Covered

\* A reply that is remembered is of its session, or an error.
LEMMA RememberTold ==
    ASSUME Told, NEW r \in Reqs, NEW d \in Digests, NEW s \in Sids \cup {Error},
           Remember(r, d, s), admitted' = admitted,
           s # Error => s \in 1..Len(admitted) /\ admitted[s].req = r /\ admitted[s].digest = d
    PROVE  Told'
<1> DEFINE e == [req |-> r, digest |-> d, sid |-> s]
           l == Append(replies, e)
<1>1. e \in Reply /\ (e.sid # Error => Of(admitted, e))
  BY DEF Reply, Of
<1>2. replies \in Seq(Reply) /\ Len(replies) \in Nat
  BY DEF Told
<1> HIDE DEF e
<1>3. /\ l \in Seq(Reply) /\ Len(l) = Len(replies) + 1 /\ l[Len(replies) + 1] = e
      /\ \A n \in 1..Len(replies) : l[n] = replies[n]
  BY <1>1, <1>2
<1>4. \A n \in 1..Len(l) : l[n].sid # Error => Of(admitted, l[n])
  BY <1>1, <1>2, <1>3 DEF Told
<1>5. replies' = Newest(l, MaxReplies)
  BY DEF Remember, e
<1> HIDE DEF l
<1>6. MaxReplies \in Nat /\ MaxReplies > 0
  BY Positive
<1>7. l \in Seq(Reply)
  BY <1>3
<1>8. /\ replies' \in Seq(Reply)
      /\ \A k \in 1..Len(replies') : \E i \in 1..Len(l) : replies'[k] = l[i]
  BY <1>5, <1>6, <1>7, NewestFrom
<1> QED
  BY <1>4, <1>8 DEF Told, Of

\* A look at a backend changes the state and the time of a record that is not
\* final, and finishes none whose session runs.
LEMMA ObservedEntry ==
    ASSUME TypeInv, NEW e \in Record
    PROVE  /\ Observed(e) \in Record
           /\ Observed(e).sid = e.sid /\ Observed(e).req = e.req /\ Observed(e).digest = e.digest
           /\ e.state \in Terminal => Observed(e) = e
           /\ e.state \notin Terminal /\ backend[e.sid] = "running" => Observed(e).state \notin Terminal
<1>1. backend[e.sid] \in {"absent", "running", "finished"} /\ now \in 0..MaxTime
  BY DEF TypeInv, Record
<1> DEFINE st == backend[e.sid]
           up == IF backend[e.sid] = "finished" THEN now ELSE e.updated
           f == [e EXCEPT !.state = st, !.updated = up]
<1>2. CASE e.state \in Terminal \/ backend[e.sid] = "absent"
  BY <1>2 DEF Observed, Terminal
<1>3. CASE ~(e.state \in Terminal \/ backend[e.sid] = "absent")
  <2>1. Observed(e) = f
    BY <1>3 DEF Observed
  <2>2. st \in States /\ up \in 0..MaxTime /\ (st = "running" => st \notin Terminal)
    BY <1>1, <1>3 DEF States, Terminal, Record
  <2> HIDE DEF st, up
  <2>3. f \in Record /\ f.sid = e.sid /\ f.req = e.req /\ f.digest = e.digest /\ f.state = st
    BY <2>2 DEF Record
  <2> QED
    BY <1>3, <2>1, <2>2, <2>3 DEF st
<1> QED
  BY <1>2, <1>3

\* After a look at all backends the records are as true as before.
LEMMA ObservedKeeps ==
    ASSUME TypeInv, NEW recs, Recorded(admitted, recs), NEW r, r = [n \in DOMAIN recs |-> Observed(recs[n])]
    PROVE  /\ Recorded(admitted, r) /\ Len(r) = Len(recs)
           /\ \A n \in 1..Len(recs) : r[n].sid = recs[n].sid /\ (recs[n].state \in Terminal => r[n] = recs[n])
           /\ \A s \in Sids : backend[s] = "running" /\ Unfinished(recs, s) => Unfinished(r, s)
<1> DEFINE L == Len(recs)
<1>1. recs \in Seq(Record) /\ DOMAIN recs = 1..L /\ L \in Nat /\ \A n \in 1..L : recs[n] \in Record
  BY DEF Recorded
<1>2. \A n \in 1..L : r[n] = Observed(recs[n])
  BY <1>1
<1>3. \A n \in 1..L : /\ r[n] \in Record
                      /\ r[n].sid = recs[n].sid /\ r[n].req = recs[n].req /\ r[n].digest = recs[n].digest
                      /\ recs[n].state \in Terminal => r[n] = recs[n]
                      /\ recs[n].state \notin Terminal /\ backend[recs[n].sid] = "running" => r[n].state \notin Terminal
  BY <1>1, <1>2, ObservedEntry
<1>4. r \in [1..L -> Record]
  BY <1>1, <1>2, <1>3
<1>5. r \in Seq(Record) /\ Len(r) = L
  BY <1>1, <1>4
<1> HIDE DEF L
<1>6. ASSUME NEW n \in 1..L
      PROVE  Of(admitted, r[n])
  <2>1. Of(admitted, recs[n])
    BY DEF Recorded, L
  <2>2. r[n].sid = recs[n].sid /\ r[n].req = recs[n].req /\ r[n].digest = recs[n].digest
    BY <1>3
  <2> QED
    BY <2>1, <2>2 DEF Of
<1>7. \A m, n \in 1..L : r[m].sid = r[n].sid => m = n
  BY <1>3 DEF Recorded, L
<1>8. Recorded(admitted, r)
  BY <1>5, <1>6, <1>7 DEF Recorded, L
<1>9. ASSUME NEW s \in Sids, backend[s] = "running", Unfinished(recs, s)
      PROVE  Unfinished(r, s)
  <2>1. PICK n \in 1..L : recs[n].sid = s /\ recs[n].state \notin Terminal
    BY <1>9 DEF Unfinished, L
  <2>2. r[n].sid = s /\ r[n].state \notin Terminal
    BY <1>3, <1>9, <2>1
  <2> QED
    BY <1>5, <2>2 DEF Unfinished
<1> QED
  BY <1>3, <1>5, <1>8, <1>9 DEF L

\* Records in which each one has the identity that it had, and its state if that was final.
Continues(recs, r) ==
    /\ Len(r) = Len(recs)
    /\ \A n \in 1..Len(recs) : r[n].sid = recs[n].sid /\ (recs[n].state \in Terminal => r[n] = recs[n])

\* Records that continue others say what those said of an ended session.
LEMMA ContinuesAgrees ==
    ASSUME NEW old, NEW recs, NEW r, Agrees(old, recs), Continues(recs, r)
    PROVE  Agrees(old, r)
BY DEF Agrees, Continues

\* Records in which no session occurs twice agree with themselves.
LEMMA SelfAgrees ==
    ASSUME NEW a, NEW recs, Recorded(a, recs)
    PROVE  Agrees(recs, recs)
BY DEF Recorded, Agrees

-----------------------------------------------------------------------------
(* What a write, or none, does to the journal *)

\* The journal holds what is saved, and memory the identities that are not expired (_persist).
LEMMA SaveKeeps ==
    ASSUME now \in Nat, now' = now, admitted' \in Seq(Admission), NEW recs, NEW ts,
           Recorded(admitted', recs), Tombed(admitted', ts), Covered(admitted', now, ts), Saved(recs, ts)
    PROVE  /\ Stored' /\ disk' \in [sessions : Seq(Record), tombs : Seq(Tomb)] /\ disk'.sessions = recs
           /\ Tombed(admitted', tombs') /\ Covered(admitted', now', tombs')
<1>1. Tombed(admitted', Unexpired(ts)) /\ Covered(admitted', now, Unexpired(ts))
  BY UnexpiredKeeps
<1>2. disk' = [sessions |-> recs, tombs |-> Unexpired(ts)] /\ tombs' = Unexpired(ts)
  BY DEF Saved
<1>3. disk'.sessions = recs /\ disk'.tombs = Unexpired(ts)
  BY <1>2
<1>4. disk' \in [sessions : Seq(Record), tombs : Seq(Tomb)]
  BY <1>1, <1>2 DEF Recorded, Tombed
<1>5. Stored'
  <2>1. Recorded(admitted, disk.sessions)'
    BY <1>3 DEF Recorded, Of
  <2>2. Tombed(admitted, disk.tombs)'
    BY <1>1, <1>3 DEF Tombed, Of
  <2>3. Covered(admitted, now, disk.tombs)'
    BY <1>1, <1>3 DEF Covered
  <2> QED
    BY <2>1, <2>2, <2>3 DEF Stored
<1> QED
  BY <1>1, <1>2, <1>3, <1>4, <1>5

\* Without a write the journal stays, whether identities expire or not (_persist).
LEMMA SkipKeeps ==
    ASSUME TypeInv, Stored, now' = now, admitted' = admitted, NEW ts,
           Tombed(admitted, ts), Covered(admitted, now, ts),
           NotSaved(ts) \/ (UNCHANGED disk /\ tombs' = ts)
    PROVE  /\ Stored' /\ disk' = disk
           /\ Tombed(admitted', tombs') /\ Covered(admitted', now', tombs')
<1>0. now \in Nat /\ admitted \in Seq(Admission)
  BY Positive DEF TypeInv
<1>1. Tombed(admitted, Unexpired(ts)) /\ Covered(admitted, now, Unexpired(ts))
  BY <1>0, UnexpiredKeeps
<1>2. disk' = disk /\ (tombs' = ts \/ tombs' = Unexpired(ts))
  BY DEF NotSaved
<1>3. Stored'
  <2>1. Recorded(admitted', disk'.sessions)
    BY <1>2 DEF Stored
  <2>2. Tombed(admitted', disk'.tombs) /\ Covered(admitted', now', disk'.tombs)
    BY <1>2 DEF Stored
  <2> QED
    BY <2>1, <2>2 DEF Stored
<1> QED
  BY <1>1, <1>2, <1>3

\* Nothing of a session that runs is forgotten.
LEMMA LiveKeeps ==
    ASSUME LiveInv, backend' = backend, admitted' = admitted,
           \A s \in Sids : backend[s] = "running" /\ Unfinished(records, s) => Unfinished(records', s),
           disk'.sessions = disk.sessions \/ disk'.sessions = records'
    PROVE  LiveInv'
BY DEF LiveInv, Unfinished

-----------------------------------------------------------------------------
(* What a step does to what was recorded *)

\* Every record has one of its session after the step; or all but one have.
Remains == \A n \in 1..Len(records) : \E k \in 1..Len(records') : records'[k].sid = records[n].sid
Displaces ==
    \E g \in 1..Len(records) : \A n \in (1..Len(records)) \ {g} :
        \E k \in 1..Len(records') : records'[k].sid = records[n].sid

Reported ==
    \A n \in 1..Len(disk.sessions) : disk.sessions[n].state \notin Terminal =>
        \E k \in 1..Len(records') : records'[k].sid = disk.sessions[n].sid /\ records'[k].state = "interrupted"

JournalStep ==
    /\ Agrees(disk.sessions, disk'.sessions)
    /\ phase' # "down" => Remains \/ (Len(admitted') = Len(admitted) + 1 /\ Displaces)
    /\ phase = "down" /\ phase' = "idle" => Reported

\* A step that writes nothing and leaves the records and backends alone.
LEMMA StillHeld ==
    ASSUME AgentInv, UNCHANGED <<now, disk, records, tombs, backend, admitted>>
    PROVE  /\ Stored' /\ LiveInv' /\ OnceInv' /\ (phase # "down" => Held') /\ (phase = "down" => Gone')
           /\ Agrees(disk.sessions, disk'.sessions) /\ Remains
<1>1. Stored'
  BY DEF AgentInv, Stored, Recorded, Tombed, Covered, Of
<1>2. LiveInv'
  BY DEF AgentInv, LiveInv, Unfinished
<1>3. OnceInv'
  BY DEF AgentInv, OnceInv
<1>4. phase # "down" => Held'
  BY DEF AgentInv, Held, Recorded, Tombed, Covered, Of, Agrees
<1>5. phase = "down" => Gone'
  BY DEF AgentInv, Gone
<1>6. Agrees(disk.sessions, disk'.sessions)
  BY SelfAgrees DEF AgentInv, Stored
<1>7. Remains
  BY DEF Remains
<1> QED
  BY <1>1, <1>2, <1>3, <1>4, <1>5, <1>6, <1>7

\* A step that rewrites the records, each in its place, and perhaps the journal.
LEMMA RewriteKeeps ==
    ASSUME AgentInv, phase # "down", UNCHANGED <<now, backend, admitted>>,
           Recorded(admitted, records'), Continues(records, records'),
           \A s \in Sids : backend[s] = "running" /\ Unfinished(records, s) => Unfinished(records', s),
           Saved(records', tombs) \/ NotSaved(tombs) \/ UNCHANGED <<disk, tombs>>
    PROVE  /\ Stored' /\ LiveInv' /\ OnceInv' /\ Held'
           /\ disk' \in [sessions : Seq(Record), tombs : Seq(Tomb)]
           /\ Agrees(disk.sessions, disk'.sessions) /\ Remains
<1>1. TypeInv /\ Stored /\ Held /\ LiveInv /\ OnceInv
  BY DEF AgentInv
<1>2. now \in Nat /\ admitted \in Seq(Admission) /\ admitted' = admitted /\ now' = now /\ backend' = backend
  BY <1>1, Positive DEF TypeInv
<1>3. Tombed(admitted, tombs) /\ Covered(admitted, now, tombs) /\ Agrees(disk.sessions, records)
  BY <1>1 DEF Held
<1>4. Agrees(disk.sessions, records')
  BY <1>3, ContinuesAgrees
<1>5. /\ Stored' /\ disk' \in [sessions : Seq(Record), tombs : Seq(Tomb)]
      /\ Tombed(admitted', tombs') /\ Covered(admitted', now', tombs')
      /\ disk' = disk \/ disk'.sessions = records'
  <2>1. CASE Saved(records', tombs)
    BY <1>2, <1>3, <2>1, SaveKeeps
  <2>2. CASE ~Saved(records', tombs)
    <3>1. disk \in [sessions : Seq(Record), tombs : Seq(Tomb)]
      BY <1>1 DEF TypeInv
    <3>2. NotSaved(tombs) \/ (UNCHANGED disk /\ tombs' = tombs)
      BY <2>2
    <3> QED
      BY <1>1, <1>2, <1>3, <3>1, <3>2, SkipKeeps
  <2> QED
    BY <2>1, <2>2
<1>6. Agrees(disk.sessions, disk'.sessions)
  <2>1. Agrees(disk.sessions, disk.sessions)
    BY <1>1, SelfAgrees DEF Stored
  <2> QED
    BY <1>4, <1>5, <2>1
<1>7. Agrees(disk'.sessions, records')
  <2>1. Agrees(records', records')
    BY SelfAgrees
  <2> QED
    BY <1>4, <1>5, <2>1
<1>8. Recorded(admitted', records')
  BY <1>2
<1>9. Held'
  BY <1>5, <1>7, <1>8 DEF Held, Recorded, Tombed, Covered, Of, Agrees
<1>10. LiveInv'
  BY <1>1, <1>2, <1>5, LiveKeeps
<1>11. OnceInv'
  BY <1>1, <1>2 DEF OnceInv
<1>12. Remains
  BY DEF Continues, Remains
<1> QED
  BY <1>5, <1>6, <1>9, <1>10, <1>11, <1>12

\* A refresh rewrites the records in their places (refresh).
LEMMA RefreshKeeps ==
    ASSUME AgentInv, phase # "down", Refresh, UNCHANGED <<now, backend, admitted>>
    PROVE  /\ Stored' /\ LiveInv' /\ OnceInv' /\ Held'
           /\ disk' \in [sessions : Seq(Record), tombs : Seq(Tomb)]
           /\ Agrees(disk.sessions, disk'.sessions) /\ Remains
<1>1. TypeInv /\ Recorded(admitted, records)
  BY DEF AgentInv, Held
<1>2. records' = [n \in DOMAIN records |-> Observed(records[n])]
  BY DEF Refresh
<1>3. /\ Recorded(admitted, records') /\ Continues(records, records')
      /\ \A s \in Sids : backend[s] = "running" /\ Unfinished(records, s) => Unfinished(records', s)
  BY <1>1, <1>2, ObservedKeeps DEF Continues
<1>4. Saved(records', tombs) \/ NotSaved(tombs) \/ UNCHANGED <<disk, tombs>>
  BY DEF Refresh
<1> QED
  BY <1>3, <1>4, RewriteKeeps

\* The replies stay true when the admissions stay.
LEMMA TellsOn ==
    ASSUME Told, UNCHANGED <<replies, admitted>>
    PROVE  Told'
BY DEF Told, Of

\* Between requests: refresh.
LEMMA WatchStep ==
    ASSUME AgentInv, Watch
    PROVE  AgentInv' /\ JournalStep
<1>1. phase = "idle" /\ phase' = "idle" /\ Refresh /\ UNCHANGED <<now, replies, request, backend, admitted>>
  BY DEF Watch
<1>2. /\ Stored' /\ LiveInv' /\ OnceInv' /\ Held' /\ disk' \in [sessions : Seq(Record), tombs : Seq(Tomb)]
      /\ Agrees(disk.sessions, disk'.sessions) /\ Remains
  BY <1>1, RefreshKeeps
<1>3. TypeInv'
  BY <1>1, <1>2 DEF AgentInv, TypeInv
<1>4. Told'
  BY <1>1, TellsOn DEF AgentInv
<1>5. StartInv'
  BY <1>1 DEF StartInv
<1>6. AgentInv'
  BY <1>1, <1>2, <1>3, <1>4, <1>5 DEF AgentInv
<1> QED
  BY <1>1, <1>2, <1>6 DEF JournalStep

\* An export (its own write of the journal).
LEMMA ExportStep ==
    ASSUME AgentInv, Export
    PROVE  AgentInv' /\ JournalStep
<1>1. /\ phase = "idle" /\ phase' = "idle"
      /\ UNCHANGED <<now, replies, request, backend, admitted>> /\ records' = records
      /\ Saved(records', tombs) \/ NotSaved(tombs)
  BY DEF Export
<1>2. Recorded(admitted, records)
  BY <1>1 DEF AgentInv, Held
<1>3. Recorded(admitted, records') /\ Continues(records, records')
  BY <1>1, <1>2 DEF Continues
<1>4. /\ Stored' /\ LiveInv' /\ OnceInv' /\ Held' /\ disk' \in [sessions : Seq(Record), tombs : Seq(Tomb)]
      /\ Agrees(disk.sessions, disk'.sessions) /\ Remains
  BY <1>1, <1>3, RewriteKeeps
<1>5. TypeInv'
  BY <1>1, <1>4 DEF AgentInv, TypeInv
<1>6. Told'
  BY <1>1, TellsOn DEF AgentInv
<1>7. StartInv'
  BY <1>1 DEF StartInv
<1>8. AgentInv'
  BY <1>1, <1>4, <1>5, <1>6, <1>7 DEF AgentInv
<1> QED
  BY <1>1, <1>4, <1>8 DEF JournalStep

\* Replies that are pushed out of the cache.
LEMMA OtherRepliesStep ==
    ASSUME AgentInv, OtherReplies
    PROVE  AgentInv' /\ JournalStep
<1>1. /\ phase = "idle" /\ phase' = "idle" /\ replies # <<>> /\ replies' = Tail(replies)
      /\ UNCHANGED <<now, disk, records, tombs, backend, admitted, request>>
  BY DEF OtherReplies
<1>2. /\ Stored' /\ LiveInv' /\ OnceInv' /\ Held' /\ Agrees(disk.sessions, disk'.sessions) /\ Remains
  BY <1>1, StillHeld
<1>3. TypeInv'
  BY <1>1 DEF AgentInv, TypeInv
<1>4. Told'
  <2>1. replies \in Seq(Reply) /\ \A n \in 1..Len(replies) : replies[n].sid # Error => Of(admitted, replies[n])
    BY DEF AgentInv, Told
  <2>2. /\ replies' \in Seq(Reply) /\ Len(replies') = Len(replies) - 1 /\ Len(replies) \in Nat
        /\ \A k \in 1..Len(replies') : replies'[k] = replies[k + 1]
    BY <1>1, <2>1
  <2>3. ASSUME NEW k \in 1..Len(replies'), replies'[k].sid # Error
        PROVE  Of(admitted, replies'[k])
    <3>1. k + 1 \in 1..Len(replies) /\ replies'[k] = replies[k + 1]
      BY <2>2
    <3> QED
      BY <2>1, <2>3, <3>1
  <2> QED
    BY <1>1, <2>2, <2>3 DEF Told, Of
<1>5. StartInv'
  BY <1>1 DEF StartInv
<1>6. AgentInv'
  BY <1>1, <1>2, <1>3, <1>4, <1>5 DEF AgentInv
<1> QED
  BY <1>1, <1>2, <1>6 DEF JournalStep

-----------------------------------------------------------------------------
(* What is known of a request *)

\* What is known of a request is in an entry that names it.
LEMMA KnownIsEntry ==
    ASSUME NEW X, NEW s \in Seq(X), NEW r, NEW k \in Known(s, r)
    PROVE  \E n \in 1..Len(s) : s[n].req = r /\ k.digest = s[n].digest /\ k.sid = s[n].sid
<1>1. PICK e \in ToSet(s) : e.req = r /\ k = [digest |-> e.digest, sid |-> e.sid]
  BY DEF Known
<1>2. PICK n \in 1..Len(s) : e = s[n]
  BY <1>1 DEF ToSet
<1> QED
  BY <1>1, <1>2

\* Of a request that an entry names something is known.
LEMMA EntryIsKnown ==
    ASSUME NEW X, NEW s \in Seq(X), NEW r, NEW n \in 1..Len(s), s[n].req = r
    PROVE  Known(s, r) # {}
<1>1. s[n] \in ToSet(s)
  BY DEF ToSet
<1>2. [digest |-> s[n].digest, sid |-> s[n].sid] \in Known(s, r)
  BY <1>1 DEF Known
<1> QED
  BY <1>2

\* What is retained of a request is of a session that it was admitted for.
LEMMA RetainedIsTrue ==
    ASSUME AgentInv, phase # "down", NEW r, NEW k \in Retained(r)
    PROVE  k.sid \in 1..Len(admitted) /\ admitted[k.sid].req = r /\ admitted[k.sid].digest = k.digest
<1>1. /\ records \in Seq(Record) /\ \A n \in 1..Len(records) : Of(admitted, records[n])
      /\ tombs \in Seq(Tomb) /\ \A n \in 1..Len(tombs) : Of(admitted, tombs[n])
  BY DEF AgentInv, Held, Recorded, Tombed
<1>2. k \in Known(tombs, r) \/ k \in Known(records, r)
  BY DEF Retained
<1>3. CASE k \in Known(tombs, r)
  <2>1. PICK n \in 1..Len(tombs) : tombs[n].req = r /\ k.digest = tombs[n].digest /\ k.sid = tombs[n].sid
    BY <1>1, <1>3, KnownIsEntry
  <2>2. Of(admitted, tombs[n])
    BY <1>1
  <2> QED
    BY <2>1, <2>2 DEF Of
<1>4. CASE k \in Known(records, r)
  <2>1. PICK n \in 1..Len(records) : records[n].req = r /\ k.digest = records[n].digest /\ k.sid = records[n].sid
    BY <1>1, <1>4, KnownIsEntry
  <2>2. Of(admitted, records[n])
    BY <1>1
  <2> QED
    BY <2>1, <2>2 DEF Of
<1> QED
  BY <1>2, <1>3, <1>4

\* The numbers of the admissions are session identities, and no error.
LEMMA Identities ==
    ASSUME AgentInv, NEW s \in 1..Len(admitted)
    PROVE  s \in Sids /\ Len(admitted) \in Nat /\ s # Error
BY Positive DEF AgentInv, TypeInv, Sids, Error

\* A retained start is answered (handle).
LEMMA ReplayStep ==
    ASSUME AgentInv, NEW r \in Reqs, NEW d \in Digests, Replay(r, d)
    PROVE  AgentInv' /\ JournalStep
<1>1. /\ phase = "idle" /\ phase' = "idle"
      /\ UNCHANGED <<now, disk, records, tombs, backend, admitted, request>>
  BY DEF Replay
<1>2. /\ Stored' /\ LiveInv' /\ OnceInv' /\ Held' /\ Agrees(disk.sessions, disk'.sessions) /\ Remains
  BY <1>1, StillHeld
<1>3. TypeInv'
  BY <1>1 DEF AgentInv, TypeInv
<1>4. Told'
  <2>1. PICK k \in Retained(r) : Remember(r, d, Same(k, d))
    BY DEF Replay
  <2>2. k.sid \in 1..Len(admitted) /\ admitted[k.sid].req = r /\ admitted[k.sid].digest = k.digest
    BY <1>1, RetainedIsTrue
  <2>3. k.sid \in Sids
    BY <2>2, Identities
  <2> DEFINE s == Same(k, d)
  <2>4. s \in Sids \cup {Error} /\ (s # Error => s = k.sid /\ k.digest = d)
    BY <2>3 DEF Same
  <2> HIDE DEF s
  <2>5. Remember(r, d, s)
    BY <2>1 DEF s
  <2>6. s # Error => s \in 1..Len(admitted) /\ admitted[s].req = r /\ admitted[s].digest = d
    BY <2>2, <2>4
  <2>7. Told /\ admitted' = admitted
    BY <1>1 DEF AgentInv
  <2> QED
    BY <2>4, <2>5, <2>6, <2>7, RememberTold
<1>5. StartInv'
  BY <1>1 DEF StartInv
<1>6. AgentInv'
  BY <1>1, <1>2, <1>3, <1>4, <1>5 DEF AgentInv
<1> QED
  BY <1>1, <1>2, <1>6 DEF JournalStep

\* A request of which nothing is known was not admitted lately.
LEMMA NewIsUnretained ==
    ASSUME AgentInv, phase # "down", NEW r, NEW d, Answer(r, d) = {}
    PROVE  Unretained(admitted, r, now)
<1> SUFFICES ASSUME NEW m \in 1..Len(admitted), admitted[m].req = r,
                    ~(now >= admitted[m].at + Retention), ~(Len(admitted) + 1 - m > MaxTombs)
             PROVE  FALSE
  BY DEF Unretained
<1>1. admitted \in Seq(Admission) /\ now \in Nat /\ tombs \in Seq(Tomb)
  BY Positive DEF AgentInv, TypeInv, Held, Tombed
<1>2. admitted[m] \in Admission /\ Len(admitted) \in Nat
  BY <1>1
<1>3. admitted[m].at \in Nat /\ MaxTombs \in Nat /\ Retention \in Nat
  BY <1>2, Positive DEF Admission
<1>4. Len(admitted) - m < MaxTombs /\ admitted[m].at + Retention > now
  BY <1>1, <1>2, <1>3
<1>5. PICK n \in 1..Len(tombs) : tombs[n].sid = m
  BY <1>4 DEF AgentInv, Held, Covered
<1>6. tombs[n].req = r
  BY <1>5 DEF AgentInv, Held, Tombed, Of
<1>7. Known(tombs, r) # {}
  BY <1>1, <1>6, EntryIsKnown
<1>8. PICK k : k \in (IF Known(replies, r) # {} THEN Known(replies, r) ELSE Retained(r))
  BY <1>7 DEF Retained
<1>9. Same(k, d) \in Answer(r, d)
  BY <1>8 DEF Answer
<1> QED
  BY <1>9

\* A new start (handle, refresh).
LEMMA ReceiveStep ==
    ASSUME AgentInv, NEW r \in Reqs, NEW d \in Digests, Receive(r, d)
    PROVE  AgentInv' /\ JournalStep
<1>1. /\ phase = "idle" /\ phase' = "dispatch" /\ Refresh /\ Answer(r, d) = {}
      /\ request' = [req |-> r, digest |-> d] /\ UNCHANGED <<now, replies, backend, admitted>>
  BY DEF Receive
<1>2. /\ Stored' /\ LiveInv' /\ OnceInv' /\ Held' /\ disk' \in [sessions : Seq(Record), tombs : Seq(Tomb)]
      /\ Agrees(disk.sessions, disk'.sessions) /\ Remains
  BY <1>1, RefreshKeeps
<1>3. TypeInv'
  BY <1>1, <1>2 DEF AgentInv, TypeInv
<1>4. Told'
  BY <1>1, TellsOn DEF AgentInv
<1>5. StartInv'
  <2>1. Unretained(admitted, r, now)
    BY <1>1, NewIsUnretained
  <2>2. request'.req = r
    BY <1>1
  <2> QED
    BY <1>1, <2>1, <2>2 DEF StartInv, Unretained
<1>6. AgentInv'
  BY <1>1, <1>2, <1>3, <1>4, <1>5 DEF AgentInv
<1> QED
  BY <1>1, <1>2, <1>6 DEF JournalStep

\* A start that is refused (_start).
LEMMA RefuseStep ==
    ASSUME AgentInv, Refuse
    PROVE  AgentInv' /\ JournalStep
<1>1. /\ phase = "dispatch" /\ phase' = "idle" /\ Remember(request.req, request.digest, Error)
      /\ UNCHANGED <<now, disk, records, tombs, backend, admitted>>
  BY DEF Refuse
<1>2. /\ Stored' /\ LiveInv' /\ OnceInv' /\ Held' /\ Agrees(disk.sessions, disk'.sessions) /\ Remains
  BY <1>1, StillHeld
<1>3. TypeInv'
  BY <1>1 DEF AgentInv, TypeInv
<1>4. Told'
  <2>1. request.req \in Reqs /\ request.digest \in Digests /\ Told
    BY <1>1 DEF AgentInv, TypeInv
  <2> QED
    BY <1>1, <2>1, RememberTold
<1>5. StartInv'
  BY <1>1 DEF StartInv
<1>6. AgentInv'
  BY <1>1, <1>2, <1>3, <1>4, <1>5 DEF AgentInv
<1> QED
  BY <1>1, <1>2, <1>6 DEF JournalStep

-----------------------------------------------------------------------------
(* An admission *)

\* Identities that are dropped for the bound are of sessions that as many
\* others were admitted after.
LEMMA NewestTombs ==
    ASSUME NEW a \in Seq(Admission), NEW t \in Nat, NEW l, Tombed(a, l), Covered(a, t, l)
    PROVE  Tombed(a, Newest(l, MaxTombs)) /\ Covered(a, t, Newest(l, MaxTombs))
<1> DEFINE r == Newest(l, MaxTombs)
<1>1. l \in Seq(Tomb) /\ Len(l) \in Nat /\ Len(a) \in Nat
  BY DEF Tombed
<1>2. MaxTombs \in Nat /\ MaxTombs > 0
  BY Positive
<1>3. l \in Seq(Tomb)
  BY <1>1
<1>4. PICK d \in 0..Len(l) :
           /\ Len(r) = Len(l) - d /\ (d > 0 => Len(l) - d = MaxTombs)
           /\ \A k \in 1..Len(l) - d : r[k] = l[k + d]
  BY <1>2, <1>3, NewestIsEnd
<1>5. r \in Seq(Tomb)
  BY <1>2, <1>3, NewestIsEnd
<1> HIDE DEF r
<1>6. \A k \in 1..Len(r) : k + d \in 1..Len(l) /\ r[k] = l[k + d]
  BY <1>1, <1>4
<1>7. Tombed(a, r)
  <2>1. ASSUME NEW n \in 1..Len(r)
        PROVE  Of(a, r[n]) /\ r[n].expires = a[r[n].sid].at + Retention
    BY <1>6 DEF Tombed
  <2>2. ASSUME NEW m \in 1..Len(r), NEW n \in 1..Len(r), m < n
        PROVE  r[m].sid < r[n].sid
    <3>1. m + d \in 1..Len(l) /\ n + d \in 1..Len(l) /\ m + d < n + d
      BY <1>6, <2>2
    <3>2. l[m + d].sid < l[n + d].sid
      BY <3>1 DEF Tombed
    <3> QED
      BY <1>6, <3>2
  <2> QED
    BY <1>5, <2>1, <2>2 DEF Tombed
<1>8. Covered(a, t, r)
  <2> SUFFICES ASSUME NEW m \in 1..Len(a), Len(a) - m < MaxTombs, a[m].at + Retention > t
               PROVE  \E n \in 1..Len(r) : r[n].sid = m
    BY DEF Covered
  <2>1. PICK n \in 1..Len(l) : l[n].sid = m
    BY DEF Covered
  <2>2. CASE n > d
    <3>1. n - d \in 1..Len(r) /\ (n - d) + d = n
      BY <1>1, <1>4, <2>2
    <3> QED
      BY <1>6, <2>1, <3>1
  <2>3. CASE ~(n > d)
    <3>1. d > 0 /\ Len(r) = MaxTombs
      BY <1>1, <1>4, <2>3
    <3> DEFINE h == [k \in 1..MaxTombs |-> r[k].sid - m]
    <3>2. ASSUME NEW k \in 1..MaxTombs
          PROVE  h[k] \in 1..(Len(a) - m)
      <4>1. k + d \in 1..Len(l) /\ n < k + d /\ r[k] = l[k + d]
        BY <1>1, <1>2, <1>6, <2>3, <3>1
      <4>2. m < r[k].sid /\ r[k].sid \in 1..Len(a)
        BY <2>1, <4>1 DEF Tombed, Of
      <4> QED
        BY <1>1, <4>2
    <3>3. h \in [1..MaxTombs -> 1..(Len(a) - m)]
      BY <3>2
    <3>4. ASSUME NEW j \in 1..MaxTombs, NEW k \in 1..MaxTombs, j < k
          PROVE  h[j] < h[k]
      <4>1. r[j].sid < r[k].sid
        BY <1>7, <3>1, <3>4 DEF Tombed
      <4>2. r[j].sid \in Nat /\ r[k].sid \in Nat /\ m \in Nat
        BY <1>1, <1>7, <3>1 DEF Tombed, Of
      <4>3. h[j] = r[j].sid - m /\ h[k] = r[k].sid - m
        OBVIOUS
      <4>4. \A x \in Nat, y \in Nat : x < y => x - m < y - m
        BY <4>2
      <4> HIDE DEF h, r
      <4> QED
        BY <4>1, <4>2, <4>3, <4>4
    <3> HIDE DEF h
    <3>5. Len(a) - m \in Nat
      BY <1>1
    <3>6. MaxTombs <= Len(a) - m
      BY <1>2, <3>3, <3>4, <3>5, ClimbingIsBounded
    <3> QED
      BY <1>1, <1>2, <3>6
  <2> QED
    BY <1>1, <2>2, <2>3
<1> QED
  BY <1>7, <1>8 DEF r

\* One more admission leaves the entries of the others true.
LEMMA AdmissionGrows ==
    ASSUME NEW a \in Seq(Admission), NEW b \in Seq(Admission), Len(a) <= Len(b),
           \A n \in 1..Len(a) : b[n] = a[n]
    PROVE  /\ \A e : Of(a, e) => Of(b, e)
           /\ \A recs : Recorded(a, recs) => Recorded(b, recs)
           /\ \A ts : Tombed(a, ts) => Tombed(b, ts)
<1>0. Len(a) \in Nat /\ Len(b) \in Nat
  OBVIOUS
<1>1. ASSUME NEW e, Of(a, e)
      PROVE  Of(b, e) /\ b[e.sid] = a[e.sid]
  BY <1>0, <1>1 DEF Of
<1>2. ASSUME NEW recs, Recorded(a, recs)
      PROVE  Recorded(b, recs)
  BY <1>1, <1>2 DEF Recorded
<1>3. ASSUME NEW ts, Tombed(a, ts)
      PROVE  Tombed(b, ts)
  BY <1>1, <1>3 DEF Tombed
<1> QED
  BY <1>1, <1>2, <1>3

\* The record that makes room is finished, and the only one to go.
LEMMA RoomIsMade ==
    ASSUME AgentInv, phase # "down", Room
    PROVE  /\ Full => Retired \in 1..Len(records) /\ records[Retired].state \in Terminal
           /\ Kept \in Seq(Record) /\ Len(Kept) < MaxRecords
           /\ Full => Len(Kept) + 1 = Len(records)
           /\ \A k \in 1..Len(Kept) : \E n \in 1..Len(records) : Kept[k] = records[n] /\ ~(Full /\ n = Retired)
           /\ \A j, k \in 1..Len(Kept) : Kept[j].sid = Kept[k].sid => j = k
           /\ \A n \in 1..Len(records) : ~(Full /\ n = Retired) => \E k \in 1..Len(Kept) : Kept[k] = records[n]
<1>1. /\ records \in Seq(Record) /\ Len(records) \in Nat /\ DOMAIN records = 1..Len(records)
      /\ Len(records) <= MaxRecords /\ MaxRecords \in Nat
      /\ \A m, n \in 1..Len(records) : records[m].sid = records[n].sid => m = n
  BY Positive DEF AgentInv, Held, Recorded
<1>2. CASE ~Full
  <2>1. Kept = records
    BY <1>2 DEF Kept
  <2>2. Len(records) < MaxRecords
    BY <1>1, <1>2 DEF Full
  <2> QED
    BY <1>1, <1>2, <2>1, <2>2
<1>3. CASE Full
  <2>1. Finished # {} /\ Finished \subseteq Nat
    BY <1>1, <1>3 DEF Full, Room, Finished
  <2>2. \E x \in Finished : \A y \in Finished : x <= y
    BY <2>1, FirstExists
  <2>3. Retired \in Finished
    BY <2>2 DEF Retired
  <2>4. Retired \in 1..Len(records) /\ records[Retired].state \in Terminal
    BY <1>1, <2>3 DEF Finished
  <2> DEFINE i == Retired
             r == RemoveAt(records, i)
  <2>5. records \in Seq(Record)
    BY <1>1
  <2>6. i \in 1..Len(records)
    BY <2>4
  <2>7. Kept = r
    BY <1>3 DEF Kept
  <2> HIDE DEF i
  <2>8. /\ r \in Seq(Record) /\ Len(r) = Len(records) - 1
        /\ \A k \in 1..Len(records) - 1 : r[k] = IF k < i THEN records[k] ELSE records[k + 1]
    BY <2>5, <2>6, RemoveAtDrops
  <2> HIDE DEF r
  <2>9. Len(r) < MaxRecords /\ Len(r) + 1 = Len(records)
    BY <1>1, <2>8
  <2> DEFINE at(k) == IF k < i THEN k ELSE k + 1
  <2>10. \A k \in 1..Len(r) : at(k) \in 1..Len(records) /\ at(k) # i /\ r[k] = records[at(k)]
    BY <1>1, <2>6, <2>8
  <2>11. \A j, k \in 1..Len(r) : at(j) = at(k) => j = k
    BY <1>1, <2>6, <2>8
  <2>12. \A n \in 1..Len(records) : n # i => \E k \in 1..Len(r) : at(k) = n
    <3> SUFFICES ASSUME NEW n \in 1..Len(records), n # i PROVE \E k \in 1..Len(r) : at(k) = n
      OBVIOUS
    <3>1. CASE n < i
      <4>1. n \in 1..Len(r) /\ at(n) = n
        BY <1>1, <2>6, <2>8, <3>1
      <4> QED
        BY <4>1
    <3>2. CASE ~(n < i)
      <4>1. n - 1 \in 1..Len(r) /\ at(n - 1) = n
        BY <1>1, <2>6, <2>8, <3>2
      <4> QED
        BY <4>1
    <3> QED
      BY <3>1, <3>2
  <2> HIDE DEF at
  <2>13. \A k \in 1..Len(r) : \E n \in 1..Len(records) : r[k] = records[n] /\ n # i
    BY <2>10
  <2>14. \A j, k \in 1..Len(r) : r[j].sid = r[k].sid => j = k
    <3> SUFFICES ASSUME NEW j \in 1..Len(r), NEW k \in 1..Len(r), r[j].sid = r[k].sid PROVE j = k
      OBVIOUS
    <3>1. records[at(j)].sid = records[at(k)].sid /\ at(j) \in 1..Len(records) /\ at(k) \in 1..Len(records)
      BY <2>10
    <3>2. at(j) = at(k)
      BY <1>1, <3>1
    <3> QED
      BY <2>11, <3>2
  <2>15. \A n \in 1..Len(records) : n # i => \E k \in 1..Len(r) : r[k] = records[n]
    <3> SUFFICES ASSUME NEW n \in 1..Len(records), n # i PROVE \E k \in 1..Len(r) : r[k] = records[n]
      OBVIOUS
    <3>1. PICK k \in 1..Len(r) : at(k) = n
      BY <2>12
    <3> QED
      BY <2>10, <3>1
  <2> QED
    BY <1>3, <2>4, <2>7, <2>8, <2>9, <2>13, <2>14, <2>15 DEF i
<1> QED
  BY <1>2, <1>3

Admitted == [req |-> request.req, digest |-> request.digest, sid |-> Sid, at |-> now]

\* What an admission makes (_start).
LEMMA AdmitMakes ==
    ASSUME AgentInv, phase = "dispatch", Len(admitted) < MaxStarts, admitted' = Append(admitted, Admitted)
    PROVE  /\ admitted' \in Seq(Admission) /\ Len(admitted') = Len(admitted) + 1 /\ Sid = Len(admitted')
           /\ Len(admitted') <= MaxStarts /\ Len(admitted) \in Nat /\ Sid \in Sids
           /\ \A n \in 1..Len(admitted) : admitted'[n] = admitted[n]
           /\ admitted'[Sid].req = request.req /\ admitted'[Sid].digest = request.digest
           /\ admitted'[Sid].sid = Sid /\ admitted'[Sid].at = now /\ now \in Nat
           /\ NewRecord \in Record /\ NewTomb \in Tomb
           /\ NewRecord.sid = Sid /\ NewRecord.state = "accepted"
           /\ Of(admitted', NewRecord) /\ Of(admitted', NewTomb)
           /\ NewTomb.sid = Sid /\ NewTomb.expires = now + Retention
<1>1. /\ admitted \in Seq(Admission) /\ Len(admitted) \in Nat /\ now \in 0..MaxTime
      /\ request.req \in Reqs /\ request.digest \in Digests
  BY DEF AgentInv, TypeInv
<1>2. MaxStarts \in Nat /\ MaxTime \in Nat /\ Retention \in Nat
  BY Positive
<1>3. Sid = Len(admitted) + 1 /\ Sid \in Sids
  BY <1>1, <1>2 DEF Sid, Sids
<1>4. Admitted \in Admission
  BY <1>1, <1>3 DEF Admitted, Admission
<1>5. /\ Admitted.req = request.req /\ Admitted.digest = request.digest
      /\ Admitted.sid = Sid /\ Admitted.at = now
  BY DEF Admitted
<1>6. admitted \in Seq(Admission)
  BY <1>1
<1>7. /\ admitted' \in Seq(Admission) /\ Len(admitted') = Len(admitted) + 1
      /\ admitted'[Len(admitted) + 1] = Admitted /\ \A n \in 1..Len(admitted) : admitted'[n] = admitted[n]
  BY <1>4, <1>6
<1>8. NewRecord \in Record /\ NewTomb \in Tomb
  BY <1>1, <1>2, <1>3 DEF NewRecord, NewTomb, Record, Tomb, States
<1>9. /\ NewRecord.sid = Sid /\ NewRecord.state = "accepted" /\ NewTomb.sid = Sid
      /\ NewTomb.expires = now + Retention
      /\ NewRecord.req = request.req /\ NewRecord.digest = request.digest
      /\ NewTomb.req = request.req /\ NewTomb.digest = request.digest
  BY DEF NewRecord, NewTomb
<1>10. Sid \in 1..Len(admitted') /\ admitted'[Sid] = Admitted
  BY <1>1, <1>3, <1>7
<1>11. Of(admitted', NewRecord) /\ Of(admitted', NewTomb)
  BY <1>5, <1>9, <1>10 DEF Of
<1>12. Len(admitted') <= MaxStarts /\ now \in Nat
  BY <1>1, <1>2, <1>7
<1> QED
  BY <1>1, <1>3, <1>5, <1>7, <1>8, <1>9, <1>10, <1>11, <1>12

\* The identity of the new session is kept with the others.
LEMMA AdmitTombs ==
    ASSUME AgentInv, phase = "dispatch", Len(admitted) < MaxStarts, admitted' = Append(admitted, Admitted)
    PROVE  /\ Tombed(admitted', Newest(Append(tombs, NewTomb), MaxTombs))
           /\ Covered(admitted', now, Newest(Append(tombs, NewTomb), MaxTombs))
<1> DEFINE a == admitted'
           l == Append(tombs, NewTomb)
<1>1. /\ a \in Seq(Admission) /\ Len(a) = Len(admitted) + 1 /\ Len(admitted) \in Nat
      /\ \A n \in 1..Len(admitted) : a[n] = admitted[n]
      /\ a[Len(a)].at = now /\ now \in Nat
      /\ NewTomb \in Tomb /\ Of(a, NewTomb) /\ NewTomb.sid = Len(a) /\ NewTomb.expires = now + Retention
  BY AdmitMakes
<1>2. tombs \in Seq(Tomb) /\ Len(tombs) \in Nat /\ Tombed(admitted, tombs) /\ Covered(admitted, now, tombs)
  BY DEF AgentInv, Held, Tombed
<1>3. admitted \in Seq(Admission)
  BY DEF AgentInv, TypeInv
<1> DEFINE e == NewTomb
           L == Len(tombs)
<1> HIDE DEF e
<1>4. /\ l \in Seq(Tomb) /\ Len(l) = L + 1 /\ l[L + 1] = e
      /\ \A n \in 1..L : l[n] = tombs[n]
  BY <1>1, <1>2 DEF e
<1> HIDE DEF l
<1>5. a \in Seq(Admission)
  BY <1>1
<1>6. Len(admitted) <= Len(a)
  BY <1>1
<1>7. Tombed(a, tombs)
  BY <1>1, <1>2, <1>3, <1>5, <1>6, AdmissionGrows
<1>8. \A n \in 1..L : tombs[n].sid \in 1..Len(admitted)
  BY <1>2 DEF Tombed, Of
<1> HIDE DEF a
<1>9. Tombed(a, l)
  <2>1. ASSUME NEW n \in 1..Len(l)
        PROVE  Of(a, l[n]) /\ l[n].expires = a[l[n].sid].at + Retention
    <3>1. CASE n = L + 1
      BY <1>1, <1>4, <3>1 DEF e, a
    <3>2. CASE n # L + 1
      <4>1. n \in 1..L /\ l[n] = tombs[n]
        BY <1>2, <1>4, <3>2
      <4> QED
        BY <1>7, <4>1 DEF Tombed
    <3> QED
      BY <3>1, <3>2
  <2>2. ASSUME NEW m \in 1..Len(l), NEW n \in 1..Len(l), m < n
        PROVE  l[m].sid < l[n].sid
    <3>1. m \in 1..L /\ l[m] = tombs[m]
      BY <1>2, <1>4, <2>2
    <3>2. CASE n = L + 1
      <4>1. l[m].sid \in 1..Len(admitted)
        BY <1>8, <3>1
      <4> QED
        BY <1>1, <1>4, <3>2, <4>1 DEF e, a
    <3>3. CASE n # L + 1
      <4>1. n \in 1..L /\ l[n] = tombs[n]
        BY <1>2, <1>4, <3>3
      <4> QED
        BY <1>7, <2>2, <3>1, <4>1 DEF Tombed
    <3> QED
      BY <3>2, <3>3
  <2> QED
    BY <1>4, <2>1, <2>2 DEF Tombed
<1>10. Covered(a, now, l)
  <2> SUFFICES ASSUME NEW m \in 1..Len(a), Len(a) - m < MaxTombs, a[m].at + Retention > now
               PROVE  \E n \in 1..Len(l) : l[n].sid = m
    BY DEF Covered
  <2>1. CASE m = Len(a)
    <3>1. L + 1 \in 1..Len(l) /\ l[L + 1].sid = m
      BY <1>1, <1>2, <1>4, <2>1 DEF e, a
    <3> QED
      BY <3>1
  <2>2. CASE m # Len(a)
    <3>1. m \in 1..Len(admitted) /\ a[m] = admitted[m]
      BY <1>1, <2>2 DEF a
    <3>2. Len(admitted) - m < MaxTombs
      BY <1>1, <3>1, Positive DEF a
    <3>3. PICK n \in 1..L : tombs[n].sid = m
      BY <1>2, <3>1, <3>2 DEF Covered
    <3>4. n \in 1..Len(l) /\ l[n] = tombs[n]
      BY <1>2, <1>4
    <3> QED
      BY <3>3, <3>4
  <2> QED
    BY <2>1, <2>2
<1>11. now \in Nat /\ a \in Seq(Admission)
  BY <1>1 DEF a
<1>12. Tombed(a, Newest(l, MaxTombs)) /\ Covered(a, now, Newest(l, MaxTombs))
  BY <1>9, <1>10, <1>11, NewestTombs
<1> QED
  BY <1>12 DEF a, l

\* The new record is recorded with those that were kept.
LEMMA AdmitRecords ==
    ASSUME AgentInv, phase = "dispatch", Room, Len(admitted) < MaxStarts,
           admitted' = Append(admitted, Admitted), records' = Append(Kept, NewRecord)
    PROVE  /\ Recorded(admitted', records') /\ Agrees(disk.sessions, records')
           /\ Len(records') > 0 /\ records'[Len(records')] = NewRecord
           /\ Remains \/ Displaces
           /\ \A s \in Sids : Unfinished(records, s) => Unfinished(records', s)
<1>1. /\ admitted' \in Seq(Admission) /\ Len(admitted') = Len(admitted) + 1 /\ Len(admitted) \in Nat
      /\ \A n \in 1..Len(admitted) : admitted'[n] = admitted[n]
      /\ NewRecord \in Record /\ Of(admitted', NewRecord) /\ NewRecord.sid = Len(admitted')
  BY AdmitMakes
<1>2. /\ Full => Retired \in 1..Len(records) /\ records[Retired].state \in Terminal
      /\ Kept \in Seq(Record) /\ Len(Kept) < MaxRecords
      /\ \A k \in 1..Len(Kept) : \E n \in 1..Len(records) : Kept[k] = records[n] /\ ~(Full /\ n = Retired)
      /\ \A j, k \in 1..Len(Kept) : Kept[j].sid = Kept[k].sid => j = k
      /\ \A n \in 1..Len(records) : ~(Full /\ n = Retired) => \E k \in 1..Len(Kept) : Kept[k] = records[n]
  BY RoomIsMade
<1>3. /\ \A n \in 1..Len(records) : Of(admitted, records[n]) /\ Of(admitted', records[n])
      /\ \A m, n \in 1..Len(records) : records[m].sid = records[n].sid => m = n
  <2>1. Recorded(admitted, records) /\ admitted \in Seq(Admission)
    BY DEF AgentInv, Held, TypeInv
  <2>2. Len(admitted) <= Len(admitted')
    BY <1>1
  <2>3. Recorded(admitted', records)
    BY <1>1, <2>1, <2>2, AdmissionGrows
  <2> QED
    BY <2>1, <2>3 DEF Recorded
<1> DEFINE e == NewRecord
           L == Len(Kept)
<1> HIDE DEF e
<1>4. Kept \in Seq(Record) /\ e \in Record
  BY <1>1, <1>2 DEF e
<1>5. /\ records' \in Seq(Record) /\ Len(records') = L + 1 /\ records'[L + 1] = e
      /\ (\A k \in 1..L : records'[k] = Kept[k]) /\ L \in Nat
  BY <1>4 DEF e
<1> HIDE DEF L
<1>6. ASSUME NEW k \in 1..L
      PROVE  \E n \in 1..Len(records) : records'[k] = records[n]
  BY <1>2, <1>5, <1>6 DEF L
<1>7. ASSUME NEW k \in 1..L
      PROVE  records'[k].sid \in 1..Len(admitted) /\ Of(admitted', records'[k])
  <2>1. PICK n \in 1..Len(records) : records'[k] = records[n]
    BY <1>6, <1>7
  <2>2. Of(admitted, records[n]) /\ Of(admitted', records[n])
    BY <1>3
  <2> QED
    BY <2>1, <2>2 DEF Of
<1>8. Recorded(admitted', records')
  <2>1. Len(records') <= MaxRecords
    <3>1. L < MaxRecords /\ MaxRecords \in Nat
      BY <1>2, Positive DEF L
    <3> QED
      BY <1>5, <3>1
  <2>2. ASSUME NEW k \in 1..Len(records')
        PROVE  Of(admitted', records'[k])
    <3>1. k = L + 1 \/ k \in 1..L
      BY <1>5
    <3> QED
      BY <1>1, <1>5, <1>7, <3>1 DEF e
  <2>3. ASSUME NEW j \in 1..Len(records'), NEW k \in 1..Len(records'), records'[j].sid = records'[k].sid
        PROVE  j = k
    <3>1. (j = L + 1 \/ j \in 1..L) /\ (k = L + 1 \/ k \in 1..L)
      BY <1>5
    <3>2. CASE j \in 1..L /\ k \in 1..L
      BY <1>2, <1>5, <2>3, <3>2 DEF L
    <3>3. CASE j \in 1..L /\ k = L + 1
      BY <1>1, <1>5, <1>7, <2>3, <3>3 DEF e
    <3>4. CASE k \in 1..L /\ j = L + 1
      BY <1>1, <1>5, <1>7, <2>3, <3>4 DEF e
    <3> QED
      BY <3>1, <3>2, <3>3, <3>4
  <2> QED
    BY <1>5, <2>1, <2>2, <2>3 DEF Recorded
<1>9. Agrees(disk.sessions, records')
  <2> DEFINE old == disk.sessions
  <2>0. /\ \A m \in 1..Len(old) : old[m].sid \in 1..Len(admitted)
        /\ Agrees(old, records)
    BY DEF AgentInv, Stored, Held, Recorded, Of
  <2> HIDE DEF old
  <2> SUFFICES ASSUME NEW m \in 1..Len(old), NEW k \in 1..Len(records'),
                      old[m].sid = records'[k].sid, old[m].state \in Terminal
               PROVE  records'[k] = old[m]
    BY DEF Agrees, old
  <2>1. k # L + 1
    BY <1>1, <1>5, <2>0 DEF e
  <2>2. k \in 1..L
    BY <1>5, <2>1
  <2>3. PICK n \in 1..Len(records) : records'[k] = records[n]
    BY <1>6, <2>2
  <2> QED
    BY <2>0, <2>3 DEF Agrees
<1>10. ASSUME NEW n \in 1..Len(records), ~(Full /\ n = Retired)
       PROVE  \E k \in 1..Len(records') : records'[k] = records[n]
  <2>1. PICK k \in 1..L : Kept[k] = records[n]
    BY <1>2, <1>10 DEF L
  <2>2. k \in 1..Len(records') /\ records'[k] = records[n]
    BY <1>5, <2>1
  <2> QED
    BY <2>2
<1>11. Remains \/ Displaces
  <2>1. CASE Full
    <3>1. \A n \in (1..Len(records)) \ {Retired} : \E k \in 1..Len(records') : records'[k].sid = records[n].sid
      BY <1>10
    <3> QED
      BY <1>2, <2>1, <3>1 DEF Displaces
  <2>2. CASE ~Full
    BY <1>10, <2>2 DEF Remains
  <2> QED
    BY <2>1, <2>2
<1>12. ASSUME NEW s \in Sids, Unfinished(records, s)
       PROVE  Unfinished(records', s)
  <2>1. PICK n \in 1..Len(records) : records[n].sid = s /\ records[n].state \notin Terminal
    BY <1>12 DEF Unfinished
  <2>2. ~(Full /\ n = Retired)
    BY <1>2, <2>1
  <2> QED
    BY <1>10, <2>1, <2>2 DEF Unfinished
<1>13. Len(records') > 0 /\ records'[Len(records')] = e
  BY <1>5
<1> QED
  BY <1>8, <1>9, <1>11, <1>12, <1>13 DEF e

\* An admission that is on disk (_start).
LEMMA AdmitSavedStep ==
    ASSUME AgentInv, AdmitSaved
    PROVE  AgentInv' /\ JournalStep
<1>1. /\ phase = "dispatch" /\ phase' = "admitted" /\ Room /\ Len(admitted) < MaxStarts
      /\ records' = Append(Kept, NewRecord) /\ admitted' = Append(admitted, Admitted)
      /\ Saved(records', Newest(Append(tombs, NewTomb), MaxTombs))
      /\ UNCHANGED <<now, replies, request, backend>>
  BY DEF AdmitSaved, Admissible, Admitted
<1>2. /\ TypeInv /\ LiveInv /\ StartInv /\ OnceInv /\ Told
  BY DEF AgentInv
<1>3. /\ admitted' \in Seq(Admission) /\ Len(admitted') = Len(admitted) + 1 /\ Sid = Len(admitted')
      /\ Len(admitted') <= MaxStarts /\ Len(admitted) \in Nat /\ Sid \in Sids
      /\ \A n \in 1..Len(admitted) : admitted'[n] = admitted[n]
      /\ admitted'[Sid].req = request.req /\ admitted'[Sid].digest = request.digest
      /\ admitted'[Sid].sid = Sid /\ admitted'[Sid].at = now /\ now \in Nat
      /\ NewRecord.sid = Sid /\ NewRecord.state = "accepted"
  BY <1>1, AdmitMakes
<1>4. /\ Tombed(admitted', Newest(Append(tombs, NewTomb), MaxTombs))
      /\ Covered(admitted', now, Newest(Append(tombs, NewTomb), MaxTombs))
  BY <1>1, AdmitTombs
<1>5. /\ Recorded(admitted', records') /\ Agrees(disk.sessions, records')
      /\ Len(records') > 0 /\ records'[Len(records')] = NewRecord
      /\ Remains \/ Displaces
      /\ \A s \in Sids : Unfinished(records, s) => Unfinished(records', s)
  BY <1>1, AdmitRecords
<1>6. /\ Stored' /\ disk' \in [sessions : Seq(Record), tombs : Seq(Tomb)] /\ disk'.sessions = records'
      /\ Tombed(admitted', tombs') /\ Covered(admitted', now', tombs')
  BY <1>1, <1>3, <1>4, <1>5, SaveKeeps
<1>7. Held'
  <2>1. Agrees(records', records')
    BY <1>5, SelfAgrees
  <2> QED
    BY <1>5, <1>6, <2>1 DEF Held, Recorded, Tombed, Covered, Of, Agrees
<1>8. TypeInv'
  <2>1. ASSUME NEW n \in 1..Len(admitted')
        PROVE  admitted'[n].sid = n
    <3>1. n = Sid \/ n \in 1..Len(admitted)
      BY <1>3
    <3> QED
      BY <1>2, <1>3, <3>1 DEF TypeInv
  <2> QED
    BY <1>1, <1>2, <1>3, <1>6, <2>1 DEF TypeInv
<1>9. Told'
  <2>1. Len(admitted) <= Len(admitted') /\ admitted \in Seq(Admission)
    BY <1>2, <1>3 DEF TypeInv
  <2>2. \A e : Of(admitted, e) => Of(admitted', e)
    BY <1>3, <2>1, AdmissionGrows
  <2> QED
    BY <1>1, <1>2, <2>2 DEF Told, Of
<1>10. LiveInv'
  <2> SUFFICES ASSUME NEW s \in Sids
               PROVE  /\ backend[s] # "absent" => s \in 1..Len(admitted')
                      /\ backend[s] = "running" => Unfinished(records', s) /\ Unfinished(disk'.sessions, s)
    BY <1>1 DEF LiveInv, Unfinished
  <2> QED
    BY <1>2, <1>3, <1>5, <1>6 DEF LiveInv
<1>11. StartInv'
  <2>1. backend[Sid] = "absent"
    BY <1>2, <1>3 DEF LiveInv
  <2> QED
    BY <1>1, <1>3, <1>5, <1>6, <2>1 DEF StartInv
<1>12. OnceInv'
  <2> SUFFICES ASSUME NEW m \in 1..Len(admitted'), NEW n \in 1..Len(admitted'),
                      m < n, admitted'[m].req = admitted'[n].req
               PROVE  admitted'[n].at >= admitted'[m].at + Retention \/ n - m > MaxTombs
    BY DEF OnceInv
  <2>1. m \in 1..Len(admitted) /\ (n = Sid \/ n \in 1..Len(admitted))
    BY <1>3
  <2>2. CASE n = Sid
    <3>1. Unretained(admitted, request.req, now)
      BY <1>1, <1>2 DEF StartInv
    <3>2. admitted[m].req = request.req /\ admitted'[m] = admitted[m] /\ admitted'[n].at = now
      BY <1>3, <2>1, <2>2
    <3>3. now >= admitted[m].at + Retention \/ Len(admitted) + 1 - m > MaxTombs
      BY <2>1, <3>1, <3>2 DEF Unretained
    <3> QED
      BY <1>3, <2>2, <3>2, <3>3
  <2>3. CASE n \in 1..Len(admitted)
    BY <1>2, <1>3, <2>1, <2>3 DEF OnceInv
  <2> QED
    BY <2>1, <2>2, <2>3
<1>13. AgentInv'
  BY <1>1, <1>6, <1>7, <1>8, <1>9, <1>10, <1>11, <1>12 DEF AgentInv
<1> QED
  BY <1>1, <1>3, <1>5, <1>6, <1>13 DEF JournalStep

\* An admission that could not be saved: what made room comes back (_start).
LEMMA AdmitUnsavedStep ==
    ASSUME AgentInv, AdmitUnsaved
    PROVE  AgentInv' /\ JournalStep
<1>1. /\ phase = "dispatch" /\ phase' = "idle" /\ Room
      /\ records' = IF Full THEN <<records[Retired]>> \o Kept ELSE records
      /\ Remember(request.req, request.digest, Error)
      /\ UNCHANGED <<now, disk, tombs, backend, admitted>>
  BY DEF AdmitUnsaved, Admissible
<1>2. TypeInv /\ Stored /\ Told /\ LiveInv /\ OnceInv /\ Held
  BY <1>1 DEF AgentInv
<1>3. /\ records \in Seq(Record) /\ Len(records) \in Nat /\ Len(records) <= MaxRecords
      /\ \A n \in 1..Len(records) : Of(admitted, records[n])
      /\ \A m, n \in 1..Len(records) : records[m].sid = records[n].sid => m = n
  BY <1>2 DEF Held, Recorded
<1>4. /\ records' \in Seq(Record) /\ Len(records') <= MaxRecords
      /\ \A k \in 1..Len(records') : \E n \in 1..Len(records) : records'[k] = records[n]
      /\ \A j, k \in 1..Len(records') : records'[j].sid = records'[k].sid => j = k
      /\ \A n \in 1..Len(records) : \E k \in 1..Len(records') : records'[k] = records[n]
  <2>1. CASE ~Full
    BY <1>1, <1>3, <2>1
  <2>2. CASE Full
    <3>1. /\ Retired \in 1..Len(records) /\ Kept \in Seq(Record) /\ Len(Kept) + 1 = Len(records)
          /\ \A k \in 1..Len(Kept) : \E n \in 1..Len(records) : Kept[k] = records[n] /\ n # Retired
          /\ \A j, k \in 1..Len(Kept) : Kept[j].sid = Kept[k].sid => j = k
          /\ \A n \in 1..Len(records) : n # Retired => \E k \in 1..Len(Kept) : Kept[k] = records[n]
      BY <1>1, <2>2, RoomIsMade
    <3> DEFINE e == records[Retired]
               L == Len(Kept)
    <3>2. e \in Record /\ records \in Seq(Record)
      BY <1>3, <3>1
    <3>3. records' = <<e>> \o Kept
      BY <1>1, <2>2
    <3> HIDE DEF e
    <3>4. Kept \in Seq(Record)
      BY <3>1
    <3>5. /\ records' \in Seq(Record) /\ Len(records') = L + 1 /\ records'[1] = e
          /\ (\A k \in 1..L : records'[k + 1] = Kept[k]) /\ L \in Nat
      BY <3>2, <3>3, <3>4
    <3> HIDE DEF L
    <3>6. \A k \in 1..Len(records') : k = 1 \/ (k - 1 \in 1..L /\ records'[k] = Kept[k - 1])
      <4> SUFFICES ASSUME NEW k \in 1..Len(records'), k # 1 PROVE k - 1 \in 1..L /\ records'[k] = Kept[k - 1]
        OBVIOUS
      <4>1. k - 1 \in 1..L /\ (k - 1) + 1 = k
        BY <3>5
      <4> QED
        BY <3>5, <4>1
    <3>7. \A k \in 1..L : Kept[k].sid # e.sid
      <4> SUFFICES ASSUME NEW k \in 1..L PROVE Kept[k].sid # e.sid
        OBVIOUS
      <4>1. PICK n \in 1..Len(records) : Kept[k] = records[n] /\ n # Retired
        BY <3>1 DEF L
      <4> QED
        BY <1>3, <3>1, <4>1 DEF e
    <3>8. \A j, k \in 1..Len(records') : records'[j].sid = records'[k].sid => j = k
      <4> SUFFICES ASSUME NEW j \in 1..Len(records'), NEW k \in 1..Len(records'),
                          records'[j].sid = records'[k].sid
                   PROVE  j = k
        OBVIOUS
      <4>1. CASE j = 1 /\ k # 1
        BY <3>5, <3>6, <3>7, <4>1
      <4>2. CASE j # 1 /\ k = 1
        BY <3>5, <3>6, <3>7, <4>2
      <4>3. CASE j # 1 /\ k # 1
        <5>1. j - 1 \in 1..L /\ k - 1 \in 1..L /\ Kept[j - 1].sid = Kept[k - 1].sid
          BY <3>6, <4>3
        <5>2. j - 1 = k - 1
          BY <3>1, <5>1 DEF L
        <5> QED
          BY <5>2
      <4> QED
        BY <4>1, <4>2, <4>3
    <3>9. \A k \in 1..Len(records') : \E n \in 1..Len(records) : records'[k] = records[n]
      <4> SUFFICES ASSUME NEW k \in 1..Len(records') PROVE \E n \in 1..Len(records) : records'[k] = records[n]
        OBVIOUS
      <4>1. CASE k = 1
        BY <3>1, <3>5, <4>1 DEF e
      <4>2. CASE k # 1
        <5>1. k - 1 \in 1..Len(Kept) /\ records'[k] = Kept[k - 1]
          BY <3>6, <4>2 DEF L
        <5>2. PICK n \in 1..Len(records) : Kept[k - 1] = records[n]
          BY <3>1, <5>1
        <5> QED
          BY <5>1, <5>2
      <4> QED
        BY <4>1, <4>2
    <3>10. \A n \in 1..Len(records) : \E k \in 1..Len(records') : records'[k] = records[n]
      <4> SUFFICES ASSUME NEW n \in 1..Len(records) PROVE \E k \in 1..Len(records') : records'[k] = records[n]
        OBVIOUS
      <4>1. CASE n = Retired
        <5>1. 1 \in 1..Len(records') /\ records'[1] = records[n]
          BY <3>5, <4>1 DEF e
        <5> QED
          BY <5>1
      <4>2. CASE n # Retired
        <5>1. PICK k \in 1..L : Kept[k] = records[n]
          BY <3>1, <4>2 DEF L
        <5>2. k + 1 \in 1..Len(records') /\ records'[k + 1] = records[n]
          BY <3>5, <5>1
        <5> QED
          BY <5>2
      <4> QED
        BY <4>1, <4>2
    <3>11. Len(records') <= MaxRecords
      BY <1>3, <3>1, <3>5 DEF L
    <3> QED
      BY <3>5, <3>8, <3>9, <3>10, <3>11
  <2> QED
    BY <2>1, <2>2
<1>5. Recorded(admitted, records')
  BY <1>3, <1>4 DEF Recorded
<1>6. Agrees(disk.sessions, records')
  <2> DEFINE old == disk.sessions
  <2>1. Agrees(old, records)
    BY <1>2 DEF Held
  <2> HIDE DEF old
  <2>2. Agrees(old, records')
    BY <1>4, <2>1 DEF Agrees
  <2> QED
    BY <2>2 DEF old
<1>7. Stored' /\ Agrees(disk.sessions, disk'.sessions)
  <2>1. Stored'
    BY <1>1, <1>2 DEF Stored, Recorded, Tombed, Covered, Of
  <2>2. Agrees(disk.sessions, disk.sessions)
    BY <1>2, SelfAgrees DEF Stored
  <2> QED
    BY <1>1, <2>1, <2>2
<1>8. Held'
  <2>1. Recorded(admitted, records)'
    BY <1>1, <1>5 DEF Recorded, Of
  <2>2. Tombed(admitted, tombs)' /\ Covered(admitted, now, tombs)'
    BY <1>1, <1>2 DEF Held, Tombed, Covered, Of
  <2>3. Agrees(disk.sessions, records)'
    BY <1>1, <1>6 DEF Agrees
  <2> QED
    BY <2>1, <2>2, <2>3 DEF Held
<1>9. LiveInv'
  <2>1. \A s \in Sids : Unfinished(records, s) => Unfinished(records', s)
    BY <1>4 DEF Unfinished
  <2> QED
    BY <1>1, <1>2, <2>1, LiveKeeps
<1>10. Told'
  <2>1. request.req \in Reqs /\ request.digest \in Digests
    BY <1>1, <1>2 DEF TypeInv
  <2> QED
    BY <1>1, <1>2, <2>1, RememberTold
<1>11. TypeInv' /\ StartInv' /\ OnceInv'
  BY <1>1, <1>2 DEF TypeInv, StartInv, OnceInv
<1>12. Remains
  BY <1>4 DEF Remains
<1>13. AgentInv'
  BY <1>1, <1>7, <1>8, <1>9, <1>10, <1>11 DEF AgentInv
<1> QED
  BY <1>1, <1>7, <1>12, <1>13 DEF JournalStep

\* The backend starts, or its start fails and is recorded (_start).
LEMMA LaunchStep ==
    ASSUME AgentInv, Launch
    PROVE  AgentInv' /\ JournalStep
<1> DEFINE s == Len(admitted)
<1>1. /\ phase = "admitted" /\ phase' = "idle" /\ UNCHANGED <<now, admitted>>
      /\ Remember(request.req, request.digest, s)
      /\ \/ backend' = [backend EXCEPT ![s] = "running"] /\ UNCHANGED <<disk, records, tombs>>
         \/ /\ records' = [records EXCEPT ![Len(records)].state = "finished"]
            /\ Saved(records', tombs) \/ NotSaved(tombs)
            /\ backend' = backend
  BY DEF Launch
<1>2. TypeInv /\ Stored /\ Told /\ LiveInv /\ OnceInv /\ Held
  BY <1>1 DEF AgentInv
<1>3. /\ Len(records) > 0 /\ s > 0 /\ disk.sessions = records
      /\ records[Len(records)].sid = s /\ records[Len(records)].state = "accepted"
      /\ backend[s] = "absent" /\ admitted[s].req = request.req /\ admitted[s].digest = request.digest
  BY <1>1 DEF AgentInv, StartInv
<1>4. s \in Nat /\ s \in 1..Len(admitted) /\ s \in Sids
  BY <1>2, <1>3, Positive DEF TypeInv, Sids
<1>5. records \in Seq(Record) /\ Len(records) \in Nat /\ Recorded(admitted, records)
  BY <1>2 DEF Held, Recorded
<1>6. Told'
  <2>1. request.req \in Reqs /\ request.digest \in Digests
    BY <1>1, <1>2 DEF TypeInv
  <2> HIDE DEF s
  <2> QED
    BY <1>1, <1>2, <1>3, <1>4, <2>1, RememberTold
<1> HIDE DEF s
<1>7. CASE backend' = [backend EXCEPT ![s] = "running"] /\ UNCHANGED <<disk, records, tombs>>
  <2>1. Stored' /\ Held'
    BY <1>1, <1>2, <1>7 DEF Stored, Held, Recorded, Tombed, Covered, Of, Agrees
  <2>2. Agrees(disk.sessions, disk.sessions)
    BY <1>2, SelfAgrees DEF Stored
  <2>3. Unfinished(records, s)
    <3>1. Len(records) \in 1..Len(records) /\ records[Len(records)].state \notin Terminal
      BY <1>3, <1>5 DEF Terminal
    <3> QED
      BY <1>3, <3>1 DEF Unfinished
  <2>4. LiveInv'
    <3> SUFFICES ASSUME NEW x \in Sids
                 PROVE  /\ backend'[x] # "absent" => x \in 1..Len(admitted)
                        /\ backend'[x] = "running" => Unfinished(records, x) /\ Unfinished(disk.sessions, x)
      BY <1>1, <1>7 DEF LiveInv, Unfinished
    <3>1. backend \in [Sids -> {"absent", "running", "finished"}]
      BY <1>2 DEF TypeInv
    <3>2. CASE x = s
      BY <1>3, <1>4, <2>3, <3>2
    <3>3. CASE x # s
      BY <1>2, <1>7, <3>1, <3>3 DEF LiveInv
    <3> QED
      BY <3>2, <3>3
  <2>5. TypeInv'
    <3>1. backend' \in [Sids -> {"absent", "running", "finished"}]
      BY <1>2, <1>4, <1>7 DEF TypeInv
    <3> QED
      BY <1>1, <1>2, <1>7, <3>1 DEF TypeInv
  <2>6. StartInv' /\ OnceInv'
    BY <1>1, <1>2 DEF StartInv, OnceInv
  <2>7. Remains
    BY <1>7 DEF Remains
  <2>8. AgentInv'
    BY <1>1, <1>6, <2>1, <2>4, <2>5, <2>6 DEF AgentInv
  <2> QED
    BY <1>1, <1>7, <2>2, <2>7, <2>8 DEF JournalStep
<1>8. CASE /\ records' = [records EXCEPT ![Len(records)].state = "finished"]
           /\ Saved(records', tombs) \/ NotSaved(tombs)
           /\ backend' = backend
  <2> DEFINE L == Len(records)
             f == [records[L] EXCEPT !.state = "finished"]
  <2>1. L \in 1..L /\ DOMAIN records = 1..L
    BY <1>3, <1>5
  <2>2. records[L] \in Record
    BY <1>5, <2>1
  <2>3. f \in Record /\ f.sid = records[L].sid /\ f.req = records[L].req /\ f.digest = records[L].digest
    BY <2>2 DEF Record, States, Terminal
  <2>4. records' = [records EXCEPT ![L] = f]
    BY <1>8
  <2> HIDE DEF f
  <2>5. /\ records' \in Seq(Record) /\ Len(records') = L /\ records'[L] = f
        /\ \A n \in 1..L : n # L => records'[n] = records[n]
    BY <1>5, <2>1, <2>3, <2>4
  <2>6. records[L].state \notin Terminal
    BY <1>3 DEF Terminal
  <2> HIDE DEF L
  <2>7. Continues(records, records')
    BY <2>3, <2>5, <2>6 DEF Continues, L
  <2>8. Recorded(admitted, records')
    <3>1. \A n \in 1..L : /\ records'[n].sid = records[n].sid /\ records'[n].req = records[n].req
                          /\ records'[n].digest = records[n].digest
      BY <2>3, <2>5
    <3>2. ASSUME NEW n \in 1..L
          PROVE  Of(admitted, records'[n])
      <4>1. Of(admitted, records[n])
        BY <1>5 DEF Recorded, L
      <4> QED
        BY <3>1, <4>1 DEF Of
    <3>3. \A m, n \in 1..L : records'[m].sid = records'[n].sid => m = n
      BY <1>5, <3>1 DEF Recorded, L
    <3>4. Len(records) <= MaxRecords
      BY <1>5 DEF Recorded
    <3> QED
      BY <2>5, <3>2, <3>3, <3>4 DEF Recorded, L
  <2>9. ASSUME NEW x \in Sids, backend[x] = "running", Unfinished(records, x)
        PROVE  Unfinished(records', x)
    <3>1. PICK n \in 1..L : records[n].sid = x /\ records[n].state \notin Terminal
      BY <2>9 DEF Unfinished, L
    <3>2. n # L
      BY <1>3, <2>9, <3>1 DEF L
    <3> QED
      BY <2>5, <3>1, <3>2 DEF Unfinished
  <2>10. /\ Stored' /\ LiveInv' /\ OnceInv' /\ Held' /\ disk' \in [sessions : Seq(Record), tombs : Seq(Tomb)]
         /\ Agrees(disk.sessions, disk'.sessions) /\ Remains
    BY <1>1, <1>8, <2>7, <2>8, <2>9, RewriteKeeps
  <2>11. TypeInv'
    BY <1>1, <1>2, <1>8, <2>10 DEF TypeInv
  <2>12. StartInv'
    BY <1>1 DEF StartInv
  <2>13. AgentInv'
    BY <1>1, <1>6, <2>10, <2>11, <2>12 DEF AgentInv
  <2> QED
    BY <1>1, <2>10, <2>13 DEF JournalStep
<1> QED
  BY <1>1, <1>7, <1>8 DEF s

-----------------------------------------------------------------------------
(* The end of an agent, and the next one *)

\* A step that ends the agent keeps all if the journal holds what it should.
LEMMA ForgetKeeps ==
    ASSUME AgentInv, Forget, Stored', disk' \in [sessions : Seq(Record), tombs : Seq(Tomb)],
           Agrees(disk.sessions, disk'.sessions)
    PROVE  AgentInv' /\ JournalStep
<1>1. /\ phase' = "down" /\ records' = <<>> /\ tombs' = <<>> /\ replies' = <<>>
      /\ backend' = [s \in Sids |-> "absent"] /\ now' = now /\ admitted' = admitted
  BY DEF Forget
<1>2. TypeInv'
  BY <1>1 DEF AgentInv, TypeInv
<1>3. Told'
  BY <1>1 DEF Told
<1>4. LiveInv'
  BY <1>1 DEF LiveInv
<1>5. StartInv'
  BY <1>1 DEF StartInv
<1>6. OnceInv'
  BY <1>1 DEF AgentInv, OnceInv
<1>7. Gone'
  BY <1>1 DEF Gone
<1>8. AgentInv'
  BY <1>1, <1>2, <1>3, <1>4, <1>5, <1>6, <1>7 DEF AgentInv
<1> QED
  BY <1>1, <1>8 DEF JournalStep

\* The process dies.
LEMMA CrashStep ==
    ASSUME AgentInv, Crash
    PROVE  AgentInv' /\ JournalStep
<1>1. Forget /\ disk' = disk /\ admitted' = admitted /\ now' = now
  BY DEF Crash, Forget
<1>2. Stored /\ disk \in [sessions : Seq(Record), tombs : Seq(Tomb)]
  BY DEF AgentInv, TypeInv
<1>3. Stored'
  BY <1>1, <1>2 DEF Stored, Recorded, Tombed, Covered, Of
<1>4. Agrees(disk.sessions, disk.sessions)
  BY <1>2, SelfAgrees DEF Stored
<1> QED
  BY <1>1, <1>2, <1>3, <1>4, ForgetKeeps

\* A shutdown is requested.
LEMMA ShutdownStep ==
    ASSUME AgentInv, Shutdown
    PROVE  AgentInv' /\ JournalStep
<1>1. phase = "idle" /\ phase' = "closing" /\ UNCHANGED <<now, disk, records, tombs, replies, request, backend, admitted>>
  BY DEF Shutdown, registryVars
<1>2. /\ Stored' /\ LiveInv' /\ OnceInv' /\ Held' /\ Agrees(disk.sessions, disk'.sessions) /\ Remains
  BY <1>1, StillHeld
<1>3. TypeInv'
  BY <1>1 DEF AgentInv, TypeInv
<1>4. Told'
  BY <1>1, TellsOn DEF AgentInv
<1>5. StartInv'
  BY <1>1 DEF StartInv
<1>6. AgentInv'
  BY <1>1, <1>2, <1>3, <1>4, <1>5 DEF AgentInv
<1> QED
  BY <1>1, <1>2, <1>6 DEF JournalStep

\* The last write (close).
LEMMA CloseStep ==
    ASSUME AgentInv, Close
    PROVE  AgentInv' /\ JournalStep
<1> DEFINE r == [n \in DOMAIN records |-> Observed(records[n])]
<1>1. /\ phase = "closing" /\ Forget /\ now' = now /\ admitted' = admitted
      /\ disk' = disk \/ disk' = [sessions |-> r, tombs |-> Unexpired(tombs)]
  BY DEF Close, Forget
<1>2. TypeInv /\ Stored /\ Held
  BY <1>1 DEF AgentInv
<1>3. disk \in [sessions : Seq(Record), tombs : Seq(Tomb)]
  BY <1>2 DEF TypeInv
<1>4. CASE disk' = disk
  <2>1. Stored'
    BY <1>1, <1>2, <1>4 DEF Stored, Recorded, Tombed, Covered, Of
  <2>2. Agrees(disk.sessions, disk.sessions)
    BY <1>2, SelfAgrees DEF Stored
  <2> QED
    BY <1>1, <1>3, <1>4, <2>1, <2>2, ForgetKeeps
<1>5. CASE disk' = [sessions |-> r, tombs |-> Unexpired(tombs)]
  <2>1. Recorded(admitted, records) /\ Tombed(admitted, tombs) /\ Covered(admitted, now, tombs)
        /\ Agrees(disk.sessions, records)
    BY <1>2 DEF Held
  <2>2. Recorded(admitted, r) /\ Continues(records, r)
    BY <1>2, <2>1, ObservedKeeps DEF Continues
  <2>3. Agrees(disk.sessions, r)
    BY <2>1, <2>2, ContinuesAgrees
  <2>4. now \in Nat /\ admitted \in Seq(Admission)
    BY <1>2, Positive DEF TypeInv
  <2>5. Tombed(admitted, Unexpired(tombs)) /\ Covered(admitted, now, Unexpired(tombs))
    BY <2>1, <2>4, UnexpiredKeeps
  <2> HIDE DEF r
  <2>6. disk'.sessions = r /\ disk'.tombs = Unexpired(tombs)
    BY <1>5
  <2>7. disk' \in [sessions : Seq(Record), tombs : Seq(Tomb)]
    BY <1>5, <2>2, <2>5 DEF Recorded, Tombed
  <2>8. Stored'
    <3>1. Recorded(admitted, disk.sessions)'
      BY <1>1, <2>2, <2>6 DEF Recorded, Of
    <3>2. Tombed(admitted, disk.tombs)'
      BY <1>1, <2>5, <2>6 DEF Tombed, Of
    <3>3. Covered(admitted, now, disk.tombs)'
      BY <1>1, <2>5, <2>6 DEF Covered
    <3> QED
      BY <3>1, <3>2, <3>3 DEF Stored
  <2>9. Agrees(disk.sessions, disk'.sessions)
    BY <2>3, <2>6
  <2> QED
    BY <1>1, <2>7, <2>8, <2>9, ForgetKeeps
<1> QED
  BY <1>1, <1>4, <1>5

\* What the next agent makes of the journal: each record that did not outlive
\* its retention, in its order, and interrupted if it was unfinished.
LEMMA RestartMakes ==
    ASSUME AgentInv, Restart
    PROVE  /\ Recorded(admitted, records') /\ Agrees(disk.sessions, records') /\ Reported
<1> DEFINE saved == disk.sessions
           I == {n \in DOMAIN saved : ~Outlived(saved[n])}
           kept == Selected(saved, I)
           g == [n \in DOMAIN kept |-> Interrupted(kept[n])]
           L == Len(kept)
<1>1. records' = Newest(g, MaxRecords)
  BY DEF Restart
<1>2. /\ saved \in Seq(Record) /\ Len(saved) <= MaxRecords /\ Len(saved) \in Nat /\ DOMAIN saved = 1..Len(saved)
      /\ \A n \in 1..Len(saved) : Of(admitted, saved[n])
      /\ \A m, n \in 1..Len(saved) : saved[m].sid = saved[n].sid => m = n
  BY DEF AgentInv, Stored, Recorded
<1>3. saved \in Seq(Record)
  BY <1>2
<1> HIDE DEF saved
<1>4. PICK h : Places(h, kept, saved, I, Len(saved))
  BY <1>3, SelectedPlaces
<1>5. kept \in Seq(Record)
  BY <1>3, SelectedPlaces
<1> HIDE DEF kept
<1>6. L \in Nat /\ DOMAIN kept = 1..L /\ \A n \in 1..L : kept[n] \in Record
  BY <1>5
<1>7. /\ h \in [1..L -> 1..Len(saved)]
      /\ \A k \in 1..L : kept[k] = saved[h[k]]
      /\ \A j, k \in 1..L : j < k => h[j] < h[k]
      /\ \A i \in I \cap (1..Len(saved)) : \E k \in 1..L : h[k] = i
  BY <1>4 DEF Places
<1>8. L <= Len(saved)
  BY <1>2, <1>6, <1>7, ClimbingIsBounded
<1>9. now \in 0..MaxTime
  BY DEF AgentInv, TypeInv
<1>10. ASSUME NEW e \in Record
       PROVE  /\ Interrupted(e) \in Record
              /\ Interrupted(e).sid = e.sid /\ Interrupted(e).req = e.req /\ Interrupted(e).digest = e.digest
              /\ e.state \in Terminal => Interrupted(e) = e
              /\ e.state \notin Terminal => Interrupted(e).state = "interrupted"
  BY <1>9 DEF Interrupted, Record, States, Terminal
<1>11. \A n \in 1..L : g[n] = Interrupted(kept[n])
  BY <1>6
<1> HIDE DEF L
<1>12. g \in [1..L -> Record]
  BY <1>6, <1>10
<1>13. g \in Seq(Record) /\ Len(g) = L
  BY <1>6, <1>12
<1> HIDE DEF g, I
<1>14. L <= MaxRecords
  <2>1. MaxRecords \in Nat
    BY Positive
  <2> QED
    BY <1>2, <1>6, <1>8, <2>1
<1>15. records' = g
  <2>1. MaxRecords \in Nat /\ MaxRecords > 0
    BY Positive
  <2>2. g \in Seq(Record)
    BY <1>13
  <2>3. Len(g) <= MaxRecords
    BY <1>13, <1>14
  <2> QED
    BY <1>1, <2>1, <2>2, <2>3, NewestIsEnd
<1>16. \A n \in 1..L : /\ g[n].sid = saved[h[n]].sid /\ g[n].req = saved[h[n]].req
                       /\ g[n].digest = saved[h[n]].digest /\ h[n] \in 1..Len(saved)
                       /\ saved[h[n]].state \in Terminal => g[n] = saved[h[n]]
                       /\ saved[h[n]].state \notin Terminal => g[n].state = "interrupted"
  BY <1>6, <1>7, <1>10, <1>11
<1>17. Recorded(admitted, g)
  <2>1. ASSUME NEW n \in 1..L
        PROVE  Of(admitted, g[n])
    <3>1. Of(admitted, saved[h[n]])
      BY <1>2, <1>16
    <3> QED
      BY <1>16, <3>1 DEF Of
  <2>2. ASSUME NEW m \in 1..L, NEW n \in 1..L, g[m].sid = g[n].sid
        PROVE  m = n
    <3>1. h[m] = h[n]
      BY <1>2, <1>16, <2>2
    <3> QED
      BY <1>2, <1>6, <1>7, <3>1
  <2> QED
    BY <1>13, <1>14, <2>1, <2>2 DEF Recorded
<1>18. Agrees(saved, g)
  <2> SUFFICES ASSUME NEW m \in 1..Len(saved), NEW n \in 1..L, saved[m].sid = g[n].sid, saved[m].state \in Terminal
               PROVE  g[n] = saved[m]
    BY <1>13 DEF Agrees
  <2>1. m = h[n]
    BY <1>2, <1>16
  <2> QED
    BY <1>16, <2>1
<1>19. ASSUME NEW n \in 1..Len(saved), saved[n].state \notin Terminal
       PROVE  \E k \in 1..L : g[k].sid = saved[n].sid /\ g[k].state = "interrupted"
  <2>1. n \in I
    BY <1>2, <1>19 DEF I, Outlived
  <2>2. PICK k \in 1..L : h[k] = n
    BY <1>7, <2>1
  <2> QED
    BY <1>16, <1>19, <2>2
<1> QED
  BY <1>13, <1>15, <1>17, <1>18, <1>19 DEF Reported, saved

\* The next agent starts (_restore).
LEMMA RestartStep ==
    ASSUME AgentInv, Restart
    PROVE  AgentInv' /\ JournalStep
<1>1. /\ phase = "down" /\ phase' = "idle" /\ Saved(records', disk.tombs)
      /\ UNCHANGED <<now, replies, request, backend, admitted>>
  BY DEF Restart
<1>2. TypeInv /\ Stored /\ Told /\ LiveInv /\ OnceInv /\ Gone
  BY <1>1 DEF AgentInv
<1>3. Recorded(admitted, records') /\ Agrees(disk.sessions, records') /\ Reported
  BY RestartMakes
<1>4. now \in Nat /\ admitted \in Seq(Admission) /\ Tombed(admitted, disk.tombs) /\ Covered(admitted, now, disk.tombs)
  BY <1>2, Positive DEF TypeInv, Stored
<1>5. /\ Stored' /\ disk' \in [sessions : Seq(Record), tombs : Seq(Tomb)] /\ disk'.sessions = records'
      /\ Tombed(admitted', tombs') /\ Covered(admitted', now', tombs')
  BY <1>1, <1>3, <1>4, SaveKeeps
<1>6. Held'
  <2>1. Agrees(records', records')
    BY <1>3, SelfAgrees
  <2>2. Recorded(admitted, records)'
    BY <1>1, <1>3 DEF Recorded, Of
  <2>3. Tombed(admitted, tombs)' /\ Covered(admitted, now, tombs)'
    BY <1>5 DEF Tombed, Covered, Of
  <2>4. Agrees(disk.sessions, records)'
    BY <1>5, <2>1 DEF Agrees
  <2> QED
    BY <2>2, <2>3, <2>4 DEF Held
<1>7. TypeInv'
  BY <1>1, <1>2, <1>5 DEF TypeInv
<1>8. Told'
  BY <1>1, <1>2, TellsOn
<1>9. LiveInv'
  BY <1>1, <1>2 DEF LiveInv, Gone
<1>10. StartInv' /\ OnceInv'
  BY <1>1, <1>2 DEF StartInv, OnceInv
<1>11. Remains
  BY <1>2 DEF Gone, Remains
<1>12. AgentInv'
  BY <1>1, <1>5, <1>6, <1>7, <1>8, <1>9, <1>10 DEF AgentInv
<1> QED
  BY <1>1, <1>3, <1>5, <1>11, <1>12 DEF JournalStep

-----------------------------------------------------------------------------
(* Around the agent *)

\* A step outside the agent keeps what is recorded.
LEMMA AroundKeeps ==
    ASSUME AgentInv, UNCHANGED <<disk, phase, records, tombs, replies, request, admitted>>,
           TypeInv', LiveInv', Stored', StartInv', phase # "down" => Held', phase = "down" => Gone'
    PROVE  AgentInv' /\ JournalStep
<1>1. Told' /\ OnceInv'
  BY TellsOn DEF AgentInv, OnceInv
<1>2. AgentInv'
  BY <1>1 DEF AgentInv
<1>3. Agrees(disk.sessions, disk.sessions)
  BY SelfAgrees DEF AgentInv, Stored
<1>4. Remains
  BY DEF Remains
<1> QED
  BY <1>2, <1>3, <1>4 DEF JournalStep

\* A session ends by itself.
LEMMA FinishStep ==
    ASSUME AgentInv, NEW s \in Sids, Finish(s)
    PROVE  AgentInv' /\ JournalStep
<1>1. /\ backend[s] = "running" /\ backend' = [backend EXCEPT ![s] = "finished"]
      /\ UNCHANGED <<now, disk, phase, records, tombs, replies, request, admitted>>
  BY DEF Finish, registryVars
<1>2. TypeInv /\ Stored /\ LiveInv /\ StartInv /\ (phase # "down" => Held) /\ (phase = "down" => Gone)
  BY DEF AgentInv
<1>3. backend \in [Sids -> {"absent", "running", "finished"}]
  BY <1>2 DEF TypeInv
<1>4. phase # "down"
  BY <1>1, <1>2 DEF Gone
<1>5. TypeInv'
  <2>1. backend' \in [Sids -> {"absent", "running", "finished"}]
    BY <1>1, <1>3
  <2> QED
    BY <1>1, <1>2, <2>1 DEF TypeInv
<1>6. \A x \in Sids : backend'[x] = IF x = s THEN "finished" ELSE backend[x]
  BY <1>1, <1>3
<1>7. LiveInv'
  BY <1>1, <1>2, <1>6 DEF LiveInv, Unfinished
<1>8. Stored' /\ Held'
  <2>1. Stored'
    BY <1>1, <1>2 DEF Stored, Recorded, Tombed, Covered, Of
  <2>2. Recorded(admitted, records)' /\ Tombed(admitted, tombs)' /\ Covered(admitted, now, tombs)'
    BY <1>1, <1>2, <1>4 DEF Held, Recorded, Tombed, Covered, Of
  <2>3. Agrees(disk.sessions, records)'
    BY <1>1, <1>2, <1>4 DEF Held, Agrees
  <2> QED
    BY <2>1, <2>2, <2>3 DEF Held
<1>9. StartInv'
  <2>1. Len(admitted) \in Nat /\ MaxStarts \in Nat /\ Len(admitted) <= MaxStarts
    BY <1>2, Positive DEF TypeInv
  <2>2. phase = "admitted" => Len(admitted) \in Sids /\ Len(admitted) # s
    BY <1>1, <1>2, <2>1 DEF StartInv, Sids
  <2>3. phase = "admitted" => backend'[Len(admitted)] = backend[Len(admitted)]
    BY <1>6, <2>2
  <2> QED
    BY <1>1, <1>2, <2>3 DEF StartInv, Unretained
<1> QED
  BY <1>1, <1>4, <1>5, <1>7, <1>8, <1>9, AroundKeeps

\* Time passes.
LEMMA TickStep ==
    ASSUME AgentInv, Tick
    PROVE  AgentInv' /\ JournalStep
<1>1. now < MaxTime /\ now' = now + 1 /\ UNCHANGED <<disk, phase, records, tombs, replies, request, backend, admitted>>
  BY DEF Tick, registryVars
<1>2. TypeInv /\ Stored /\ LiveInv /\ StartInv /\ (phase # "down" => Held) /\ (phase = "down" => Gone)
  BY DEF AgentInv
<1>3. now \in Nat /\ MaxTime \in Nat /\ admitted \in Seq(Admission) /\ now \in 0..MaxTime
  BY <1>2, Positive DEF TypeInv
<1>4. now' \in 0..MaxTime
  BY <1>1, <1>3
<1>5. TypeInv'
  BY <1>1, <1>2, <1>4 DEF TypeInv
<1>6. Covered(admitted, now, disk.tombs) /\ (phase # "down" => Covered(admitted, now, tombs))
  BY <1>2 DEF Stored, Held
<1>7. Covered(admitted, now + 1, disk.tombs) /\ (phase # "down" => Covered(admitted, now + 1, tombs))
  BY <1>3, <1>6, CoveredLater
<1>8. Stored'
  BY <1>1, <1>2, <1>7 DEF Stored, Recorded, Tombed, Covered, Of
<1>9. phase # "down" => Held'
  BY <1>1, <1>2, <1>7 DEF Held, Recorded, Tombed, Covered, Of, Agrees
<1>10. LiveInv' /\ (phase = "down" => Gone')
  BY <1>1, <1>2 DEF LiveInv, Unfinished, Gone
<1>11. StartInv'
  <2>1. phase = "dispatch" => Unretained(admitted, request.req, now + 1)
    <3> SUFFICES ASSUME phase = "dispatch", NEW m \in 1..Len(admitted), admitted[m].req = request.req
                 PROVE  now + 1 >= admitted[m].at + Retention \/ Len(admitted) + 1 - m > MaxTombs
      BY DEF Unretained
    <3>1. now >= admitted[m].at + Retention \/ Len(admitted) + 1 - m > MaxTombs
      BY <1>2 DEF StartInv, Unretained
    <3>2. admitted[m] \in Admission
      BY <1>3
    <3>3. admitted[m].at \in Nat /\ Retention \in Nat
      BY <1>3, <3>2, Positive DEF Admission
    <3> QED
      BY <1>3, <3>1, <3>3
  <2> QED
    BY <1>1, <1>2, <2>1 DEF StartInv, Unretained
<1> QED
  BY <1>1, <1>5, <1>8, <1>9, <1>10, <1>11, AroundKeeps

-----------------------------------------------------------------------------
(* The invariant *)

\* The first agent has nothing on disk.
LEMMA InitHolds ==
    ASSUME Init
    PROVE  AgentInv
<1>1. /\ now = 0 /\ phase = "down" /\ records = <<>> /\ tombs = <<>> /\ replies = <<>> /\ admitted = <<>>
      /\ backend = [s \in Sids |-> "absent"]
      /\ disk = [sessions |-> <<>>, tombs |-> <<>>]
  BY DEF Init
<1>2. disk.sessions = <<>> /\ disk.tombs = <<>>
  BY <1>1
<1>3. disk \in [sessions : Seq(Record), tombs : Seq(Tomb)]
  BY <1>1
<1>4. admitted \in Seq(Admission) /\ replies \in Seq(Reply) /\ Len(admitted) = 0 /\ Len(replies) = 0
  BY <1>1
<1>5. TypeInv
  <2>1. now \in 0..MaxTime /\ Len(admitted) <= MaxStarts
    BY <1>1, <1>4, Positive
  <2> QED
    BY <1>1, <1>3, <1>4, <2>1 DEF TypeInv
<1>6. Stored
  <2>1. Recorded(admitted, disk.sessions)
    BY <1>2, Positive DEF Recorded
  <2>2. Tombed(admitted, disk.tombs)
    BY <1>2 DEF Tombed
  <2>3. Covered(admitted, now, disk.tombs)
    BY <1>4 DEF Covered
  <2> QED
    BY <2>1, <2>2, <2>3 DEF Stored
<1>7. Told /\ OnceInv
  BY <1>4 DEF Told, OnceInv
<1>8. LiveInv
  BY <1>1 DEF LiveInv
<1>9. StartInv
  BY <1>1 DEF StartInv
<1>10. Gone
  BY <1>1 DEF Gone
<1> QED
  BY <1>1, <1>5, <1>6, <1>7, <1>8, <1>9, <1>10 DEF AgentInv

\* Every step keeps the invariant, and treats the journal as it should.
LEMMA StepHolds ==
    ASSUME AgentInv, Next
    PROVE  AgentInv' /\ JournalStep
<1>1. CASE Watch
  BY <1>1, WatchStep
<1>2. CASE Export
  BY <1>2, ExportStep
<1>3. CASE OtherReplies
  BY <1>3, OtherRepliesStep
<1>4. ASSUME NEW r \in Reqs, NEW d \in Digests, Replay(r, d)
      PROVE  AgentInv' /\ JournalStep
  BY <1>4, ReplayStep
<1>5. ASSUME NEW r \in Reqs, NEW d \in Digests, Receive(r, d)
      PROVE  AgentInv' /\ JournalStep
  BY <1>5, ReceiveStep
<1>6. CASE Refuse
  BY <1>6, RefuseStep
<1>7. CASE AdmitSaved
  BY <1>7, AdmitSavedStep
<1>8. CASE AdmitUnsaved
  BY <1>8, AdmitUnsavedStep
<1>9. CASE Launch
  BY <1>9, LaunchStep
<1>10. CASE Crash
  BY <1>10, CrashStep
<1>11. CASE Shutdown
  BY <1>11, ShutdownStep
<1>12. CASE Close
  BY <1>12, CloseStep
<1>13. CASE Restart
  BY <1>13, RestartStep
<1>14. ASSUME NEW s \in Sids, Finish(s)
       PROVE  AgentInv' /\ JournalStep
  BY <1>14, FinishStep
<1>15. CASE Tick
  BY <1>15, TickStep
<1> QED
  BY <1>1, <1>2, <1>3, <1>4, <1>5, <1>6, <1>7, <1>8, <1>9, <1>10, <1>11, <1>12, <1>13, <1>14, <1>15 DEF Next

\* A step of nothing keeps the invariant.
LEMMA StutterHolds ==
    ASSUME AgentInv, UNCHANGED vars
    PROVE  AgentInv'
<1>1. UNCHANGED <<now, disk, phase, records, tombs, replies, request, backend, admitted>>
  BY DEF vars, registryVars
<1>2. /\ Stored' /\ LiveInv' /\ OnceInv' /\ (phase # "down" => Held') /\ (phase = "down" => Gone')
  BY <1>1, StillHeld
<1>3. TypeInv' /\ StartInv'
  BY <1>1 DEF AgentInv, TypeInv, StartInv, Unretained
<1> QED
  BY <1>1, <1>2, <1>3, AroundKeeps

\* A step admits one session at most.
LEMMA AdmittedGrows ==
    ASSUME AgentInv, Next
    PROVE  Len(admitted) \in Nat /\ (Len(admitted') = Len(admitted) \/ Len(admitted') = Len(admitted) + 1)
<1>1. admitted \in Seq(Admission)
  BY DEF AgentInv, TypeInv
<1>2. Len(admitted) \in Nat
  BY <1>1
<1>3. CASE AdmitSaved
  <2>1. admitted' = Append(admitted, Admitted)
    BY <1>3 DEF AdmitSaved, Admitted
  <2>2. phase = "dispatch" /\ Len(admitted) < MaxStarts
    BY <1>3 DEF AdmitSaved
  <2> QED
    BY <2>1, <2>2, AdmitMakes
<1>4. CASE ~AdmitSaved
  <2>1. admitted' = admitted
    BY <1>4 DEF Next, Watch, Export, OtherReplies, Replay, Receive, Refuse, AdmitUnsaved, Launch, Crash,
                Shutdown, Close, Restart, Finish, Tick, Forget
  <2> QED
    BY <1>2, <2>1
<1> QED
  BY <1>3, <1>4

-----------------------------------------------------------------------------
(* The theorems *)

\* The invariant holds always.
LEMMA InvariantHolds == Spec => []AgentInv
<1>1. Init => AgentInv
  BY InitHolds
<1>2. AgentInv /\ [Next]_vars => AgentInv'
  BY StepHolds, StutterHolds
<1> QED
  BY <1>1, <1>2, PTL DEF Spec

\* The invariant says what was promised to the clients.
LEMMA InvIsTrue ==
    ASSUME AgentInv
    PROVE  AdmissionIsTrue
<1>1. LiveIsRecorded
  <2> SUFFICES ASSUME NEW s \in Sids, backend[s] = "running"
               PROVE  \E e \in ToSet(disk.sessions) : e.sid = s /\ e.state \notin Terminal
    BY DEF LiveIsRecorded
  <2>1. Unfinished(disk.sessions, s)
    BY DEF AgentInv, LiveInv
  <2>2. PICK n \in 1..Len(disk.sessions) : disk.sessions[n].sid = s /\ disk.sessions[n].state \notin Terminal
    BY <2>1 DEF Unfinished
  <2>3. disk.sessions \in Seq(Record)
    BY DEF AgentInv, Stored, Recorded
  <2>4. disk.sessions[n] \in ToSet(disk.sessions)
    BY <2>3 DEF ToSet
  <2> QED
    BY <2>2, <2>4
<1>2. OneSessionPerRequest
  <2>1. DOMAIN admitted = 1..Len(admitted)
    BY DEF AgentInv, TypeInv
  <2> QED
    BY <2>1 DEF AgentInv, OnceInv, OneSessionPerRequest
<1>3. AcceptedIsTrue
  <2> SUFFICES ASSUME NEW r \in Reqs, NEW d \in Digests, NEW s \in Answer(r, d) \ {Error}, phase = "idle"
               PROVE  \E a \in ToSet(admitted) : a.req = r /\ a.digest = d /\ a.sid = s
    BY DEF AcceptedIsTrue
  <2>1. /\ replies \in Seq(Reply) /\ \A n \in 1..Len(replies) : replies[n].sid # Error => Of(admitted, replies[n])
        /\ admitted \in Seq(Admission) /\ DOMAIN admitted = 1..Len(admitted)
        /\ \A n \in 1..Len(admitted) : admitted[n].sid = n
    BY DEF AgentInv, Told, TypeInv
  <2>2. PICK k \in (IF Known(replies, r) # {} THEN Known(replies, r) ELSE Retained(r)) : s = Same(k, d)
    BY DEF Answer
  <2>3. s = k.sid /\ k.digest = d /\ k.sid # Error
    BY <2>2 DEF Same
  <2>4. k.sid \in 1..Len(admitted) /\ admitted[k.sid].req = r /\ admitted[k.sid].digest = k.digest
    <3>1. CASE k \in Retained(r)
      BY <3>1, RetainedIsTrue
    <3>2. CASE k \in Known(replies, r)
      <4>1. replies \in Seq(Reply)
        BY <2>1
      <4>2. PICK n \in 1..Len(replies) : replies[n].req = r /\ k.digest = replies[n].digest /\ k.sid = replies[n].sid
        BY <3>2, <4>1, KnownIsEntry
      <4>3. Of(admitted, replies[n])
        BY <2>1, <2>3, <4>2
      <4> QED
        BY <4>2, <4>3 DEF Of
    <3> QED
      BY <2>2, <3>1, <3>2
  <2>5. admitted[k.sid] \in ToSet(admitted) /\ admitted[k.sid].sid = k.sid
    BY <2>1, <2>4 DEF ToSet
  <2> QED
    BY <2>3, <2>4, <2>5
<1> QED
  BY <1>1, <1>2, <1>3 DEF AdmissionIsTrue, StartsAreOnce

\* A start that was accepted is on record before its session lives, is started
\* once while it is retained, and told only to who asked for it.
THEOREM AdmissionTrue == Spec => []AdmissionIsTrue
<1>1. AgentInv => AdmissionIsTrue
  BY InvIsTrue
<1> QED
  BY <1>1, InvariantHolds, PTL

\* A step under the invariant does what was promised of the journal.
LEMMA StepKeepsJournal ==
    ASSUME AgentInv, AgentInv', [Next]_vars
    PROVE  /\ [\A e \in ToSet(disk.sessions), f \in ToSet(disk'.sessions) :
                 e.sid = f.sid /\ e.state \in Terminal => f = e]_vars
           /\ [phase' # "down" =>
                 Cardinality({e \in ToSet(records) : \A f \in ToSet(records') : f.sid # e.sid})
                     <= Len(admitted') - Len(admitted)]_vars
           /\ [phase = "down" /\ phase' = "idle" =>
                 \A e \in ToSet(disk.sessions) : e.state \notin Terminal =>
                     \E f \in ToSet(records') : f.sid = e.sid /\ f.state = "interrupted"]_vars
<1> SUFFICES ASSUME Next
             PROVE  /\ \A e \in ToSet(disk.sessions), f \in ToSet(disk'.sessions) :
                         e.sid = f.sid /\ e.state \in Terminal => f = e
                    /\ phase' # "down" =>
                         Cardinality({e \in ToSet(records) : \A f \in ToSet(records') : f.sid # e.sid})
                             <= Len(admitted') - Len(admitted)
                    /\ phase = "down" /\ phase' = "idle" =>
                         \A e \in ToSet(disk.sessions) : e.state \notin Terminal =>
                             \E f \in ToSet(records') : f.sid = e.sid /\ f.state = "interrupted"
  OBVIOUS
<1>1. JournalStep
  BY StepHolds
<1>2. disk.sessions \in Seq(Record) /\ disk'.sessions \in Seq(Record)
  BY DEF AgentInv, Stored, Recorded
<1>3. \A e \in ToSet(disk.sessions) : \E n \in 1..Len(disk.sessions) : e = disk.sessions[n]
  BY <1>2 DEF ToSet
<1>4. \A e \in ToSet(disk'.sessions) : \E n \in 1..Len(disk'.sessions) : e = disk'.sessions[n]
  BY <1>2 DEF ToSet
<1>5. ASSUME NEW e \in ToSet(disk.sessions), NEW f \in ToSet(disk'.sessions), e.sid = f.sid, e.state \in Terminal
      PROVE  f = e
  <2>1. PICK m \in 1..Len(disk.sessions) : e = disk.sessions[m]
    BY <1>3
  <2>2. PICK n \in 1..Len(disk'.sessions) : f = disk'.sessions[n]
    BY <1>4
  <2> QED
    BY <1>1, <1>5, <2>1, <2>2 DEF JournalStep, Agrees
<1>6. ASSUME phase' # "down"
      PROVE  Cardinality({e \in ToSet(records) : \A f \in ToSet(records') : f.sid # e.sid})
                 <= Len(admitted') - Len(admitted)
  <2> DEFINE Lost == {e \in ToSet(records) : \A f \in ToSet(records') : f.sid # e.sid}
  <2>1. (phase # "down" => records \in Seq(Record)) /\ records' \in Seq(Record)
    BY <1>6 DEF AgentInv, Held, Recorded
  <2>2. \A k \in 1..Len(records') : records'[k] \in ToSet(records')
    BY <2>1 DEF ToSet
  <2>3. Len(admitted) \in Nat /\ (Len(admitted') = Len(admitted) \/ Len(admitted') = Len(admitted) + 1)
    BY AdmittedGrows
  <2>4. CASE Remains
    <3>1. Lost = {}
      <4> SUFFICES ASSUME NEW e \in Lost PROVE FALSE
        OBVIOUS
      <4>1. PICK n \in DOMAIN records : e = records[n]
        BY DEF ToSet
      <4>2. n \in 1..Len(records)
        BY <2>1, <4>1 DEF AgentInv, Gone
      <4>3. PICK k \in 1..Len(records') : records'[k].sid = records[n].sid
        BY <2>4, <4>2 DEF Remains
      <4> QED
        BY <2>2, <4>1, <4>3
    <3> HIDE DEF Lost
    <3>2. Cardinality(Lost) = 0
      BY <3>1, FS_EmptySet
    <3> QED
      BY <2>3, <3>2 DEF Lost
  <2>5. CASE Len(admitted') = Len(admitted) + 1 /\ Displaces
    <3>1. PICK g \in 1..Len(records) : \A n \in (1..Len(records)) \ {g} :
              \E k \in 1..Len(records') : records'[k].sid = records[n].sid
      BY <2>5 DEF Displaces
    <3>2. Lost \subseteq {records[g]}
      <4> SUFFICES ASSUME NEW e \in Lost, e # records[g] PROVE FALSE
        OBVIOUS
      <4>1. PICK n \in DOMAIN records : e = records[n]
        BY DEF ToSet
      <4>2. n \in 1..Len(records) /\ n # g
        BY <2>1, <4>1 DEF AgentInv, Gone
      <4>3. PICK k \in 1..Len(records') : records'[k].sid = records[n].sid
        BY <3>1, <4>2
      <4> QED
        BY <2>2, <4>1, <4>3
    <3> HIDE DEF Lost
    <3>3. IsFiniteSet({records[g]}) /\ Cardinality({records[g]}) = 1
      BY FS_Singleton
    <3>4. Cardinality(Lost) <= 1
      BY <3>2, <3>3, FS_Subset
    <3> QED
      BY <2>3, <2>5, <3>4 DEF Lost
  <2> QED
    BY <1>1, <1>6, <2>4, <2>5 DEF JournalStep
<1>7. ASSUME phase = "down", phase' = "idle", NEW e \in ToSet(disk.sessions), e.state \notin Terminal
      PROVE  \E f \in ToSet(records') : f.sid = e.sid /\ f.state = "interrupted"
  <2>1. PICK n \in 1..Len(disk.sessions) : e = disk.sessions[n]
    BY <1>3
  <2>2. PICK k \in 1..Len(records') : records'[k].sid = e.sid /\ records'[k].state = "interrupted"
    BY <1>1, <1>7, <2>1 DEF JournalStep, Reported
  <2>3. records' \in Seq(Record)
    BY <1>7 DEF AgentInv, Held, Recorded
  <2>4. records'[k] \in ToSet(records')
    BY <2>3 DEF ToSet
  <2> QED
    BY <2>2, <2>4
<1> QED
  BY <1>5, <1>6, <1>7

\* What the journal says of an ended session stays; a record is forgotten only
\* for an admission; a restart reports every session that was unfinished.
THEOREM JournalKept == Spec => JournalIsKept
<1>1. AgentInv /\ AgentInv' /\ [Next]_vars =>
           /\ [\A e \in ToSet(disk.sessions), f \in ToSet(disk'.sessions) :
                 e.sid = f.sid /\ e.state \in Terminal => f = e]_vars
           /\ [phase' # "down" =>
                 Cardinality({e \in ToSet(records) : \A f \in ToSet(records') : f.sid # e.sid})
                     <= Len(admitted') - Len(admitted)]_vars
           /\ [phase = "down" /\ phase' = "idle" =>
                 \A e \in ToSet(disk.sessions) : e.state \notin Terminal =>
                     \E f \in ToSet(records') : f.sid = e.sid /\ f.state = "interrupted"]_vars
  BY StepKeepsJournal
<1> QED
  BY <1>1, InvariantHolds, PTL DEF Spec, JournalIsKept, FinalIsFinal, OnlyAdmissionRetires, InterruptedIsReported
=============================================================================
