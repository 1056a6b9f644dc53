---------------------------- MODULE OperationsProofs ----------------------------
(***************************************************************************)
(* Proofs about what surrounds a session: the removal of an agent's files  *)
(* for any agents, removers and processes; the checkpoint file for any     *)
(* sessions, cadence and limit of recorded errors; the verdict of a        *)
(* workload of any number of exercises; with any number of faults; its     *)
(* captured output, in any chunks; and the keys of the dashboard, in any   *)
(* pieces.                                                                 *)
(***************************************************************************)
EXTENDS AgentRemoval, Checkpoint, Workload, TargetLog, Keyboard, FiniteSetTheorems, SequenceTheorems, TLAPS

Lists == INSTANCE Selection

-----------------------------------------------------------------------------
(* The captured output of a workload                                       *)

Written == {"x", "s1", "s2", "nl"}
Stored == Written \cup {"r"}

\* f is the recursive function of Redacted, as far as m.
Redacts(f, s, m) == f[0] = <<>> /\ \A n \in 1..m : f[n] = Redact(f[n - 1], s[n])

\* There is such a function: each of its values is made from the one before.
LEMMA RedactedRuns ==
    ASSUME NEW X, NEW s \in Seq(X)
    PROVE  \E f : Redacts(f, s, Len(s)) /\ Redacted(s) = f[Len(s)]
<1> DEFINE L == Len(s)
           S == {m \in Nat : \E g : Redacts(g, s, m)}
           Body(f, n) == IF n = 0 THEN <<>> ELSE Redact(f[n - 1], s[n])
<1>1. 0 \in S
  <2>1. Redacts([n \in 0..0 |-> <<>>], s, 0)
    BY DEF Redacts
  <2> QED
    BY <2>1
<1>2. ASSUME NEW m \in Nat, m \in S PROVE m + 1 \in S
  <2>1. PICK g : Redacts(g, s, m)
    BY <1>2
  <2> DEFINE h == [n \in 0..m + 1 |-> IF n = m + 1 THEN Body(g, n) ELSE g[n]]
  <2>2. h[0] = <<>>
    BY <2>1 DEF Redacts
  <2>3. \A n \in 1..m + 1 : h[n] = Redact(h[n - 1], s[n])
    <3> SUFFICES ASSUME NEW n \in 1..m + 1 PROVE h[n] = Redact(h[n - 1], s[n])
      OBVIOUS
    <3>1. n - 1 \in 0..m /\ h[n - 1] = g[n - 1]
      OBVIOUS
    <3>2. h[n] = IF n = m + 1 THEN Redact(g[n - 1], s[n]) ELSE g[n]
      OBVIOUS
    <3> HIDE DEF h
    <3> QED
      BY <2>1, <3>1, <3>2 DEF Redacts
  <2> HIDE DEF h
  <2>4. Redacts(h, s, m + 1)
    BY <2>2, <2>3 DEF Redacts
  <2> QED
    BY <2>4
<1>3. L \in S
  <2> HIDE DEF S
  <2> QED
    BY <1>1, <1>2, Lists!Climb
<1>4. PICK g : Redacts(g, s, L)
  BY <1>3
<1> DEFINE e == [n \in 0..L |-> g[n]]
           f == CHOOSE x : x = [n \in 0..L |-> Body(x, n)]
<1>5. e = [n \in 0..L |-> Body(e, n)]
  <2>1. \A n \in 0..L : e[n] = Body(e, n)
    BY <1>4 DEF Redacts
  <2> QED
    BY <2>1
<1>6. f = [n \in 0..L |-> Body(f, n)]
  <2> HIDE DEF e
  <2> QED
    BY <1>5
<1>7. Redacted(s) = f[L]
  BY DEF Redacted
<1> HIDE DEF f
<1>8. Redacts(f, s, L)
  <2>1. \A n \in 0..L : f[n] = Body(f, n)
    BY <1>6
  <2> QED
    BY <2>1 DEF Redacts
<1> QED
  BY <1>7, <1>8

\* Text is redacted as it is read, one character after the other.
LEMMA RedactedGrows ==
    ASSUME NEW s \in Seq(Written), NEW c \in Written
    PROVE  Redacted(<<>>) = <<>> /\ Redacted(Append(s, c)) = Redact(Redacted(s), c)
<1> DEFINE t == Append(s, c)
           L == Len(s)
<1>0. /\ <<>> \in Seq(Written) /\ t \in Seq(Written) /\ L \in Nat /\ Len(t) = L + 1 /\ t[L + 1] = c
      /\ \A n \in 1..L : t[n] = s[n]
  OBVIOUS
<1>1. Redacted(<<>>) = <<>>
  <2>1. PICK f : Redacts(f, <<>>, Len(<<>>)) /\ Redacted(<<>>) = f[Len(<<>>)]
    BY <1>0, RedactedRuns
  <2> QED
    BY <2>1 DEF Redacts
<1>2. PICK f : Redacts(f, s, L) /\ Redacted(s) = f[L]
  BY RedactedRuns
<1> HIDE DEF t
<1>3. PICK g : Redacts(g, t, L + 1) /\ Redacted(t) = g[L + 1]
  BY <1>0, RedactedRuns
<1> DEFINE S == {n \in Nat : n <= L => f[n] = g[n]}
<1> HIDE DEF L
<1>4. 0 \in S
  BY <1>2, <1>3 DEF Redacts
<1>5. ASSUME NEW n \in Nat, n \in S PROVE n + 1 \in S
  <2> SUFFICES ASSUME n + 1 <= L PROVE f[n + 1] = g[n + 1]
    OBVIOUS
  <2>1. f[n] = g[n] /\ n + 1 \in 1..L /\ n + 1 \in 1..(L + 1) /\ (n + 1) - 1 = n
    BY <1>0, <1>5
  <2>2. f[n + 1] = Redact(f[n], s[n + 1]) /\ g[n + 1] = Redact(g[n], t[n + 1])
    BY <1>2, <1>3, <2>1 DEF Redacts
  <2> QED
    BY <1>0, <2>1, <2>2
<1>6. f[L] = g[L]
  <2>1. L \in S
    <3> HIDE DEF S
    <3> QED
      BY <1>0, <1>4, <1>5, Lists!Climb
  <2> QED
    BY <2>1
<1>7. g[L + 1] = Redact(g[L], t[L + 1])
  <2>1. L + 1 \in 1..(L + 1) /\ (L + 1) - 1 = L
    BY <1>0
  <2> QED
    BY <1>3, <2>1 DEF Redacts
<1> QED
  BY <1>0, <1>1, <1>2, <1>3, <1>6, <1>7 DEF t

\* What the redaction of the first n characters may be.
Shaped(d, s, n) ==
    d \in Seq(Stored) /\ (n = 0 => d = <<>>) /\ (n # 0 => d # <<>> /\ (d[Len(d)] = "s1" => s[n] = "s1"))

\* The half of a secret is at the end of a redacted text when it is at the end
\* of the text.
LEMMA RedactedTyped ==
    ASSUME NEW s \in Seq(Written)
    PROVE  /\ Redacted(s) \in Seq(Stored)
           /\ s = <<>> => Redacted(s) = <<>>
           /\ s # <<>> => Redacted(s) # <<>>
                          /\ (Redacted(s)[Len(Redacted(s))] = "s1" => s[Len(s)] = "s1")
<1> DEFINE L == Len(s)
           P(n) == Shaped(Redacted(SubSeq(s, 1, n)), s, n)
           S == {n \in Nat : n <= L => P(n)}
<1>1. 0 \in S
  <2>1. SubSeq(s, 1, 0) = <<>> /\ Redacted(<<>>) = <<>>
    BY RedactedGrows DEF Written
  <2>2. Shaped(<<>>, s, 0)
    BY DEF Shaped
  <2>3. P(0)
    BY <2>1, <2>2
  <2> HIDE DEF P
  <2> QED
    BY <2>3
<1>2. ASSUME NEW n \in Nat, n \in S PROVE n + 1 \in S
  <2> SUFFICES ASSUME n + 1 <= L PROVE P(n + 1)
    OBVIOUS
  <2> DEFINE a == SubSeq(s, 1, n)
             c == s[n + 1]
             d == Redacted(a)
             e == Redacted(SubSeq(s, 1, n + 1))
  <2>1. a \in Seq(Written) /\ c \in Written /\ SubSeq(s, 1, n + 1) = Append(a, c)
    OBVIOUS
  <2>2. e = Redact(d, c)
    BY <2>1, RedactedGrows
  <2>3. d \in Seq(Stored)
    BY <1>2 DEF Shaped
  <2> HIDE DEF a, c, d, e
  <2>4. e \in Seq(Stored) /\ e # <<>> /\ (e[Len(e)] = "s1" => c = "s1")
    <3>1. c \in Stored /\ "r" \in Stored
      BY <2>1 DEF Stored
    <3>2. CASE c = "s2" /\ d # <<>> /\ d[Len(d)] = "s1"
      BY <2>2, <2>3, <3>1, <3>2 DEF Redact
    <3>3. CASE ~(c = "s2" /\ d # <<>> /\ d[Len(d)] = "s1")
      <4>1. e = Append(d, c)
        BY <2>2, <3>3 DEF Redact
      <4> QED
        BY <2>3, <3>1, <4>1
    <3> QED
      BY <3>2, <3>3
  <2> QED
    BY <2>4 DEF c, e, Shaped
<1>3. L \in S
  <2> HIDE DEF S
  <2> QED
    BY <1>1, <1>2, Lists!Climb
<1>4. P(L) /\ L \in Nat /\ (L = 0 <=> s = <<>>)
  BY <1>3
<1>5. SubSeq(s, 1, L) = s
  OBVIOUS
<1> HIDE DEF L
<1> QED
  BY <1>4, <1>5 DEF L, Shaped

\* Lists may be appended in any order of the operations.
Appends(d, e, c) == Append(d \o e, c) = d \o Append(e, c)
LEMMA Appended ==
    ASSUME NEW X, NEW d \in Seq(X), NEW e \in Seq(X), NEW c \in X
    PROVE  Appends(d, e, c)
BY DEF Appends

Associates(d, e, q) == (d \o e) \o q = d \o (e \o q) /\ \A X : {d, e, q} \subseteq Seq(X) => e \o q \in Seq(X)
LEMMA Associative ==
    ASSUME NEW X, NEW d \in Seq(X), NEW e \in Seq(X), NEW q \in Seq(X)
    PROVE  Associates(d, e, q)
BY DEF Associates

EndsAs(d, e, c, r) ==
    /\ d \o e # <<>> /\ (d \o e)[Len(d \o e)] = e[Len(e)]
    /\ d \o Append(e, c) = Append(d \o e, c)
    /\ [d \o e EXCEPT ![Len(d \o e)] = r] = d \o [e EXCEPT ![Len(e)] = r]

\* The last element of two lists is that of the second, unless it is empty.
LEMMA LastOfBoth ==
    ASSUME NEW X, NEW d \in Seq(X), NEW e \in Seq(X), e # <<>>, NEW c \in X, NEW r \in X
    PROVE  EndsAs(d, e, c, r)
<1> DEFINE m == d \o e
           k == Len(d)
           l == Len(e)
           u == [m EXCEPT ![k + l] = r]
           w == [e EXCEPT ![l] = r]
           v == d \o w
<1>1. k \in Nat /\ l \in Nat /\ l >= 1
  OBVIOUS
<1>2. /\ m \in Seq(X) /\ Len(m) = k + l
      /\ \A i \in 1..(k + l) : m[i] = IF i <= k THEN d[i] ELSE e[i - k]
  OBVIOUS
<1>3. w \in Seq(X) /\ Len(w) = l /\ \A i \in 1..l : w[i] = IF i = l THEN r ELSE e[i]
  BY <1>1
<1> HIDE DEF m, w
<1>4. u \in Seq(X) /\ Len(u) = k + l /\ \A i \in 1..(k + l) : u[i] = IF i = k + l THEN r ELSE m[i]
  BY <1>1, <1>2
<1>5. v \in Seq(X) /\ Len(v) = k + l /\ \A i \in 1..(k + l) : v[i] = IF i <= k THEN d[i] ELSE w[i - k]
  <2>1. /\ v \in Seq(X) /\ Len(v) = Len(d) + Len(w)
        /\ \A i \in 1..(Len(d) + Len(w)) : v[i] = IF i <= Len(d) THEN d[i] ELSE w[i - Len(d)]
    BY <1>3
  <2> HIDE DEF v
  <2> QED
    BY <1>3, <2>1
<1> HIDE DEF u, v, k, l
<1>6. ASSUME NEW i \in 1..(k + l) PROVE u[i] = v[i]
  <2>1. CASE i <= k
    BY <1>1, <1>2, <1>4, <1>5, <2>1
  <2>2. CASE ~(i <= k)
    <3>1. i - k \in 1..l
      BY <1>1, <2>2
    <3>2. v[i] = IF i - k = l THEN r ELSE e[i - k]
      BY <1>3, <1>5, <2>2, <3>1
    <3>3. m[i] = e[i - k]
      BY <1>2, <2>2
    <3>4. (i - k = l) <=> (i = k + l)
      BY <1>1
    <3> QED
      BY <1>4, <3>2, <3>3, <3>4
  <2> QED
    BY <2>1, <2>2
<1>7. u = v
  BY <1>4, <1>5, <1>6
<1>8. m # <<>> /\ k + l \in 1..(k + l) /\ m[k + l] = e[l]
  BY <1>1, <1>2
<1>9. d \o Append(e, c) = Append(d \o e, c)
  OBVIOUS
<1> QED
  BY <1>2, <1>7, <1>8, <1>9 DEF EndsAs, m, u, v, w, k, l

\* What follows a text that does not end in the half of a secret is redacted
\* apart from it.
LEMMA RedactedParts ==
    ASSUME NEW a \in Seq(Written), NEW b \in Seq(Written), a = <<>> \/ a[Len(a)] # "s1"
    PROVE  Redacted(a \o b) = Redacted(a) \o Redacted(b)
<1> DEFINE L == Len(b)
           S == {n \in Nat : n <= L => Redacted(a \o SubSeq(b, 1, n)) = Redacted(a) \o Redacted(SubSeq(b, 1, n))}
<1>0. Redacted(a) \in Seq(Stored)
  BY RedactedTyped
<1>1. 0 \in S
  <2>1. SubSeq(b, 1, 0) = <<>> /\ Redacted(<<>>) = <<>>
    BY RedactedGrows DEF Written
  <2>2. a \o <<>> = a /\ Redacted(a) \o <<>> = Redacted(a)
    BY <1>0
  <2>3. Redacted(a \o SubSeq(b, 1, 0)) = Redacted(a) \o Redacted(SubSeq(b, 1, 0))
    BY <2>1, <2>2
  <2> QED
    BY <2>3
<1>2. ASSUME NEW n \in Nat, n \in S PROVE n + 1 \in S
  <2> SUFFICES ASSUME n + 1 <= L PROVE Redacted(a \o SubSeq(b, 1, n + 1)) = Redacted(a) \o Redacted(SubSeq(b, 1, n + 1))
    OBVIOUS
  <2> DEFINE q == SubSeq(b, 1, n)
             c == b[n + 1]
             d == Redacted(a)
             e == Redacted(q)
  <2>1. q \in Seq(Written) /\ c \in Written /\ SubSeq(b, 1, n + 1) = Append(q, c)
    OBVIOUS
  <2>2. a \o Append(q, c) = Append(a \o q, c) /\ a \o q \in Seq(Written)
    <3> HIDE DEF q, c
    <3> QED
      BY <2>1
  <2>3. Redacted(a \o q) = d \o e
    BY <1>2
  <2>4. e \in Seq(Stored) /\ c \in Stored
    BY <2>1, RedactedTyped DEF Stored
  <2>5. d # <<>> /\ d[Len(d)] = "s1" => FALSE
    BY RedactedTyped
  <2> HIDE DEF q, c, d, e
  <2>6. Redacted(Append(a \o q, c)) = Redact(d \o e, c) /\ Redacted(Append(q, c)) = Redact(e, c)
    BY <2>1, <2>2, <2>3, RedactedGrows DEF e
  <2>7. Redact(d \o e, c) = d \o Redact(e, c)
    <3>0. d \in Seq(Stored)
      BY <1>0 DEF d
    <3>1. CASE e = <<>>
      <4>1. d \o e = d /\ Redact(e, c) = Append(<<>>, c) /\ Redact(d, c) = Append(d, c)
        BY <2>5, <3>0, <3>1 DEF Redact
      <4> QED
        BY <2>4, <3>0, <4>1
    <3>2. CASE e # <<>>
      <4>1. EndsAs(d, e, c, "r")
        <5>1. "r" \in Stored
          BY DEF Stored
        <5>2. e \in Seq(Stored) /\ c \in Stored
          BY <2>4
        <5> QED
          BY <3>0, <3>2, <5>1, <5>2, LastOfBoth
      <4> QED
        BY <3>2, <4>1 DEF Redact, EndsAs
    <3> QED
      BY <3>1, <3>2
  <2> QED
    BY <2>1, <2>2, <2>6, <2>7 DEF e, d
<1>3. L \in S
  <2> HIDE DEF S
  <2> QED
    BY <1>1, <1>2, Lists!Climb
<1>4. SubSeq(b, 1, L) = b /\ L \in Nat
  OBVIOUS
<1>5. Redacted(a \o SubSeq(b, 1, L)) = Redacted(a) \o Redacted(SubSeq(b, 1, L))
  BY <1>3, <1>4
<1> QED
  BY <1>4, <1>5

\* One character of a chunk.
Eat(m, c) == IF c = "nl" THEN EndLine(Hold(m, "nl")) ELSE Hold(m, c)

\* f is the recursive function of Consumed, as far as m.
Consumes(f, l, s, m) == f[0] = l /\ \A n \in 1..m : f[n] = Eat(f[n - 1], s[n])

LEMMA ConsumedRuns ==
    ASSUME NEW l, NEW X, NEW s \in Seq(X)
    PROVE  \E f : Consumes(f, l, s, Len(s)) /\ Consumed(l, s) = f[Len(s)]
<1> DEFINE L == Len(s)
           S == {m \in Nat : \E g : Consumes(g, l, s, m)}
           Body(f, n) == IF n = 0 THEN l ELSE Eat(f[n - 1], s[n])
<1>1. 0 \in S
  <2>1. Consumes([n \in 0..0 |-> l], l, s, 0)
    BY DEF Consumes
  <2> QED
    BY <2>1
<1>2. ASSUME NEW m \in Nat, m \in S PROVE m + 1 \in S
  <2>1. PICK g : Consumes(g, l, s, m)
    BY <1>2
  <2> DEFINE h == [n \in 0..m + 1 |-> IF n = m + 1 THEN Body(g, n) ELSE g[n]]
  <2>2. h[0] = l
    BY <2>1 DEF Consumes
  <2>3. \A n \in 1..m + 1 : h[n] = Eat(h[n - 1], s[n])
    <3> SUFFICES ASSUME NEW n \in 1..m + 1 PROVE h[n] = Eat(h[n - 1], s[n])
      OBVIOUS
    <3>1. n - 1 \in 0..m /\ h[n - 1] = g[n - 1]
      OBVIOUS
    <3>2. h[n] = IF n = m + 1 THEN Eat(g[n - 1], s[n]) ELSE g[n]
      OBVIOUS
    <3> HIDE DEF h
    <3> QED
      BY <2>1, <3>1, <3>2 DEF Consumes
  <2> HIDE DEF h
  <2>4. Consumes(h, l, s, m + 1)
    BY <2>2, <2>3 DEF Consumes
  <2> QED
    BY <2>4
<1>3. L \in S
  <2> HIDE DEF S
  <2> QED
    BY <1>1, <1>2, Lists!Climb
<1>4. PICK g : Consumes(g, l, s, L)
  BY <1>3
<1> DEFINE e == [n \in 0..L |-> g[n]]
           f == CHOOSE x : x = [n \in 0..L |-> Body(x, n)]
<1>5. e = [n \in 0..L |-> Body(e, n)]
  <2>1. \A n \in 0..L : e[n] = Body(e, n)
    BY <1>4 DEF Consumes
  <2> QED
    BY <2>1
<1>6. f = [n \in 0..L |-> Body(f, n)]
  <2> HIDE DEF e
  <2> QED
    BY <1>5
<1>7. Consumed(l, s) = f[L]
  BY DEF Consumed, Eat
<1> HIDE DEF f
<1>8. Consumes(f, l, s, L)
  <2>1. \A n \in 0..L : f[n] = Body(f, n)
    BY <1>6
  <2> QED
    BY <2>1 DEF Consumes
<1> QED
  BY <1>7, <1>8

Logs == [pending : Seq(Written), long : BOOLEAN, omitted : Nat, truncated : BOOLEAN, file : Seq(Stored)]

\* What is in the file is the start of the redacted text s, all of it unless
\* the log is truncated.
Covers(l, s) ==
    /\ l \in Logs /\ Len(l.file) <= LogLimit /\ (l.omitted > 0 => l.truncated)
    /\ \E rest \in Seq(Stored) : Redacted(s) = l.file \o rest /\ (~l.truncated => rest = <<>>)

\* Of a text that was read, the file covers the whole lines; what is pending
\* is the rest, unless that was too long.
LogKeptAt(l, a, b) ==
    /\ a = <<>> \/ a[Len(a)] = "nl"
    /\ IF l.long THEN l.truncated ELSE l.pending = b
    /\ Covers(l, a)
LogKept(l, s) == \E a, b \in Seq(Written) : s = a \o b /\ LogKeptAt(l, a, b)

LEMMA HoldKeeps ==
    ASSUME NEW s \in Seq(Written), NEW l, LogKept(l, s), NEW c \in Written
    PROVE  LogKept(Hold(l, c), Append(s, c))
<1>1. PICK a \in Seq(Written), b \in Seq(Written) : s = a \o b /\ LogKeptAt(l, a, b)
  BY DEF LogKept
<1>2. Append(b, c) \in Seq(Written) /\ Append(s, c) = a \o Append(b, c)
  <2>4. Appends(a, b, c)
    BY Appended
  <2>1. Append(a \o b, c) = a \o Append(b, c)
    BY <2>4, Zenon DEF Appends
  <2>2. Append(b, c) \in Seq(Written)
    OBVIOUS
  <2>3. s = a \o b
    BY <1>1, Zenon
  <2> QED
    BY <2>1, <2>2, <2>3, Zenon
<1>3. PICK rest \in Seq(Stored) : Redacted(a) = l.file \o rest /\ (~l.truncated => rest = <<>>)
  BY <1>1 DEF LogKeptAt, Covers
<1>4. l \in Logs /\ Len(l.file) <= LogLimit /\ (l.omitted > 0 => l.truncated)
  BY <1>1 DEF LogKeptAt, Covers
<1> DEFINE m == Hold(l, c)
<1>5. m.file = l.file /\ (l.truncated => m.truncated)
  BY <1>4 DEF Hold, Logs
<1>6. m \in Logs /\ (m.omitted > 0 => m.truncated)
  <2>1. CASE l.long
    BY <1>4, <2>1 DEF Hold
  <2>2. CASE ~l.long /\ Len(l.pending) = LineLimit
    <3>1. m = [l EXCEPT !.pending = <<>>, !.long = TRUE, !.omitted = l.omitted + 1, !.truncated = TRUE]
      BY <2>2 DEF Hold
    <3>2. l.omitted + 1 \in Nat /\ <<>> \in Seq(Written)
      BY <1>4 DEF Logs
    <3> HIDE DEF m
    <3> QED
      BY <1>4, <3>1, <3>2 DEF Logs
  <2>3. CASE ~l.long /\ Len(l.pending) # LineLimit
    <3>1. Append(l.pending, c) \in Seq(Written)
      BY <1>4 DEF Logs
    <3>2. m = [l EXCEPT !.pending = Append(l.pending, c)]
      BY <1>4, <2>3 DEF Hold, Logs
    <3> HIDE DEF m
    <3> QED
      BY <1>4, <3>1, <3>2 DEF Logs
  <2> QED
    BY <2>1, <2>2, <2>3
<1>7. IF m.long THEN m.truncated ELSE m.pending = Append(b, c)
  BY <1>1, <1>4 DEF Hold, LogKeptAt, Logs
<1> HIDE DEF m
<1>8. Covers(m, a)
  BY <1>3, <1>4, <1>5, <1>6 DEF Covers
<1>9. LogKeptAt(m, a, Append(b, c))
  BY <1>1, <1>7, <1>8 DEF LogKeptAt
<1> QED
  BY <1>2, <1>9 DEF LogKept, m

\* What is left out of the file leaves it the start of the text.
LEMMA LeavingOutCovers ==
    ASSUME NEW l, NEW m \in Logs, NEW a \in Seq(Written), NEW b \in Seq(Written), LogKeptAt(l, a, b),
           m.file = l.file, m.truncated \/ (b = <<>> /\ m.truncated = l.truncated), m.omitted = l.omitted
    PROVE  Covers(m, a \o b)
<1>1. PICK rest \in Seq(Stored) : Redacted(a) = l.file \o rest /\ (~l.truncated => rest = <<>>)
  BY DEF LogKeptAt, Covers
<1>2. Redacted(a \o b) = Redacted(a) \o Redacted(b) /\ Redacted(b) \in Seq(Stored) /\ (b = <<>> => Redacted(b) = <<>>)
  BY RedactedParts, RedactedTyped DEF LogKeptAt
<1>3. l.file \in Seq(Stored)
  BY DEF LogKeptAt, Covers, Logs
<1> DEFINE more == rest \o Redacted(b)
<1>4. more \in Seq(Stored) /\ Redacted(a \o b) = l.file \o more
  <2>1. (l.file \o rest) \o Redacted(b) = l.file \o (rest \o Redacted(b)) /\ rest \o Redacted(b) \in Seq(Stored)
    <3>1. Associates(l.file, rest, Redacted(b))
      BY <1>2, <1>3, Associative
    <3> QED
      BY <1>2, <1>3, <3>1, Zenon DEF Associates
  <2>2. Redacted(a \o b) = Redacted(a) \o Redacted(b) /\ Redacted(a) = l.file \o rest
    BY <1>1, <1>2, Zenon
  <2>3. Redacted(a \o b) = (l.file \o rest) \o Redacted(b)
    BY <2>2, Zenon
  <2> QED
    BY <2>1, <2>3, Zenon
<1>5. ~m.truncated => more = <<>>
  BY <1>1, <1>2
<1> HIDE DEF more
<1> QED
  BY <1>4, <1>5 DEF Covers, LogKeptAt

\* A line that is written is redacted; one that no longer fits truncates.
LEMMA LogLineCovers ==
    ASSUME NEW l, NEW a \in Seq(Written), NEW b \in Seq(Written), LogKeptAt(l, a, b), ~l.long
    PROVE  Covers(LogLine(l), a \o b)
<1> DEFINE data == Redacted(l.pending)
           m == LogLine(l)
<1>1. l \in Logs /\ l.pending = b /\ Len(l.file) <= LogLimit /\ (l.omitted > 0 => l.truncated)
  BY DEF LogKeptAt, Covers
<1>2. data \in Seq(Stored) /\ l.file \in Seq(Stored)
  BY <1>1, RedactedTyped DEF Logs
<1>3. CASE Len(l.file) + Len(data) > LogLimit
  <2>1. m = [l EXCEPT !.truncated = TRUE]
    BY <1>3 DEF LogLine
  <2>2. m \in Logs /\ m.file = l.file /\ m.truncated /\ m.omitted = l.omitted
    BY <1>1, <2>1 DEF Logs
  <2> HIDE DEF m
  <2> QED
    BY <2>2, LeavingOutCovers DEF m
<1>4. CASE ~(Len(l.file) + Len(data) > LogLimit) /\ l.truncated
  <2>1. m = l
    BY <1>4 DEF LogLine
  <2> QED
    BY <1>1, <1>4, <2>1, LeavingOutCovers
<1>5. CASE ~(Len(l.file) + Len(data) > LogLimit) /\ ~l.truncated
  <2>1. m = [l EXCEPT !.file = l.file \o data]
    BY <1>5 DEF LogLine
  <2> HIDE DEF data
  <2>2. l.file \o data \in Seq(Stored) /\ Len(l.file \o data) = Len(l.file) + Len(data)
    BY <1>2
  <2>3. m \in Logs /\ m.file = l.file \o data /\ m.omitted = l.omitted /\ m.truncated = l.truncated
    BY <1>1, <2>1, <2>2 DEF Logs
  <2>4. PICK rest \in Seq(Stored) : Redacted(a) = l.file \o rest /\ (~l.truncated => rest = <<>>)
    BY DEF LogKeptAt, Covers
  <2>5. Redacted(a) = l.file
    BY <1>2, <1>5, <2>4
  <2>6. Redacted(a \o b) = Redacted(a) \o data
    BY <1>1, RedactedParts DEF LogKeptAt, data
  <2>7. Redacted(a \o b) = m.file \o <<>> /\ <<>> \in Seq(Stored)
    BY <2>2, <2>3, <2>5, <2>6
  <2>8. Len(m.file) <= LogLimit
    BY <1>2, <1>5, <2>2, <2>3, TargetLogAssumption
  <2> HIDE DEF m
  <2> QED
    BY <1>1, <2>3, <2>7, <2>8 DEF Covers, m
<1> QED
  BY <1>3, <1>4, <1>5

\* At the end of a line nothing is pending.
LEMMA EndLineKeeps ==
    ASSUME NEW s \in Seq(Written), NEW l, LogKept(l, s), s # <<>>, s[Len(s)] = "nl"
    PROVE  LogKept(EndLine(l), s)
<1>1. PICK a \in Seq(Written), b \in Seq(Written) : s = a \o b /\ LogKeptAt(l, a, b)
  BY DEF LogKept
<1>2. l \in Logs
  BY <1>1 DEF LogKeptAt, Covers
<1> DEFINE k == IF l.long THEN l ELSE LogLine(l)
           m == [k EXCEPT !.pending = <<>>, !.long = FALSE]
<1>3. Covers(k, s)
  <2>1. CASE l.long
    <3>1. l.truncated
      BY <1>1, <2>1 DEF LogKeptAt
    <3> QED
      BY <1>1, <1>2, <2>1, <3>1, LeavingOutCovers
  <2>2. CASE ~l.long
    BY <1>1, <2>2, LogLineCovers
  <2> QED
    BY <2>1, <2>2
<1>4. m = EndLine(l)
  BY DEF EndLine
<1> HIDE DEF k
<1>9. <<>> \in Seq(Written) /\ k \in Logs
  BY <1>3 DEF Covers
<1>5. /\ m \in Logs /\ m.file = k.file /\ m.truncated = k.truncated /\ m.omitted = k.omitted
      /\ m.pending = <<>> /\ ~m.long
  BY <1>9 DEF Logs
<1> HIDE DEF m
<1>6. Covers(m, s)
  BY <1>3, <1>5 DEF Covers
<1>7. LogKeptAt(m, s, <<>>)
  BY <1>5, <1>6 DEF LogKeptAt
<1>8. <<>> \in Seq(Written) /\ s \o <<>> = s
  OBVIOUS
<1> QED
  BY <1>4, <1>7, <1>8 DEF LogKept

\* In whatever pieces a text is read.
LEMMA ConsumedKeeps ==
    ASSUME NEW s \in Seq(Written), NEW l, LogKept(l, s), NEW chunk \in Seq(Written)
    PROVE  LogKept(Consumed(l, chunk), s \o chunk)
<1> DEFINE L == Len(chunk)
<1>1. PICK f : Consumes(f, l, chunk, L) /\ Consumed(l, chunk) = f[L]
  BY ConsumedRuns
<1> DEFINE S == {n \in Nat : n <= L => LogKept(f[n], s \o SubSeq(chunk, 1, n))}
<1>2. 0 \in S
  <2>1. s \o SubSeq(chunk, 1, 0) = s
    OBVIOUS
  <2>2. LogKept(f[0], s \o SubSeq(chunk, 1, 0))
    BY <1>1, <2>1 DEF Consumes
  <2> QED
    BY <2>2
<1>3. ASSUME NEW n \in Nat, n \in S PROVE n + 1 \in S
  <2> SUFFICES ASSUME n + 1 <= L PROVE LogKept(f[n + 1], s \o SubSeq(chunk, 1, n + 1))
    OBVIOUS
  <2> DEFINE t == s \o SubSeq(chunk, 1, n)
             c == chunk[n + 1]
             u == s \o SubSeq(chunk, 1, n + 1)
  <2>1. c \in Written /\ SubSeq(chunk, 1, n) \in Seq(Written) /\ SubSeq(chunk, 1, n + 1) = Append(SubSeq(chunk, 1, n), c)
    OBVIOUS
  <2>2. t \in Seq(Written) /\ u = Append(t, c)
    BY <2>1
  <2>3. n + 1 \in 1..L /\ (n + 1) - 1 = n
    OBVIOUS
  <2>4. f[n + 1] = Eat(f[n], c)
    BY <1>1, <2>3 DEF Consumes
  <2>5. LogKept(f[n], t)
    BY <1>3
  <2> HIDE DEF t, c, u
  <2>6. LogKept(Hold(f[n], c), u)
    BY <2>1, <2>2, <2>5, HoldKeeps
  <2>7. u \in Seq(Written) /\ u # <<>> /\ u[Len(u)] = c
    BY <2>1, <2>2
  <2>8. CASE c = "nl"
    BY <2>4, <2>6, <2>7, <2>8, EndLineKeeps DEF Eat, u
  <2>9. CASE c # "nl"
    BY <2>4, <2>6, <2>9 DEF Eat, u
  <2> QED
    BY <2>8, <2>9 DEF u
<1>4. L \in S
  <2> HIDE DEF S
  <2> QED
    BY <1>2, <1>3, Lists!Climb
<1>5. L \in Nat /\ SubSeq(chunk, 1, L) = chunk
  OBVIOUS
<1>6. LogKept(f[L], s \o SubSeq(chunk, 1, L))
  BY <1>4, <1>5
<1> QED
  BY <1>1, <1>5, <1>6

\* A log that is cut off is marked.
LEMMA CutKeeps ==
    ASSUME NEW s, NEW l, LogKept(l, s)
    PROVE  LogKept([l EXCEPT !.truncated = TRUE], s)
<1> DEFINE m == [l EXCEPT !.truncated = TRUE]
<1>1. PICK a \in Seq(Written), b \in Seq(Written) : s = a \o b /\ LogKeptAt(l, a, b)
  BY DEF LogKept
<1>2. l \in Logs /\ Len(l.file) <= LogLimit
  BY <1>1 DEF LogKeptAt, Covers
<1>3. /\ m \in Logs /\ m.truncated /\ m.file = l.file /\ m.long = l.long /\ m.pending = l.pending
  BY <1>2 DEF Logs
<1> HIDE DEF m
<1>4. Covers(m, a)
  BY <1>1, <1>2, <1>3 DEF LogKeptAt, Covers
<1>5. LogKeptAt(m, a, b)
  BY <1>1, <1>3, <1>4 DEF LogKeptAt
<1> QED
  BY <1>1, <1>5 DEF LogKept, m

\* At the end all that was read is in the file, or left out.
LEMMA ClosedCovers ==
    ASSUME NEW s, NEW l, LogKept(l, s)
    PROVE  Covers(Closed(l), s)
<1>1. PICK a \in Seq(Written), b \in Seq(Written) : s = a \o b /\ LogKeptAt(l, a, b)
  BY DEF LogKept
<1>2. l \in Logs
  BY <1>1 DEF LogKeptAt, Covers
<1>3. CASE l.pending = <<>> \/ l.long
  <2>1. l.truncated \/ b = <<>>
    BY <1>1, <1>3 DEF LogKeptAt
  <2> QED
    BY <1>1, <1>2, <1>3, <2>1, LeavingOutCovers DEF Closed
<1>4. CASE ~(l.pending = <<>> \/ l.long)
  BY <1>1, <1>4, LogLineCovers DEF Closed
<1> QED
  BY <1>3, <1>4

\* What is in the file is the start of the redacted text.
Starts(l, s) ==
    /\ l \in Logs /\ Len(l.file) <= LogLimit /\ (l.omitted > 0 => l.truncated)
    /\ \E rest \in Seq(Stored) : Redacted(s) = l.file \o rest

LEMMA CoversStarts == ASSUME NEW s, NEW l, Covers(l, s) PROVE Starts(l, s)
BY DEF Covers, Starts

LEMMA KeptStarts == ASSUME NEW s, NEW l, LogKept(l, s) PROVE Starts(l, s)
<1>1. PICK a \in Seq(Written), b \in Seq(Written) : s = a \o b /\ LogKeptAt(l, a, b)
  BY DEF LogKept
<1>2. PICK rest \in Seq(Stored) : Redacted(a) = l.file \o rest
  BY <1>1 DEF LogKeptAt, Covers
<1>3. l.file \in Seq(Stored) /\ Redacted(b) \in Seq(Stored)
  BY <1>1, RedactedTyped DEF LogKeptAt, Covers, Logs
<1>4. Redacted(a \o b) = Redacted(a) \o Redacted(b)
  BY <1>1, RedactedParts DEF LogKeptAt
<1>5. Associates(l.file, rest, Redacted(b))
  BY <1>3, Associative
<1> DEFINE more == rest \o Redacted(b)
<1>6. more \in Seq(Stored)
  BY <1>3
<1>7. Redacted(s) = l.file \o more
  BY <1>1, <1>2, <1>4, <1>5, Zenon DEF Associates
<1> HIDE DEF more
<1>8. l \in Logs /\ Len(l.file) <= LogLimit /\ (l.omitted > 0 => l.truncated)
  BY <1>1 DEF LogKeptAt, Covers
<1> QED
  BY <1>6, <1>7, <1>8 DEF Starts

\* The next part of a text follows what was taken of it.
TakenUpTo == SubSeq(output, 1, taken)
LEMMA TextSplit ==
    ASSUME NEW X, NEW s \in Seq(X), NEW i \in Nat, NEW j \in Nat, i <= j, j <= Len(s), NEW n \in 1..(j - i)
    PROVE  /\ SubSeq(SubSeq(s, i + 1, j), 1, n) \in Seq(X)
           /\ SubSeq(s, 1, i + n) = SubSeq(s, 1, i) \o SubSeq(SubSeq(s, i + 1, j), 1, n)
<1> DEFINE u == SubSeq(s, i + 1, j)
           c == SubSeq(u, 1, n)
           a == SubSeq(s, 1, i)
           t == SubSeq(s, 1, i + n)
<1>1. u \in Seq(X) /\ Len(u) = j - i /\ \A k \in 1..(j - i) : u[k] = s[i + k]
  OBVIOUS
<1> HIDE DEF u
<1>2. c \in Seq(X) /\ Len(c) = n /\ \A k \in 1..n : c[k] = u[k]
  BY <1>1
<1>3. a \in Seq(X) /\ Len(a) = i /\ \A k \in 1..i : a[k] = s[k]
  OBVIOUS
<1>4. t \in Seq(X) /\ Len(t) = i + n /\ \A k \in 1..(i + n) : t[k] = s[k]
  OBVIOUS
<1> HIDE DEF a, c, t
<1> DEFINE v == a \o c
<1>5. v \in Seq(X) /\ Len(v) = i + n /\ \A k \in 1..(i + n) : v[k] = IF k <= i THEN a[k] ELSE c[k - i]
  <2>1. /\ v \in Seq(X) /\ Len(v) = Len(a) + Len(c)
        /\ \A k \in 1..(Len(a) + Len(c)) : v[k] = IF k <= Len(a) THEN a[k] ELSE c[k - Len(a)]
    BY <1>2, <1>3, ConcatProperties
  <2> HIDE DEF v
  <2> QED
    BY <1>2, <1>3, <2>1
<1> HIDE DEF v
<1>6. ASSUME NEW k \in 1..(i + n) PROVE t[k] = v[k]
  <2>1. CASE k <= i
    <3>1. k \in 1..i
      BY <2>1
    <3> QED
      BY <1>3, <1>4, <1>5, <2>1, <3>1
  <2>2. CASE ~(k <= i)
    <3>1. k - i \in 1..n /\ k - i \in 1..(j - i) /\ i + (k - i) = k
      BY <2>2
    <3> QED
      BY <1>1, <1>2, <1>4, <1>5, <2>2, <3>1
  <2> QED
    BY <2>1, <2>2
<1>7. t = v
  BY <1>4, <1>5, <1>6
<1> QED
  BY <1>2, <1>7 DEF v, a, c, t, u

\* The file is of whole lines of the first t characters of o: of its first n.
WholeIn(o, t, l, n) ==
    /\ n \in 0..t /\ (n = 0 \/ o[n] = "nl")
    /\ \E rest \in Seq(Stored) : Redacted(SubSeq(o, 1, n)) = l.file \o rest
WholeOf(n) == WholeIn(output, taken, log, n)

LogInv ==
    /\ output \in Outputs /\ wrote \in 0..Len(output) /\ taken \in 0..wrote
    /\ reader = "running" \/ reader = "closed"
    /\ reader = "running" => LogKept(log, TakenUpTo)
    /\ Starts(log, TakenUpTo)
    /\ reader = "closed" /\ ~failed => Covers(log, TakenUpTo)
    /\ (\E n \in Nat : WholeOf(n)) \/ (reader = "closed" /\ taken = wrote)
    /\ reader = "closed" /\ ~failed /\ ~log.truncated => taken = wrote

\* What is pending is not in the file: that is of whole lines.
LEMMA KeptWhole ==
    ASSUME NEW o \in Seq(Written), NEW t \in 0..Len(o), NEW l, LogKept(l, SubSeq(o, 1, t))
    PROVE  \E n \in Nat : WholeIn(o, t, l, n)
<1>1. PICK a \in Seq(Written), b \in Seq(Written) : SubSeq(o, 1, t) = a \o b /\ LogKeptAt(l, a, b)
  BY DEF LogKept
<1>2. PICK n \in Nat : n = Len(a)
  BY <1>1
<1>3. Len(SubSeq(o, 1, t)) = t /\ \A k \in 1..t : SubSeq(o, 1, t)[k] = o[k]
  OBVIOUS
<1>4. Len(a \o b) = n + Len(b) /\ \A k \in 1..n : (a \o b)[k] = a[k]
  BY <1>2
<1>5. n \in 0..t /\ \A k \in 1..n : o[k] = a[k]
  BY <1>1, <1>3, <1>4
<1>6. SubSeq(o, 1, n) = a
  <2>1. /\ SubSeq(o, 1, n) \in Seq(Written) /\ Len(SubSeq(o, 1, n)) = n
        /\ \A k \in 1..n : SubSeq(o, 1, n)[k] = o[k]
    BY <1>5
  <2> QED
    BY <1>2, <1>5, <2>1
<1>7. n = 0 \/ o[n] = "nl"
  BY <1>1, <1>2, <1>5 DEF LogKeptAt
<1>8. \E rest \in Seq(Stored) : Redacted(a) = l.file \o rest
  BY <1>1 DEF LogKeptAt, Covers
<1> QED
  BY <1>5, <1>6, <1>7, <1>8 DEF WholeIn

\* The file starts with lines of the text, so it starts the text.
LEMMA WholeStarts ==
    ASSUME LogInv, NEW n \in Nat, WholeOf(n)
    PROVE  \E rest \in Seq(Stored) : Redacted(SubSeq(output, 1, wrote)) = log.file \o rest
<1>1. output \in Seq(Written) /\ wrote \in 0..Len(output) /\ taken \in 0..wrote /\ n \in 0..taken
  BY TargetLogAssumption DEF LogInv, WholeOf, WholeIn, Written
<1> DEFINE a == SubSeq(output, 1, n)
           b == SubSeq(output, n + 1, wrote)
<1>2. a \in Seq(Written) /\ b \in Seq(Written) /\ (a = <<>> \/ a[Len(a)] # "s1")
  BY <1>1 DEF WholeOf, WholeIn
<1>3. SubSeq(output, 1, wrote) = a \o b
  <2>1. a \o b \in Seq(Written) /\ Len(a \o b) = wrote /\ \A k \in 1..wrote : (a \o b)[k] = output[k]
    BY <1>1
  <2>2. /\ SubSeq(output, 1, wrote) \in Seq(Written) /\ Len(SubSeq(output, 1, wrote)) = wrote
        /\ \A k \in 1..wrote : SubSeq(output, 1, wrote)[k] = output[k]
    BY <1>1
  <2> DEFINE u == a \o b
             v == SubSeq(output, 1, wrote)
  <2>3. /\ u \in Seq(Written) /\ v \in Seq(Written) /\ Len(u) = Len(v) /\ Len(v) = wrote
        /\ \A k \in 1..wrote : u[k] = v[k]
    BY <2>1, <2>2
  <2> HIDE DEF u, v
  <2>4. u = v
    BY <2>3
  <2> QED
    BY <2>4 DEF u, v
<1>4. PICK rest \in Seq(Stored) : Redacted(a) = log.file \o rest
  BY DEF WholeOf, WholeIn
<1>5. log.file \in Seq(Stored)
  BY DEF LogInv, Starts, Logs
<1> HIDE DEF a, b
<1>6. Redacted(a \o b) = Redacted(a) \o Redacted(b) /\ Redacted(b) \in Seq(Stored)
  BY <1>2, RedactedParts, RedactedTyped
<1>7. Associates(log.file, rest, Redacted(b)) /\ rest \o Redacted(b) \in Seq(Stored)
  BY <1>5, <1>6, Associative
<1>8. Redacted(a \o b) = log.file \o (rest \o Redacted(b))
  BY <1>4, <1>6, <1>7, Zenon DEF Associates
<1> QED
  BY <1>3, <1>7, <1>8

LEMMA LogStarts == TargetLogInit => LogInv
<1> SUFFICES ASSUME TargetLogInit PROVE LogInv
  OBVIOUS
<1> USE TargetLogAssumption DEF TargetLogInit
<1>1. output \in Seq(Written)
  BY DEF Written
<1>2. TakenUpTo = <<>> /\ <<>> \in Seq(Written) /\ Redacted(<<>>) = <<>> /\ <<>> \in Seq(Stored)
  BY <1>1, RedactedGrows DEF TakenUpTo, Written
<1>3. log \in Logs /\ log.file = <<>> /\ log.pending = <<>> /\ log.omitted = 0 /\ ~log.long
  BY <1>2 DEF Logs
<1>4. <<>> = <<>> \o <<>>
  OBVIOUS
<1>5. Covers(log, <<>>)
  <2> DEFINE none == <<>>
  <2>1. Redacted(none) = log.file \o none /\ none \in Seq(Stored) /\ none = <<>>
    BY <1>2, <1>3, <1>4
  <2>2. Len(log.file) <= LogLimit /\ (log.omitted > 0 => log.truncated)
    BY <1>3
  <2> HIDE DEF none
  <2>3. Covers(log, none)
    BY <1>3, <2>1, <2>2 DEF Covers
  <2> QED
    BY <2>3 DEF none
<1>6. LogKeptAt(log, <<>>, <<>>)
  BY <1>3, <1>5 DEF LogKeptAt
<1>7. LogKept(log, TakenUpTo)
  BY <1>2, <1>4, <1>6 DEF LogKept
<1>8. Starts(log, TakenUpTo)
  BY <1>7, KeptStarts
<1>9. \E n \in Nat : WholeOf(n)
  BY <1>1, <1>7, KeptWhole DEF WholeOf, TakenUpTo, TargetLogInit
<1> QED
  BY <1>1, <1>7, <1>8, <1>9 DEF LogInv

LEMMA LogKeeps == LogInv /\ [TargetLogNext]_targetLogVars => LogInv'
<1> SUFFICES ASSUME LogInv, [TargetLogNext]_targetLogVars PROVE LogInv'
  OBVIOUS
<1>0. /\ output \in Seq(Written) /\ wrote \in Nat /\ taken \in Nat /\ taken <= wrote /\ wrote <= Len(output)
      /\ TakenUpTo \in Seq(Written)
  BY TargetLogAssumption DEF LogInv, Written, TakenUpTo
<1>1. CASE WriteOutput
  <2>1. wrote' \in 0..Len(output) /\ taken \in 0..wrote'
    BY <1>0, <1>1 DEF WriteOutput
  <2>2. TakenUpTo' = TakenUpTo
    BY <1>1 DEF WriteOutput, TakenUpTo
  <2>3. ASSUME NEW n \in Nat, WholeOf(n) PROVE WholeOf(n)'
    BY <1>1, <2>3 DEF WriteOutput, WholeOf, WholeIn
  <2> QED
    BY <1>1, <2>1, <2>2, <2>3 DEF WriteOutput, LogInv
<1>2. CASE ReadChunk
  <2>1. PICK n \in 1..Len(Unread) : taken' = taken + n /\ log' = Consumed(log, SubSeq(Unread, 1, n))
    BY <1>2 DEF ReadChunk
  <2>2. Len(Unread) = wrote - taken
    BY <1>0 DEF Unread
  <2>3. n \in 1..(wrote - taken)
    BY <2>1, <2>2
  <2> DEFINE chunk == SubSeq(Unread, 1, n)
  <2>4. chunk \in Seq(Written) /\ SubSeq(output, 1, taken + n) = TakenUpTo \o chunk
    BY <1>0, <2>3, TextSplit DEF Unread, TakenUpTo
  <2> HIDE DEF chunk
  <2>5. TakenUpTo' = TakenUpTo \o chunk
    BY <1>2, <2>1, <2>4 DEF TakenUpTo, ReadChunk
  <2>6. LogKept(log', TakenUpTo')
    <3>1. LogKept(log, TakenUpTo)
      BY <1>2 DEF ReadChunk, LogInv
    <3>2. LogKept(Consumed(log, chunk), TakenUpTo \o chunk)
      BY <1>0, <2>4, <3>1, ConsumedKeeps
    <3> QED
      BY <2>1, <2>5, <3>2 DEF chunk
  <2>7. taken' \in 0..wrote
    BY <1>0, <2>1, <2>3
  <2>8. Starts(log', TakenUpTo')
    BY <2>6, KeptStarts
  <2>9. output' = output /\ wrote' = wrote /\ reader' = reader /\ reader = "running"
    BY <1>2 DEF ReadChunk
  <2>10. (\E k \in Nat : WholeOf(k))'
    <3>1. output' \in Seq(Written) /\ taken' \in 0..Len(output')
      BY <1>0, <2>7, <2>9
    <3>2. \E k \in Nat : WholeIn(output', taken', log', k)
      BY <2>6, <3>1, KeptWhole DEF TakenUpTo
    <3> QED
      BY <3>2 DEF WholeOf, WholeIn
  <2> QED
    BY <2>6, <2>7, <2>8, <2>9, <2>10 DEF LogInv
<1>3. CASE FinishLog
  <2>1. TakenUpTo' = TakenUpTo /\ log' = Closed(log)
    BY <1>3 DEF FinishLog, TakenUpTo
  <2>2. Covers(log', TakenUpTo')
    BY <1>3, <2>1, ClosedCovers DEF FinishLog, LogInv
  <2>3. Starts(log', TakenUpTo')
    BY <2>2, CoversStarts
  <2>4. taken = wrote
    <3>1. Len(Unread) = wrote - taken
      BY <1>0 DEF Unread
    <3> QED
      BY <1>0, <1>3, <3>1 DEF FinishLog
  <2> QED
    BY <1>3, <2>2, <2>3, <2>4 DEF FinishLog, LogInv
<1>4. CASE CutLog
  <2>1. TakenUpTo' = TakenUpTo /\ log' = Closed([log EXCEPT !.truncated = TRUE])
    BY <1>4 DEF CutLog, TakenUpTo
  <2>2. Covers(log', TakenUpTo')
    BY <1>4, <2>1, CutKeeps, ClosedCovers DEF CutLog, LogInv
  <2>3. Starts(log', TakenUpTo')
    BY <2>2, CoversStarts
  <2>4. log'.file = log.file /\ log'.truncated
    <3>1. log \in Logs
      BY DEF LogInv, Starts
    <3> QED
      BY <2>1, <3>1 DEF Closed, LogLine, Logs
  <2>5. (\E n \in Nat : WholeOf(n))'
    <3>1. PICK n \in Nat : WholeOf(n)
      BY <1>4 DEF CutLog, LogInv
    <3>2. WholeOf(n)'
      BY <1>4, <2>4, <3>1 DEF CutLog, WholeOf, WholeIn
    <3> QED
      BY <3>2
  <2>6. UNCHANGED <<output, wrote, taken, failed>> /\ reader' = "closed"
    BY <1>4 DEF CutLog
  <2> QED
    BY <2>2, <2>3, <2>4, <2>5, <2>6 DEF LogInv
<1>5. CASE LogBreaks
  <2>1. TakenUpTo' = TakenUpTo
    BY <1>5 DEF LogBreaks, TakenUpTo
  <2>2. (\E n \in Nat : WholeOf(n))'
    <3>1. PICK n \in Nat : WholeOf(n)
      BY <1>5 DEF LogBreaks, LogInv
    <3>2. WholeOf(n)'
      BY <1>5, <3>1 DEF LogBreaks, WholeOf, WholeIn
    <3> QED
      BY <3>2
  <2>3. UNCHANGED <<output, wrote, taken, log>> /\ reader' = "closed" /\ failed'
    BY <1>5 DEF LogBreaks
  <2> QED
    BY <2>1, <2>2, <2>3 DEF LogInv
<1>6. CASE CloseOutput \/ StopLog \/ LogTimeUp \/ GiveUpLog \/ UNCHANGED targetLogVars
  <2>1. UNCHANGED <<output, wrote, taken, log, reader>> /\ (failed' = failed \/ reader = "running")
    BY <1>6 DEF CloseOutput, StopLog, LogTimeUp, GiveUpLog, targetLogVars
  <2>2. TakenUpTo' = TakenUpTo
    BY <2>1 DEF TakenUpTo
  <2>3. ASSUME NEW n \in Nat, WholeOf(n) PROVE WholeOf(n)'
    BY <2>1, <2>3 DEF WholeOf, WholeIn
  <2> QED
    BY <2>1, <2>2, <2>3 DEF LogInv
<1> QED
  BY <1>1, <1>2, <1>3, <1>4, <1>5, <1>6 DEF TargetLogNext, LogReader

(* What is on disk of a process's output is the start of all that it wrote *)
(* with every secret replaced, for every output, however it is read in     *)
(* chunks and wherever a limit or a deadline cuts it: of whole lines, and  *)
(* an unfinished one only at the end of what was written; it is all of it  *)
(* unless the record says otherwise (BoundedLog).                          *)
THEOREM LogFaithful == TargetLogSpec => []LogIsFaithful
<1>1. LogInv => LogIsFaithful
  <2> SUFFICES ASSUME LogInv PROVE LogIsFaithful
    OBVIOUS
  <2> DEFINE whole == Redacted(SubSeq(output, 1, wrote))
  <2>1. log.file \in Seq(Stored) /\ Len(log.file) <= LogLimit /\ (log.omitted > 0 => log.truncated)
    BY DEF LogInv, Starts, Logs
  <2>2. taken = wrote => Redacted(TakenUpTo) = whole
    BY DEF TakenUpTo
  <2>3. PICK rest \in Seq(Stored) : whole = log.file \o rest
    <3>1. CASE \E n \in Nat : WholeOf(n)
      BY <3>1, WholeStarts
    <3>2. CASE taken = wrote
      BY <2>2, <3>2 DEF LogInv, Starts
    <3> QED
      BY <3>1, <3>2 DEF LogInv
  <2>4. OfWholeLines \/ (reader = "closed" /\ taken = wrote)
    <3>1. ASSUME NEW n \in Nat, WholeOf(n) PROVE OfWholeLines
      <4>1. PICK more \in Seq(Stored) : Redacted(SubSeq(output, 1, n)) = log.file \o more
        BY <3>1 DEF WholeOf, WholeIn
      <4> DEFINE u == Redacted(SubSeq(output, 1, n))
      <4> HIDE DEF u
      <4>2. IsPrefix(log.file, u)
        BY <2>1, <4>1 DEF IsPrefix, u
      <4> QED
        BY <3>1, <4>2 DEF WholeOf, WholeIn, OfWholeLines, u
    <3> QED
      BY <3>1 DEF LogInv
  <2>5. reader = "closed" /\ ~log.truncated /\ ~failed => log.file = whole
    <3> SUFFICES ASSUME reader = "closed", ~log.truncated, ~failed PROVE log.file = whole
      OBVIOUS
    <3>1. Redacted(TakenUpTo) = log.file \o <<>> /\ taken = wrote
      BY DEF LogInv, Covers
    <3> HIDE DEF whole
    <3> QED
      BY <2>1, <2>2, <3>1
  <2> HIDE DEF whole
  <2>6. IsPrefix(log.file, whole)
    BY <2>1, <2>3 DEF IsPrefix
  <2> QED
    BY <2>1, <2>4, <2>5, <2>6 DEF LogIsFaithful, whole
<1> QED
  BY <1>1, LogStarts, LogKeeps, PTL DEF TargetLogSpec

-----------------------------------------------------------------------------
(* Keys between a terminal and the dashboard                               *)

Chars == {"esc", "[", "A", "1", "semi", "5", "~", "K", "e0", "00", "H", "?"}
KeyNames == {"up", "pgup", "escape", "[", "K", "H"}

\* f is the recursive function of Spelled, as far as m.
Adding(d, t, k) == d \o t[k]
Spells(f, t, s, m) == f[0] = <<>> /\ \A n \in 1..m : f[n] = Adding(f[n - 1], t, s[n])

LEMMA SpelledRuns ==
    ASSUME NEW t, NEW X, NEW s \in Seq(X)
    PROVE  \E f : Spells(f, t, s, Len(s)) /\ Spelled(t, s) = f[Len(s)]
<1> DEFINE L == Len(s)
           S == {m \in Nat : \E g : Spells(g, t, s, m)}
           Body(f, n) == IF n = 0 THEN <<>> ELSE Adding(f[n - 1], t, s[n])
<1>1. 0 \in S
  <2>1. Spells([n \in 0..0 |-> <<>>], t, s, 0)
    BY DEF Spells
  <2> QED
    BY <2>1
<1>2. ASSUME NEW m \in Nat, m \in S PROVE m + 1 \in S
  <2>1. PICK g : Spells(g, t, s, m)
    BY <1>2
  <2> DEFINE h == [n \in 0..m + 1 |-> IF n = m + 1 THEN Body(g, n) ELSE g[n]]
  <2>2. h[0] = <<>>
    BY <2>1 DEF Spells
  <2>3. \A n \in 1..m + 1 : h[n] = Adding(h[n - 1], t, s[n])
    <3> SUFFICES ASSUME NEW n \in 1..m + 1 PROVE h[n] = Adding(h[n - 1], t, s[n])
      OBVIOUS
    <3>1. n - 1 \in 0..m /\ h[n - 1] = g[n - 1]
      OBVIOUS
    <3>2. h[n] = IF n = m + 1 THEN Adding(g[n - 1], t, s[n]) ELSE g[n]
      OBVIOUS
    <3> HIDE DEF h
    <3> QED
      BY <2>1, <3>1, <3>2 DEF Spells
  <2> HIDE DEF h
  <2>4. Spells(h, t, s, m + 1)
    BY <2>2, <2>3 DEF Spells
  <2> QED
    BY <2>4
<1>3. L \in S
  <2> HIDE DEF S
  <2> QED
    BY <1>1, <1>2, Lists!Climb
<1>4. PICK g : Spells(g, t, s, L)
  BY <1>3
<1> DEFINE e == [n \in 0..L |-> g[n]]
           f == CHOOSE x : x = [n \in 0..L |-> Body(x, n)]
<1>5. e = [n \in 0..L |-> Body(e, n)]
  <2>1. \A n \in 0..L : e[n] = Body(e, n)
    BY <1>4 DEF Spells
  <2> QED
    BY <2>1
<1>6. f = [n \in 0..L |-> Body(f, n)]
  <2> HIDE DEF e
  <2> QED
    BY <1>5
<1>7. Spelled(t, s) = f[L]
  BY DEF Spelled, Adding
<1> HIDE DEF f
<1>8. Spells(f, t, s, L)
  <2>1. \A n \in 0..L : f[n] = Body(f, n)
    BY <1>6
  <2> QED
    BY <2>1 DEF Spells
<1> QED
  BY <1>7, <1>8

\* What is spelled grows with what is typed.
LEMMA SpelledNone ==
    ASSUME NEW t
    PROVE  Spelled(t, <<>>) = <<>>
<1>0. <<>> \in Seq(Nat)
  OBVIOUS
<1>1. PICK f : Spells(f, t, <<>>, Len(<<>>)) /\ Spelled(t, <<>>) = f[Len(<<>>)]
  BY <1>0, SpelledRuns
<1> QED
  BY <1>1 DEF Spells

LEMMA SpelledGrows ==
    ASSUME NEW K, NEW s \in Seq(K), NEW c \in K, NEW t
    PROVE  Spelled(t, Append(s, c)) = Adding(Spelled(t, s), t, c)
<1> DEFINE q == Append(s, c)
           L == Len(s)
<1>0. /\ <<>> \in Seq(K) /\ q \in Seq(K) /\ L \in Nat /\ Len(q) = L + 1 /\ q[L + 1] = c
      /\ \A n \in 1..L : q[n] = s[n]
  OBVIOUS
<1>2. PICK f : Spells(f, t, s, L) /\ Spelled(t, s) = f[L]
  BY SpelledRuns
<1> HIDE DEF q
<1>3. PICK g : Spells(g, t, q, L + 1) /\ Spelled(t, q) = g[L + 1]
  BY <1>0, SpelledRuns
<1> DEFINE S == {n \in Nat : n <= L => f[n] = g[n]}
<1> HIDE DEF L
<1>4. 0 \in S
  BY <1>2, <1>3 DEF Spells
<1>5. ASSUME NEW n \in Nat, n \in S PROVE n + 1 \in S
  <2> SUFFICES ASSUME n + 1 <= L PROVE f[n + 1] = g[n + 1]
    OBVIOUS
  <2>1. f[n] = g[n] /\ n + 1 \in 1..L /\ n + 1 \in 1..(L + 1) /\ (n + 1) - 1 = n
    BY <1>0, <1>5
  <2>2. f[n + 1] = Adding(f[n], t, s[n + 1]) /\ g[n + 1] = Adding(g[n], t, q[n + 1])
    BY <1>2, <1>3, <2>1 DEF Spells
  <2> QED
    BY <1>0, <2>1, <2>2
<1>6. f[L] = g[L]
  <2>1. L \in S
    <3> HIDE DEF S
    <3> QED
      BY <1>0, <1>4, <1>5, Lists!Climb
  <2> QED
    BY <2>1
<1>7. g[L + 1] = Adding(g[L], t, q[L + 1])
  <2>1. L + 1 \in 1..(L + 1) /\ (L + 1) - 1 = L
    BY <1>0
  <2> QED
    BY <1>3, <2>1 DEF Spells
<1> QED
  BY <1>0, <1>2, <1>3, <1>6, <1>7 DEF q

\* What some keys spell is what the first of them spell, and then the others.
SpelledIn(t, a, b, X) ==
    /\ Spelled(t, a) \in Seq(X) /\ Spelled(t, b) \in Seq(X)
    /\ Spelled(t, a \o b) = Spelled(t, a) \o Spelled(t, b)

LEMMA SpelledTyped ==
    ASSUME NEW K, NEW X, NEW t \in [K -> Seq(X)], NEW b \in Seq(K)
    PROVE  Spelled(t, b) \in Seq(X)
<1> DEFINE L == Len(b)
           S == {n \in Nat : n <= L => Spelled(t, SubSeq(b, 1, n)) \in Seq(X)}
<1>1. 0 \in S
  <2>1. SubSeq(b, 1, 0) = <<>>
    OBVIOUS
  <2>0. Spelled(t, <<>>) = <<>>
    BY SpelledNone, Zenon
  <2>4. <<>> \in Seq(X)
    OBVIOUS
  <2>2. Spelled(t, SubSeq(b, 1, 0)) = <<>> /\ <<>> \in Seq(X)
    BY <2>0, <2>1, <2>4, Zenon
  <2>3. Spelled(t, SubSeq(b, 1, 0)) \in Seq(X)
    BY <2>2, Zenon
  <2> QED
    BY <2>3
<1>2. ASSUME NEW n \in Nat, n \in S PROVE n + 1 \in S
  <2> SUFFICES ASSUME n + 1 <= L PROVE Spelled(t, SubSeq(b, 1, n + 1)) \in Seq(X)
    OBVIOUS
  <2> DEFINE a == SubSeq(b, 1, n)
             c == b[n + 1]
             u == Spelled(t, a)
  <2>1. a \in Seq(K) /\ c \in K /\ SubSeq(b, 1, n + 1) = Append(a, c)
    OBVIOUS
  <2>2. u \in Seq(X)
    BY <1>2
  <2> HIDE DEF a, c
  <2>3. Spelled(t, Append(a, c)) = Adding(u, t, c)
    BY <2>1, SpelledGrows
  <2> HIDE DEF u
  <2>4. Adding(u, t, c) \in Seq(X)
    BY <2>1, <2>2 DEF Adding
  <2> QED
    BY <2>1, <2>3, <2>4
<1>4. SubSeq(b, 1, L) = b /\ L \in Nat
  OBVIOUS
<1>3. L \in S
  <2> HIDE DEF S, L
  <2> QED
    BY <1>1, <1>2, <1>4, Lists!Climb
<1>5. Spelled(t, SubSeq(b, 1, L)) \in Seq(X)
  BY <1>3, <1>4
<1> QED
  BY <1>4, <1>5

LEMMA SpelledJoins ==
    ASSUME NEW K, NEW X, NEW t \in [K -> Seq(X)], NEW a \in Seq(K), NEW b \in Seq(K)
    PROVE  SpelledIn(t, a, b, X)
<1> DEFINE L == Len(b)
           P(n) == SpelledIn(t, a, SubSeq(b, 1, n), X)
           S == {n \in Nat : n <= L => P(n)}
<1>0. Spelled(t, a) \in Seq(X)
  BY SpelledTyped
<1>1. 0 \in S
  <2>1. SubSeq(b, 1, 0) = <<>> /\ a \o <<>> = a /\ <<>> \in Seq(X)
    OBVIOUS
  <2>2. Spelled(t, <<>>) = <<>>
    BY SpelledNone
  <2>3. Spelled(t, a) \o <<>> = Spelled(t, a)
    BY <1>0
  <2>4. P(0)
    BY <1>0, <2>1, <2>2, <2>3 DEF SpelledIn
  <2> HIDE DEF P
  <2> QED
    BY <2>4
<1>2. ASSUME NEW n \in Nat, n \in S PROVE n + 1 \in S
  <2> SUFFICES ASSUME n + 1 <= L PROVE P(n + 1)
    OBVIOUS
  <2> DEFINE q == SubSeq(b, 1, n)
             r == SubSeq(b, 1, n + 1)
             c == b[n + 1]
             u == Spelled(t, a)
             v == Spelled(t, q)
             w == t[c]
  <2>1. q \in Seq(K) /\ r \in Seq(K) /\ c \in K /\ r = Append(q, c) /\ w \in Seq(X)
    OBVIOUS
  <2>2. SpelledIn(t, a, q, X)
    BY <1>2
  <2> HIDE DEF q, r, c
  <2>3. Appends(a, q, c) /\ a \o q \in Seq(K)
    BY <2>1, Appended
  <2>4. Spelled(t, Append(a \o q, c)) = Adding(Spelled(t, a \o q), t, c) /\ Spelled(t, Append(q, c)) = Adding(v, t, c)
    BY <2>1, <2>3, SpelledGrows
  <2>5. u \in Seq(X) /\ v \in Seq(X) /\ Spelled(t, a \o q) = u \o v
    BY <2>2 DEF SpelledIn
  <2> HIDE DEF u, v, w
  <2>6. Associates(u, v, w) /\ v \o w \in Seq(X)
    BY <2>1, <2>5, Associative
  <2>7. Spelled(t, a \o r) = u \o (v \o w)
    <3>1. a \o r = Append(a \o q, c)
      BY <2>1, <2>3 DEF Appends
    <3> QED
      BY <2>4, <2>5, <2>6, <3>1, Zenon DEF Adding, Associates, w
  <2>8. Spelled(t, r) = v \o w
    BY <2>1, <2>4, Zenon DEF Adding, w
  <2>9. SpelledIn(t, a, r, X)
    BY <2>5, <2>6, <2>7, <2>8, Zenon DEF SpelledIn, u
  <2> QED
    BY <2>9 DEF r
<1>4. SubSeq(b, 1, L) = b /\ L \in Nat
  OBVIOUS
<1>3. L \in S
  <2> HIDE DEF S, L
  <2> QED
    BY <1>1, <1>2, <1>4, Lists!Climb
<1>5. P(L)
  BY <1>3, <1>4
<1> QED
  BY <1>4, <1>5

\* Two ways to cut one list in two: one first part begins the other.
Begins(p, s, X) == \E z \in Seq(X) : s = p \o z /\ z # <<>>
Follows(p, s, y, t, X) == \E z \in Seq(X) : p = s \o z /\ z \o y = t

Cuts(p, y, s, t) == p \o y = s \o t

LEMMA TwoCuts ==
    ASSUME NEW X, NEW p \in Seq(X), NEW y \in Seq(X), NEW s \in Seq(X), NEW t \in Seq(X), Cuts(p, y, s, t)
    PROVE  Begins(p, s, X) \/ Follows(p, s, y, t, X)
<1> DEFINE m == p \o y
           i == Len(p)
           j == Len(s)
           k == Len(y)
           l == Len(t)
<1>1. i \in Nat /\ j \in Nat /\ k \in Nat /\ l \in Nat
  OBVIOUS
<1>2. Len(m) = i + k /\ \A n \in 1..(i + k) : m[n] = IF n <= i THEN p[n] ELSE y[n - i]
  OBVIOUS
<1>3. Len(m) = j + l /\ \A n \in 1..(j + l) : m[n] = IF n <= j THEN s[n] ELSE t[n - j]
  <2>1. Len(s \o t) = j + l /\ \A n \in 1..(j + l) : (s \o t)[n] = IF n <= j THEN s[n] ELSE t[n - j]
    OBVIOUS
  <2> QED
    BY <2>1, Zenon DEF Cuts
<1> HIDE DEF m
<1>4. i + k = j + l
  BY <1>2, <1>3
<1>5. CASE i < j
  <2> DEFINE z == SubSeq(s, i + 1, j)
             v == p \o z
  <2>1. z \in Seq(X) /\ Len(z) = j - i /\ \A n \in 1..(j - i) : z[n] = s[i + n]
    BY <1>1, <1>5
  <2> HIDE DEF z
  <2>2. v \in Seq(X) /\ Len(v) = j /\ \A n \in 1..j : v[n] = IF n <= i THEN p[n] ELSE z[n - i]
    BY <1>1, <1>5, <2>1
  <2> HIDE DEF v, i, j, k, l
  <2>3. ASSUME NEW n \in 1..j PROVE s[n] = v[n]
    <3>1. n \in 1..(i + k) /\ n \in 1..(j + l) /\ n <= j
      BY <1>1, <1>4
    <3>2. s[n] = m[n]
      BY <1>3, <3>1
    <3>3. CASE n <= i
      BY <1>2, <2>2, <3>1, <3>2, <3>3
    <3>4. CASE ~(n <= i)
      <4>1. n - i \in 1..(j - i) /\ i + (n - i) = n
        BY <1>1, <3>1, <3>4
      <4> QED
        BY <2>1, <2>2, <3>4, <4>1
    <3> QED
      BY <3>3, <3>4
  <2>4. s = v
    <3>1. Len(s) = Len(v) /\ \A n \in 1..Len(s) : s[n] = v[n]
      BY <2>2, <2>3 DEF j
    <3> QED
      BY <2>2, <3>1, SeqEqual
  <2>5. z # <<>>
    BY <1>1, <1>5, <2>1
  <2>6. s = p \o z
    BY <2>4 DEF v
  <2> QED
    BY <2>1, <2>5, <2>6, Zenon DEF Begins
<1>6. CASE ~(i < j)
  <2> DEFINE z == SubSeq(p, j + 1, i)
             v == s \o z
             w == z \o y
  <2>1. z \in Seq(X) /\ Len(z) = i - j /\ \A n \in 1..(i - j) : z[n] = p[j + n]
    BY <1>1, <1>6
  <2> HIDE DEF z
  <2>2. v \in Seq(X) /\ Len(v) = i /\ \A n \in 1..i : v[n] = IF n <= j THEN s[n] ELSE z[n - j]
    BY <1>1, <1>6, <2>1
  <2>3. w \in Seq(X) /\ Len(w) = (i - j) + k /\ \A n \in 1..((i - j) + k) : w[n] = IF n <= i - j THEN z[n] ELSE y[n - (i - j)]
    <3>1. w \in Seq(X) /\ Len(w) = Len(z) + k /\ \A n \in 1..(Len(z) + k) : w[n] = IF n <= Len(z) THEN z[n] ELSE y[n - Len(z)]
      BY <2>1, ConcatProperties
    <3> HIDE DEF w, i, j, k
    <3> QED
      BY <2>1, <3>1
  <2>0. (i - j) + k = l
    BY <1>1, <1>4
  <2> HIDE DEF v, w, i, j, k, l
  <2>4. ASSUME NEW n \in 1..i PROVE p[n] = v[n]
    <3>1. n \in 1..(i + k) /\ n \in 1..(j + l) /\ n <= i
      BY <1>1, <1>4
    <3>2. p[n] = m[n]
      BY <1>2, <3>1
    <3>3. CASE n <= j
      BY <1>3, <2>2, <3>1, <3>2, <3>3
    <3>4. CASE ~(n <= j)
      <4>1. n - j \in 1..(i - j) /\ j + (n - j) = n
        BY <1>1, <3>1, <3>4
      <4> QED
        BY <2>1, <2>2, <3>4, <4>1
    <3> QED
      BY <3>3, <3>4
  <2>5. p = v
    <3>1. Len(p) = Len(v) /\ \A n \in 1..Len(p) : p[n] = v[n]
      BY <2>2, <2>4 DEF i
    <3> QED
      BY <2>2, <3>1, SeqEqual
  <2>6. ASSUME NEW n \in 1..l PROVE w[n] = t[n]
    <3>1. j + n \in 1..(j + l) /\ j + n \in 1..(i + k) /\ ~(j + n <= j) /\ (j + n) - j = n /\ n \in 1..((i - j) + k)
      BY <1>1, <1>4, <2>0
    <3>2. t[n] = m[j + n]
      BY <1>3, <3>1
    <3>3. CASE n <= i - j
      <4>1. n \in 1..(i - j) /\ j + n <= i
        BY <1>1, <3>3
      <4> QED
        BY <1>2, <2>1, <2>3, <3>1, <3>2, <3>3, <4>1
    <3>4. CASE ~(n <= i - j)
      <4>1. ~(j + n <= i) /\ (j + n) - i = n - (i - j)
        BY <1>1, <3>4
      <4> QED
        BY <1>2, <2>3, <3>1, <3>2, <3>4, <4>1
    <3> QED
      BY <3>3, <3>4
  <2>7. w = t
    <3>1. Len(w) = Len(t) /\ \A n \in 1..Len(w) : w[n] = t[n]
      BY <2>0, <2>3, <2>6 DEF l
    <3> QED
      BY <2>3, <3>1, SeqEqual
  <2>8. p = s \o z /\ z \o y = t
    BY <2>5, <2>7 DEF v, w
  <2> QED
    BY <2>1, <2>8, Zenon DEF Follows
<1> QED
  BY <1>5, <1>6

LEMMA Cancels ==
    ASSUME NEW X, NEW p \in Seq(X), NEW y \in Seq(X), NEW t \in Seq(X), Cuts(p, y, p, t)
    PROVE  y = t
<1>1. ASSUME NEW z \in Seq(X), p = p \o z PROVE z = <<>>
  BY <1>1, ConcatSimplifications
<1>2. CASE Begins(p, p, X)
  BY <1>1, <1>2, Zenon DEF Begins
<1>3. CASE Follows(p, p, y, t, X)
  <2>1. PICK z \in Seq(X) : p = p \o z /\ z \o y = t
    BY <1>3, Zenon DEF Follows
  <2>2. z = <<>>
    BY <1>1, <2>1, Zenon
  <2>3. <<>> \o y = y
    OBVIOUS
  <2> QED
    BY <2>1, <2>2, <2>3, Zenon
<1> QED
  BY <1>2, <1>3, TwoCuts

Names == WindowsKeys \cup PosixKeys

LEMMA Rows ==
    /\ PosixSends["Up"] = <<"esc", "[", "A">>
    /\ PosixSends["Ctrl+Up"] = <<"esc", "[", "1", "semi", "5", "A">>
    /\ PosixSends["PgUp"] = <<"esc", "[", "5", "~">>
    /\ PosixSends["F5"] = <<"esc", "[", "1", "5", "~">>
    /\ PosixSends["Esc"] = <<"esc">>
    /\ PosixSends["["] = <<"[">>
    /\ PosixSends["K"] = <<"K">>
    /\ WindowsSends["Up"] = <<"e0", "H">>
    /\ WindowsSends["F5"] = <<"00", "?">>
    /\ WindowsSends["a-grave"] = <<"e0">>
    /\ WindowsSends["H"] = <<"H">>
    /\ WindowsSends["Esc"] = <<"esc">>
    /\ Means["Up"] = <<"up">>
    /\ Means["Ctrl+Up"] = <<"up">>
    /\ Means["PgUp"] = <<"pgup">>
    /\ Means["F5"] = <<>>
    /\ Means["a-grave"] = <<>>
    /\ Means["Esc"] = <<"escape">>
    /\ Means["["] = <<"[">>
    /\ Means["K"] = <<"K">>
    /\ Means["H"] = <<"H">>
<1>1. PosixSends["Up"] = <<"esc", "[", "A">>
  BY DEF PosixSends, WindowsKeys, PosixKeys
<1>2. PosixSends["Ctrl+Up"] = <<"esc", "[", "1", "semi", "5", "A">>
  BY DEF PosixSends, WindowsKeys, PosixKeys
<1>3. PosixSends["PgUp"] = <<"esc", "[", "5", "~">>
  BY DEF PosixSends, WindowsKeys, PosixKeys
<1>4. PosixSends["F5"] = <<"esc", "[", "1", "5", "~">>
  BY DEF PosixSends, WindowsKeys, PosixKeys
<1>5. PosixSends["Esc"] = <<"esc">>
  BY DEF PosixSends, WindowsKeys, PosixKeys
<1>6. PosixSends["["] = <<"[">>
  BY DEF PosixSends, WindowsKeys, PosixKeys
<1>7. PosixSends["K"] = <<"K">>
  BY DEF PosixSends, WindowsKeys, PosixKeys
<1>8. WindowsSends["Up"] = <<"e0", "H">>
  BY DEF WindowsSends, WindowsKeys, PosixKeys
<1>9. WindowsSends["F5"] = <<"00", "?">>
  BY DEF WindowsSends, WindowsKeys, PosixKeys
<1>10. WindowsSends["a-grave"] = <<"e0">>
  BY DEF WindowsSends, WindowsKeys, PosixKeys
<1>11. WindowsSends["H"] = <<"H">>
  BY DEF WindowsSends, WindowsKeys, PosixKeys
<1>12. WindowsSends["Esc"] = <<"esc">>
  BY DEF WindowsSends, WindowsKeys, PosixKeys
<1>13. Means["Up"] = <<"up">>
  BY DEF Means, WindowsKeys, PosixKeys
<1>14. Means["Ctrl+Up"] = <<"up">>
  BY DEF Means, WindowsKeys, PosixKeys
<1>15. Means["PgUp"] = <<"pgup">>
  BY DEF Means, WindowsKeys, PosixKeys
<1>16. Means["F5"] = <<>>
  BY DEF Means, WindowsKeys, PosixKeys
<1>17. Means["a-grave"] = <<>>
  BY DEF Means, WindowsKeys, PosixKeys
<1>18. Means["Esc"] = <<"escape">>
  BY DEF Means, WindowsKeys, PosixKeys
<1>19. Means["["] = <<"[">>
  BY DEF Means, WindowsKeys, PosixKeys
<1>20. Means["K"] = <<"K">>
  BY DEF Means, WindowsKeys, PosixKeys
<1>21. Means["H"] = <<"H">>
  BY DEF Means, WindowsKeys, PosixKeys
<1> QED
  BY <1>1, <1>2, <1>3, <1>4, <1>5, <1>6, <1>7, <1>8, <1>9, <1>10, <1>11, <1>12, <1>13, <1>14, <1>15, <1>16, <1>17, <1>18, <1>19, <1>20, <1>21

LEMMA Tables ==
    /\ PosixSends \in [PosixKeys -> Seq(Chars)] /\ WindowsSends \in [WindowsKeys -> Seq(Chars)]
    /\ Means \in [Names -> Seq(KeyNames)]
<1>1. ASSUME NEW k \in PosixKeys PROVE PosixSends[k] \in Seq(Chars)
  <2>1. <<"esc", "[", "A">> \in Seq(Chars)
    BY DEF Chars
  <2>2. <<"esc", "[", "1", "semi", "5", "A">> \in Seq(Chars)
    BY DEF Chars
  <2>3. <<"esc", "[", "5", "~">> \in Seq(Chars)
    BY DEF Chars
  <2>4. <<"esc", "[", "1", "5", "~">> \in Seq(Chars)
    BY DEF Chars
  <2>5. <<"esc">> \in Seq(Chars)
    BY DEF Chars
  <2>6. <<"[">> \in Seq(Chars)
    BY DEF Chars
  <2>7. <<"K">> \in Seq(Chars)
    BY DEF Chars
  <2> QED
    BY Rows, <2>1, <2>2, <2>3, <2>4, <2>5, <2>6, <2>7 DEF WindowsKeys, PosixKeys, Names
<1>2. ASSUME NEW k \in WindowsKeys PROVE WindowsSends[k] \in Seq(Chars)
  <2>1. <<"e0", "H">> \in Seq(Chars)
    BY DEF Chars
  <2>2. <<"00", "?">> \in Seq(Chars)
    BY DEF Chars
  <2>3. <<"e0">> \in Seq(Chars)
    BY DEF Chars
  <2>4. <<"H">> \in Seq(Chars)
    BY DEF Chars
  <2>5. <<"esc">> \in Seq(Chars)
    BY DEF Chars
  <2> QED
    BY Rows, <2>1, <2>2, <2>3, <2>4, <2>5 DEF WindowsKeys, PosixKeys, Names
<1>3. ASSUME NEW k \in Names PROVE Means[k] \in Seq(KeyNames)
  <2>1. <<"up">> \in Seq(KeyNames)
    BY DEF KeyNames
  <2>2. <<"pgup">> \in Seq(KeyNames)
    BY DEF KeyNames
  <2>3. <<>> \in Seq(KeyNames)
    BY DEF KeyNames
  <2>4. <<"escape">> \in Seq(KeyNames)
    BY DEF KeyNames
  <2>5. <<"[">> \in Seq(KeyNames)
    BY DEF KeyNames
  <2>6. <<"K">> \in Seq(KeyNames)
    BY DEF KeyNames
  <2>7. <<"H">> \in Seq(KeyNames)
    BY DEF KeyNames
  <2> QED
    BY Rows, <2>1, <2>2, <2>3, <2>4, <2>5, <2>6, <2>7 DEF WindowsKeys, PosixKeys, Names
<1>4. PosixSends \in [PosixKeys -> Seq(Chars)]
  BY <1>1 DEF PosixSends
<1>5. WindowsSends \in [WindowsKeys -> Seq(Chars)]
  BY <1>2 DEF WindowsSends
<1>6. Means \in [Names -> Seq(KeyNames)]
  BY <1>3 DEF Means, Names
<1> QED
  BY <1>4, <1>5, <1>6

\* A key of several characters: it starts like no other, has its parameters
\* and then what names it.
Starting(x, s) == Len(x) >= Len(s) /\ \A i \in 1..Len(s) : x[i] = s[i]
Sequence(s, names) ==
    /\ Len(s) \in 3..6 /\ s[1] = "esc" /\ s[2] = "["
    /\ \A i \in 3..Len(s) - 1 : s[i] \in Parameters
    /\ s[Len(s)] \notin Parameters
    /\ \A x : Starting(x, s) => Named(x, Len(s)) = names

LongKeys == {"Up", "Ctrl+Up", "PgUp", "F5"}

LEMMA LongKey ==
    ASSUME NEW k \in LongKeys
    PROVE  k \in PosixKeys /\ Sequence(PosixSends[k], Means[k])
<1> DEFINE s == PosixSends[k]
<1>1. CASE k = "Up"
  <2>1. s = <<"esc", "[", "A">> /\ Means[k] = <<"up">> /\ k \in PosixKeys
    BY <1>1, Rows DEF PosixKeys
  <2> HIDE DEF s
  <2>2. Len(s) = 3 /\ s[1] = "esc" /\ s[2] = "[" /\ s[3] = "A"
    BY <2>1
  <2>3. ASSUME NEW x, Starting(x, s) PROVE Named(x, 3) = <<"up">>
    <3>1. x[3] = s[3] /\ x[3] = s[3]
      BY <2>2, <2>3 DEF Starting
    <3> QED
      BY <2>2, <3>1 DEF Named, Finals, Tildes
  <2>4. \A i \in 3..2 : s[i] \in Parameters
    OBVIOUS
  <2>5. s[3] \notin Parameters
    BY <2>2 DEF Parameters
  <2>6. Sequence(s, <<"up">>)
    BY <2>2, <2>3, <2>4, <2>5 DEF Sequence
  <2> QED
    BY <2>1, <2>6 DEF s
<1>2. CASE k = "Ctrl+Up"
  <2>1. s = <<"esc", "[", "1", "semi", "5", "A">> /\ Means[k] = <<"up">> /\ k \in PosixKeys
    BY <1>2, Rows DEF PosixKeys
  <2> HIDE DEF s
  <2>2. Len(s) = 6 /\ s[1] = "esc" /\ s[2] = "[" /\ s[3] = "1" /\ s[4] = "semi" /\ s[5] = "5" /\ s[6] = "A"
    BY <2>1
  <2>3. ASSUME NEW x, Starting(x, s) PROVE Named(x, 6) = <<"up">>
    <3>1. x[3] = s[3] /\ x[6] = s[6]
      BY <2>2, <2>3 DEF Starting
    <3> QED
      BY <2>2, <3>1 DEF Named, Finals, Tildes
  <2>4. \A i \in 3..5 : s[i] \in Parameters
    <3>1. \A i \in 3..5 : i = 3 \/ i = 4 \/ i = 5
      OBVIOUS
    <3> QED
      BY <2>2, <3>1 DEF Parameters
  <2>5. s[6] \notin Parameters
    BY <2>2 DEF Parameters
  <2>6. Sequence(s, <<"up">>)
    BY <2>2, <2>3, <2>4, <2>5 DEF Sequence
  <2> QED
    BY <2>1, <2>6 DEF s
<1>3. CASE k = "PgUp"
  <2>1. s = <<"esc", "[", "5", "~">> /\ Means[k] = <<"pgup">> /\ k \in PosixKeys
    BY <1>3, Rows DEF PosixKeys
  <2> HIDE DEF s
  <2>2. Len(s) = 4 /\ s[1] = "esc" /\ s[2] = "[" /\ s[3] = "5" /\ s[4] = "~"
    BY <2>1
  <2>3. ASSUME NEW x, Starting(x, s) PROVE Named(x, 4) = <<"pgup">>
    <3>1. x[3] = s[3] /\ x[4] = s[4]
      BY <2>2, <2>3 DEF Starting
    <3> QED
      BY <2>2, <3>1 DEF Named, Finals, Tildes
  <2>4. \A i \in 3..3 : s[i] \in Parameters
    <3>1. \A i \in 3..3 : i = 3
      OBVIOUS
    <3> QED
      BY <2>2, <3>1 DEF Parameters
  <2>5. s[4] \notin Parameters
    BY <2>2 DEF Parameters
  <2>6. Sequence(s, <<"pgup">>)
    BY <2>2, <2>3, <2>4, <2>5 DEF Sequence
  <2> QED
    BY <2>1, <2>6 DEF s
<1>4. CASE k = "F5"
  <2>1. s = <<"esc", "[", "1", "5", "~">> /\ Means[k] = <<>> /\ k \in PosixKeys
    BY <1>4, Rows DEF PosixKeys
  <2> HIDE DEF s
  <2>2. Len(s) = 5 /\ s[1] = "esc" /\ s[2] = "[" /\ s[3] = "1" /\ s[4] = "5" /\ s[5] = "~"
    BY <2>1
  <2>3. ASSUME NEW x, Starting(x, s) PROVE Named(x, 5) = <<>>
    <3>1. x[3] = s[3] /\ x[5] = s[5]
      BY <2>2, <2>3 DEF Starting
    <3> QED
      BY <2>2, <3>1 DEF Named, Finals, Tildes
  <2>4. \A i \in 3..4 : s[i] \in Parameters
    <3>1. \A i \in 3..4 : i = 3 \/ i = 4
      OBVIOUS
    <3> QED
      BY <2>2, <3>1 DEF Parameters
  <2>5. s[5] \notin Parameters
    BY <2>2 DEF Parameters
  <2>6. Sequence(s, <<>>)
    BY <2>2, <2>3, <2>4, <2>5 DEF Sequence
  <2> QED
    BY <2>1, <2>6 DEF s
<1> QED
  BY <1>1, <1>2, <1>3, <1>4 DEF LongKeys

LEMMA ShortKey ==
    PosixKeys = LongKeys \cup {"Esc", "[", "K"}
BY DEF PosixKeys, LongKeys

\* The first character that is no parameter.
EndsOf(x) == {i \in 3..Len(x) : x[i] \notin Parameters}
End(x) == CHOOSE i \in EndsOf(x) : \A j \in EndsOf(x) : i <= j

LEMMA EndOf ==
    ASSUME NEW x \in Seq(Chars), EndsOf(x) # {}
    PROVE  End(x) \in 3..Len(x) /\ End(x) \in EndsOf(x) /\ \A j \in EndsOf(x) : End(x) <= j
<1>1. EndsOf(x) \in SUBSET Nat /\ EndsOf(x) \subseteq 3..Len(x)
  BY DEF EndsOf
<1>2. PICK k : k \in EndsOf(x)
  OBVIOUS
<1> DEFINE T == EndsOf(x)
           S == {n \in Nat : \A i \in 0..n : i \notin T}
<1>3. PICK m \in T : \A j \in T : m <= j
  <2> SUFFICES ASSUME \A m \in T : \E j \in T : ~(m <= j) PROVE FALSE
    OBVIOUS
  <2> HIDE DEF T
  <2>1. 0 \in S
    <3>1. 0 \notin T
      BY <1>1 DEF T
    <3> QED
      BY <3>1
  <2>2. ASSUME NEW n \in Nat, n \in S PROVE n + 1 \in S
    <3>1. n + 1 \notin T
      <4> SUFFICES ASSUME n + 1 \in T PROVE FALSE
        OBVIOUS
      <4>1. PICK j \in T : ~(n + 1 <= j)
        OBVIOUS
      <4>2. j \in 0..n
        BY <1>1, <4>1 DEF T
      <4> QED
        BY <2>2, <4>2
    <3> QED
      BY <2>2, <3>1
  <2>3. Nat \subseteq S
    <3> HIDE DEF S
    <3> QED
      BY <2>1, <2>2, Lists!Climb
  <2>4. k \in Nat /\ k \in 0..k /\ k \in T
    BY <1>1, <1>2 DEF T
  <2> QED
    BY <2>3, <2>4
<1>4. End(x) \in EndsOf(x) /\ \A j \in EndsOf(x) : End(x) <= j
  BY <1>3 DEF End
<1> QED
  BY <1>1, <1>4

\* What is decoded of some characters depends on what is decoded of fewer.
LEMMA Agrees ==
    ASSUME NEW x \in Seq(Chars), NEW final, NEW f, NEW g, \A j \in 0..Len(x) - 1 : f[j] = g[j]
    PROVE  Decode(f, x, final) = Decode(g, x, final)
<1> DEFINE L == Len(x)
<1>0. L \in Nat /\ (x # <<>> => L - 1 \in 0..L - 1)
  OBVIOUS
<1>1. EndsOf(x) # {} => L - End(x) \in 0..L - 1
  <2> SUFFICES ASSUME EndsOf(x) # {} PROVE L - End(x) \in 0..L - 1
    OBVIOUS
  <2>1. End(x) \in 3..L
    BY EndOf
  <2> HIDE DEF L
  <2> QED
    BY <1>0, <2>1
<1> DEFINE Kept == [keys |-> <<>>, rest |-> IF final THEN <<>> ELSE x]
           From(near, far) ==
                IF x = <<>> THEN [keys |-> <<>>, rest |-> <<>>]
                ELSE IF x[1] # "esc" THEN [near EXCEPT !.keys = DecodePlain(x[1]) \o @]
                ELSE IF L = 1 THEN IF final THEN [keys |-> <<"escape">>, rest |-> <<>>] ELSE Kept
                ELSE IF x[2] \notin {"[", "O"} THEN [near EXCEPT !.keys = <<"escape">> \o @]
                ELSE IF EndsOf(x) = {} THEN Kept
                ELSE [far EXCEPT !.keys = Named(x, End(x)) \o @]
           Near(h) == IF x = <<>> THEN <<>> ELSE h[L - 1]
           Far(h) == IF EndsOf(x) = {} THEN <<>> ELSE h[L - End(x)]
<1>2. Near(f) = Near(g)
  BY <1>0
<1>3. Far(f) = Far(g)
  BY <1>1
<1>4. ASSUME NEW h PROVE Decode(h, x, final) = From(Near(h), Far(h))
  <2>1. CASE x = <<>>
    BY <2>1, Zenon DEF Decode
  <2>2. CASE x # <<>> /\ EndsOf(x) = {}
    <3>1. Near(h) = h[L - 1]
      BY <2>2, Zenon
    <3> QED
      BY <2>2, <3>1, Zenon DEF Decode, EndsOf
  <2>3. CASE x # <<>> /\ EndsOf(x) # {}
    <3>1. Near(h) = h[L - 1] /\ Far(h) = h[L - End(x)]
      BY <2>3, Zenon
    <3>2. CASE x[1] # "esc" \/ L = 1
      BY <2>3, <3>1, <3>2, Zenon DEF Decode
    <3>3. CASE x[1] = "esc" /\ L # 1 /\ x[2] \notin {"[", "O"}
      BY <2>3, <3>1, <3>3, Zenon DEF Decode
    <3>4. CASE x[1] = "esc" /\ L # 1 /\ x[2] \in {"[", "O"}
      <4>1. From(Near(h), Far(h)) = [h[L - End(x)] EXCEPT !.keys = Named(x, End(x)) \o @]
        BY <2>3, <3>1, <3>4, Zenon
      <4>2. Decode(h, x, final) = [h[L - End(x)] EXCEPT !.keys = Named(x, End(x)) \o @]
        BY <2>3, <3>4, Zenon DEF Decode, EndsOf, End
      <4> QED
        BY <4>1, <4>2, Zenon
    <3> QED
      BY <3>2, <3>3, <3>4, Zenon
  <2> QED
    BY <2>1, <2>2, <2>3, Zenon
<1> HIDE DEF L, From, Near, Far
<1> QED
  BY <1>2, <1>3, <1>4, Zenon

LastOf(s, n) == SubSeq(s, Len(s) - n + 1, Len(s))

LEMMA Lasts ==
    ASSUME NEW X, NEW s \in Seq(X), NEW n \in 0..Len(s)
    PROVE  LastOf(s, n) \in Seq(X) /\ Len(LastOf(s, n)) = n /\ \A i \in 1..n : LastOf(s, n)[i] = s[Len(s) - n + i]
BY DEF LastOf

\* f is the recursive function of DecodeAnsi, as far as the last m characters.
Decodes(f, data, final, m) == \A n \in 0..m : f[n] = Decode(f, LastOf(data, n), final)

LEMMA DecodedRuns ==
    ASSUME NEW data \in Seq(Chars), NEW final
    PROVE  \E f : Decodes(f, data, final, Len(data)) /\ DecodeAnsi(data, final) = f[Len(data)]
<1> DEFINE L == Len(data)
           S == {m \in Nat : m <= L => \E g : Decodes(g, data, final, m)}
<1>0. L \in Nat
  OBVIOUS
<1>a. ASSUME NEW n \in 0..L, NEW f, NEW g, \A j \in 0..n - 1 : f[j] = g[j]
      PROVE  Decode(f, LastOf(data, n), final) = Decode(g, LastOf(data, n), final)
  <2>1. LastOf(data, n) \in Seq(Chars) /\ Len(LastOf(data, n)) = n
    BY Lasts
  <2> QED
    BY <1>a, <2>1, Agrees
<1>1. 0 \in S
  <2> DEFINE g == [n \in 0..0 |-> Decode(<<>>, LastOf(data, n), final)]
  <2>1. ASSUME NEW n \in 0..0 PROVE g[n] = Decode(g, LastOf(data, n), final)
    <3>1. g[n] = Decode(<<>>, LastOf(data, n), final)
      OBVIOUS
    <3>2. \A j \in 0..n - 1 : g[j] = <<>>[j]
      OBVIOUS
    <3>3. n \in 0..L
      BY <1>0
    <3> HIDE DEF g, L
    <3> QED
      BY <1>a, <3>1, <3>2, <3>3
  <2> HIDE DEF g
  <2>2. Decodes(g, data, final, 0)
    BY <2>1 DEF Decodes
  <2> QED
    BY <2>2
<1>2. ASSUME NEW m \in Nat, m \in S PROVE m + 1 \in S
  <2> SUFFICES ASSUME m + 1 <= L PROVE \E g : Decodes(g, data, final, m + 1)
    OBVIOUS
  <2> HIDE DEF L
  <2>1. PICK g : Decodes(g, data, final, m)
    BY <1>0, <1>2
  <2> DEFINE v == Decode(g, LastOf(data, m + 1), final)
             h == [n \in 0..m + 1 |-> IF n = m + 1 THEN v ELSE g[n]]
  <2>2. h[m + 1] = v /\ \A n \in 0..m : h[n] = g[n]
    OBVIOUS
  <2> HIDE DEF h
  <2>3. ASSUME NEW n \in 0..m + 1 PROVE h[n] = Decode(h, LastOf(data, n), final)
    <3>1. n \in 0..L /\ \A j \in 0..n - 1 : h[j] = g[j]
      BY <1>0, <2>2
    <3>2. Decode(h, LastOf(data, n), final) = Decode(g, LastOf(data, n), final)
      BY <1>a, <3>1
    <3>3. CASE n = m + 1
      BY <2>2, <3>2, <3>3
    <3>4. CASE n # m + 1
      <4>1. n \in 0..m
        BY <3>4
      <4> HIDE DEF v
      <4> QED
        BY <2>1, <2>2, <3>2, <4>1 DEF Decodes
    <3> QED
      BY <3>3, <3>4
  <2> QED
    BY <2>3 DEF Decodes
<1>3. L \in S
  <2> HIDE DEF S, L
  <2> QED
    BY <1>0, <1>1, <1>2, Lists!Climb
<1>4. PICK g : Decodes(g, data, final, L)
  BY <1>0, <1>3
<1> DEFINE e == [n \in 0..L |-> g[n]]
           f == CHOOSE x : x = [n \in 0..L |-> Decode(x, SubSeq(data, L - n + 1, L), final)]
<1>5. e = [n \in 0..L |-> Decode(e, SubSeq(data, L - n + 1, L), final)]
  <2>1. ASSUME NEW n \in 0..L PROVE e[n] = Decode(e, LastOf(data, n), final)
    <3>1. e[n] = g[n] /\ \A j \in 0..n - 1 : e[j] = g[j]
      BY <1>0
    <3>2. g[n] = Decode(g, LastOf(data, n), final)
      BY <1>4 DEF Decodes
    <3> HIDE DEF e, L
    <3>3. Decode(e, LastOf(data, n), final) = Decode(g, LastOf(data, n), final)
      BY <1>a, <3>1
    <3> QED
      BY <3>1, <3>2, <3>3
  <2>2. \A n \in 0..L : g[n] = Decode(e, SubSeq(data, L - n + 1, L), final)
    <3> SUFFICES ASSUME NEW n \in 0..L PROVE g[n] = Decode(e, SubSeq(data, L - n + 1, L), final)
      OBVIOUS
    <3>1. e[n] = g[n]
      OBVIOUS
    <3>2. SubSeq(data, L - n + 1, L) = LastOf(data, n)
      BY DEF LastOf
    <3> HIDE DEF e, L
    <3> QED
      BY <2>1, <3>1, <3>2
  <2> DEFINE d(n) == Decode(e, SubSeq(data, L - n + 1, L), final)
  <2>3. \A n \in 0..L : g[n] = d(n)
    BY <2>2
  <2> HIDE DEF d
  <2>4. [n \in 0..L |-> g[n]] = [n \in 0..L |-> d(n)]
    BY <2>3
  <2> QED
    BY <2>4, Zenon DEF d
<1>6. f = [n \in 0..L |-> Decode(f, SubSeq(data, L - n + 1, L), final)]
  <2> HIDE DEF e
  <2> QED
    BY <1>5
<1>7. DecodeAnsi(data, final) = f[L]
  BY DEF DecodeAnsi
<1> HIDE DEF f
<1>8. Decodes(f, data, final, L)
  <2>1. \A n \in 0..L : f[n] = Decode(f, SubSeq(data, L - n + 1, L), final)
    BY <1>6
  <2> QED
    BY <2>1 DEF Decodes, LastOf
<1> QED
  BY <1>7, <1>8

\* What d says, after some names.
After(names, d) == [d EXCEPT !.keys = names \o @]
Nothing(x) == [keys |-> <<>>, rest |-> x]

LEMMA DecodeCases ==
    ASSUME NEW x, x # <<>>, NEW f
    PROVE  /\ x[1] # "esc" => Decode(f, x, FALSE) = After(DecodePlain(x[1]), f[Len(x) - 1])
           /\ x[1] = "esc" /\ Len(x) = 1 => Decode(f, x, FALSE) = Nothing(x)
           /\ x[1] = "esc" /\ Len(x) # 1 /\ x[2] \notin {"[", "O"} => Decode(f, x, FALSE) = After(<<"escape">>, f[Len(x) - 1])
           /\ x[1] = "esc" /\ Len(x) # 1 /\ x[2] \in {"[", "O"} /\ EndsOf(x) = {} => Decode(f, x, FALSE) = Nothing(x)
           /\ x[1] = "esc" /\ Len(x) # 1 /\ x[2] \in {"[", "O"} /\ EndsOf(x) # {}
              => Decode(f, x, FALSE) = After(Named(x, End(x)), f[Len(x) - End(x)])
<1>1. x[1] # "esc" => Decode(f, x, FALSE) = After(DecodePlain(x[1]), f[Len(x) - 1])
  BY Zenon DEF Decode, After
<1>2. x[1] = "esc" /\ Len(x) = 1 => Decode(f, x, FALSE) = Nothing(x)
  BY Zenon DEF Decode, Nothing
<1>3. x[1] = "esc" /\ Len(x) # 1 /\ x[2] \notin {"[", "O"} => Decode(f, x, FALSE) = After(<<"escape">>, f[Len(x) - 1])
  BY Zenon DEF Decode, After
<1>4. x[1] = "esc" /\ Len(x) # 1 /\ x[2] \in {"[", "O"} /\ EndsOf(x) = {} => Decode(f, x, FALSE) = Nothing(x)
  BY Zenon DEF Decode, Nothing, EndsOf
<1>5. x[1] = "esc" /\ Len(x) # 1 /\ x[2] \in {"[", "O"} /\ EndsOf(x) # {}
      => Decode(f, x, FALSE) = After(Named(x, End(x)), f[Len(x) - End(x)])
  BY Zenon DEF Decode, After, EndsOf, End
<1> QED
  BY <1>1, <1>2, <1>3, <1>4, <1>5, Zenon

Joins(x, s, z) == x = s \o z

\* What the characters of a key and then others say: the key, and then what
\* the others say.
LEMMA NextKey ==
    ASSUME NEW k \in PosixKeys, NEW z \in Seq(Chars), NEW x, Joins(x, PosixSends[k], z), NEW f,
           k = "Esc" => z # <<>> /\ z[1] \notin {"[", "O"}
    PROVE  Decode(f, x, FALSE) = After(Means[k], f[Len(z)])
<1> DEFINE s == PosixSends[k]
           l == Len(s)
           m == Len(z)
<1>1. s \in Seq(Chars) /\ l \in Nat /\ m \in Nat
  BY Tables
<1> HIDE DEF s
<1>2. x \in Seq(Chars) /\ Len(x) = l + m /\ \A i \in 1..(l + m) : x[i] = IF i <= l THEN s[i] ELSE z[i - l]
  BY <1>1, ConcatProperties DEF s, Joins
<1> HIDE DEF l, m
<1>3. CASE k \in LongKeys
  <2>1. Sequence(s, Means[k])
    BY <1>3, LongKey DEF s
  <2>2. /\ l \in 3..6 /\ s[1] = "esc" /\ s[2] = "["
        /\ \A i \in 3..l - 1 : s[i] \in Parameters
        /\ s[l] \notin Parameters
    BY <2>1 DEF Sequence, l
  <2>3. Len(x) >= l /\ \A i \in 1..l : x[i] = s[i]
    BY <1>1, <1>2
  <2>4. Named(x, l) = Means[k]
    BY <2>1, <2>3 DEF Sequence, Starting, l
  <2>5. x # <<>> /\ x[1] = "esc" /\ Len(x) # 1 /\ x[2] \in {"[", "O"}
    BY <1>1, <1>2, <2>2, <2>3
  <2>6. l \in EndsOf(x) /\ \A j \in EndsOf(x) : l <= j
    <3>1. l \in 3..Len(x) /\ x[l] = s[l]
      BY <1>1, <1>2, <2>2, <2>3
    <3>2. ASSUME NEW j \in 3..Len(x), x[j] \notin Parameters PROVE l <= j
      <4> SUFFICES ASSUME j <= l - 1 PROVE FALSE
        BY <1>1
      <4>1. x[j] = s[j] /\ s[j] \in Parameters
        BY <1>1, <2>2, <2>3
      <4> QED
        BY <3>2, <4>1
    <3> QED
      BY <2>2, <3>1, <3>2 DEF EndsOf
  <2>7. End(x) = l
    <3>1. End(x) \in 3..Len(x) /\ End(x) \in EndsOf(x) /\ \A j \in EndsOf(x) : End(x) <= j
      BY <1>2, <2>6, EndOf
    <3> QED
      BY <1>1, <2>6, <3>1
  <2>8. Len(x) - l = Len(z)
    BY <1>1, <1>2 DEF m
  <2>9. Decode(f, x, FALSE) = After(Named(x, End(x)), f[Len(x) - End(x)])
    BY <2>5, <2>6, DecodeCases, Zenon
  <2> QED
    BY <2>4, <2>7, <2>8, <2>9, Zenon
<1>4. CASE k = "Esc"
  <2>1. s = <<"esc">> /\ Means[k] = <<"escape">>
    BY <1>4, Rows DEF s
  <2>2. l = 1 /\ s[1] = "esc"
    BY <2>1 DEF l
  <2>3. m >= 1
    BY <1>4 DEF m
  <2>4. x # <<>> /\ x[1] = "esc" /\ Len(x) # 1 /\ x[2] = z[1] /\ Len(x) - 1 = m
    BY <1>1, <1>2, <2>2, <2>3
  <2>5. Decode(f, x, FALSE) = After(<<"escape">>, f[Len(x) - 1])
    BY <1>4, <2>4, DecodeCases, Zenon
  <2> QED
    BY <2>1, <2>4, <2>5, Zenon DEF m
<1>5. CASE k \in {"[", "K"}
  <2>1. s = <<k>> /\ Means[k] = <<k>>
    BY <1>5, Rows DEF s
  <2>2. l = 1 /\ s[1] = k
    BY <2>1 DEF l
  <2>3. x # <<>> /\ x[1] = k /\ Len(x) - 1 = m
    BY <1>1, <1>2, <2>2
  <2>4. k # "esc" /\ DecodePlain(k) = <<k>>
    BY <1>5 DEF DecodePlain
  <2>5. Decode(f, x, FALSE) = After(DecodePlain(x[1]), f[Len(x) - 1])
    BY <2>3, <2>4, DecodeCases, Zenon
  <2> QED
    BY <2>1, <2>3, <2>4, <2>5, Zenon DEF m
<1> QED
  BY <1>3, <1>4, <1>5, ShortKey

\* The first characters of a key, as long as the key is not clear.
Unclear(k, x, z) == Joins(PosixSends[k], x, z) /\ x # <<>> /\ (k = "Esc" \/ z # <<>>)

LEMMA PartOfKey ==
    ASSUME NEW k \in PosixKeys, NEW z \in Seq(Chars), NEW x \in Seq(Chars), Unclear(k, x, z), NEW f
    PROVE  Decode(f, x, FALSE) = Nothing(x)
<1>0. Joins(PosixSends[k], x, z) /\ x # <<>> /\ (k = "Esc" \/ z # <<>>)
  BY Zenon DEF Unclear
<1> DEFINE s == PosixSends[k]
           l == Len(x)
           m == Len(z)
<1>1. l \in Nat \ {0} /\ m \in Nat /\ (z # <<>> => m # 0)
  BY <1>0
<1>2. Len(s) = l + m /\ \A i \in 1..l : s[i] = x[i]
  BY <1>0, ConcatProperties DEF Joins
<1> HIDE DEF s
<1>3. CASE k = "Esc"
  <2>1. s = <<"esc">>
    BY <1>3, Rows DEF s
  <2>2. Len(s) = 1 /\ s[1] = "esc"
    BY <2>1
  <2> HIDE DEF m
  <2>3. Len(x) = 1 /\ x[1] = "esc"
    <3> HIDE DEF l
    <3>0. l \in Nat \ {0} /\ m \in Nat /\ 1 = l + m
      BY <1>1, <1>2, <2>2, Zenon
    <3>1. l = 1 /\ 1 \in 1..l
      BY <3>0
    <3>2. s[1] = x[1]
      BY <1>2, <3>1
    <3> QED
      BY <2>2, <3>1, <3>2, Zenon DEF l
  <2> QED
    BY <2>3, <1>0, DecodeCases, Zenon
<1>4. CASE k \in LongKeys
  <2>0. Sequence(s, Means[k]) /\ k # "Esc"
    BY <1>4, LongKey DEF s, LongKeys
  <2>1. /\ Len(s) \in 3..6 /\ s[1] = "esc" /\ s[2] = "["
        /\ \A i \in 3..Len(s) - 1 : s[i] \in Parameters
    BY <2>0 DEF Sequence
  <2>2. m # 0
    BY <1>0, <1>1, <2>0
  <2> HIDE DEF m
  <2>3. x[1] = "esc" /\ (Len(x) # 1 => x[2] = "[")
    <3> HIDE DEF l
    <3>0. l \in Nat \ {0}
      BY <1>1
    <3>1. 1 \in 1..l /\ (l # 1 => 2 \in 1..l)
      BY <3>0
    <3>2. s[1] = x[1] /\ (Len(x) # 1 => s[2] = x[2])
      BY <1>2, <3>1 DEF l
    <3> QED
      BY <2>1, <3>2, Zenon
  <2>4. EndsOf(x) = {}
    <3> SUFFICES ASSUME NEW i \in 3..Len(x), x[i] \notin Parameters PROVE FALSE
      BY DEF EndsOf
    <3>1. x[i] = s[i] /\ i <= Len(s) - 1
      BY <1>1, <1>2, <2>2
    <3> QED
      BY <2>1, <3>1
  <2>5. CASE Len(x) = 1
    BY <2>3, <2>5, <1>0, DecodeCases, Zenon
  <2>6. CASE Len(x) # 1
    <3>1. x[2] \in {"[", "O"}
      BY <2>3, <2>6
    <3> QED
      BY <2>3, <2>4, <2>6, <3>1, <1>0, DecodeCases, Zenon
  <2> QED
    BY <2>5, <2>6
<1>5. CASE k \in {"[", "K"}
  <2>1. s = <<k>> /\ k # "Esc"
    BY <1>5, Rows DEF s
  <2>2. Len(s) = 1
    BY <2>1
  <2> QED
    BY <1>0, <1>1, <1>2, <2>1, <2>2
<1> QED
  BY <1>3, <1>4, <1>5, ShortKey

LEMMA SpelledOne ==
    ASSUME NEW K, NEW X, NEW t \in [K -> Seq(X)], NEW k \in K
    PROVE  Spelled(t, <<k>>) = t[k]
<1>1. <<k>> = Append(<<>>, k) /\ <<>> \in Seq(K)
  OBVIOUS
<1>2. Spelled(t, <<>>) = <<>>
  BY SpelledNone, Zenon
<1>3. Spelled(t, Append(<<>>, k)) = Adding(Spelled(t, <<>>), t, k)
  BY <1>1, SpelledGrows
<1>4. t[k] \in Seq(X)
  OBVIOUS
<1>5. <<>> \o t[k] = t[k]
  BY <1>4
<1> QED
  BY <1>1, <1>2, <1>3, <1>5, Zenon DEF Adding

LEMMA SpelledHead ==
    ASSUME NEW K, NEW X, NEW t \in [K -> Seq(X)], NEW b \in Seq(K), b # <<>>
    PROVE  /\ b[1] \in K /\ Tail(b) \in Seq(K) /\ Spelled(t, <<b[1]>>) = t[b[1]]
           /\ Joins(Spelled(t, b), t[b[1]], Spelled(t, Tail(b)))
<1> DEFINE k == b[1]
           e == Tail(b)
           h == <<k>>
<1>1. k \in K /\ e \in Seq(K) /\ h \in Seq(K) /\ b = h \o e
  OBVIOUS
<1> HIDE DEF k, e, h
<1>6. Spelled(t, h) = t[k]
  BY <1>1, SpelledOne DEF h
<1>7. SpelledIn(t, h, e, X)
  BY <1>1, SpelledJoins
<1>8. Spelled(t, h \o e) = Spelled(t, h) \o Spelled(t, e)
  BY <1>7, Zenon DEF SpelledIn
<1>9. Spelled(t, b) = t[k] \o Spelled(t, e)
  BY <1>1, <1>6, <1>8, Zenon
<1> QED
  BY <1>1, <1>6, <1>9, Zenon DEF Joins, k, e, h

LEMMA KeyStarts ==
    ASSUME NEW k \in PosixKeys
    PROVE  /\ Len(PosixSends[k]) >= 1 /\ PosixSends[k][1] # "O" /\ (PosixSends[k][1] = "[" => k = "[")
           /\ (PosixSends[k][1] = "esc" /\ k # "Esc" => Len(PosixSends[k]) > 1)
<1>1. CASE k \in LongKeys
  <2>1. Sequence(PosixSends[k], Means[k])
    BY <1>1, LongKey
  <2> QED
    BY <2>1 DEF Sequence
<1>2. CASE k = "Esc"
  <2>1. PosixSends[k] = <<"esc">>
    BY <1>2, Rows
  <2> QED
    BY <1>2, <2>1
<1>3. CASE k \in {"[", "K"}
  <2>1. PosixSends[k] = <<k>>
    BY <1>3, Rows
  <2> QED
    BY <1>3, <2>1
<1> QED
  BY <1>1, <1>2, <1>3, ShortKey

LEMMA JoinStarts ==
    ASSUME NEW X, NEW y, NEW z \in Seq(X), NEW v \in Seq(X), Joins(y, z, v)
    PROVE  y \in Seq(X) /\ Len(y) = Len(z) + Len(v) /\ (z # <<>> => y # <<>> /\ y[1] = z[1])
<1>1. y \in Seq(X) /\ Len(y) = Len(z) + Len(v) /\ \A i \in 1..(Len(z) + Len(v)) : y[i] = IF i <= Len(z) THEN z[i] ELSE v[i - Len(z)]
  BY ConcatProperties DEF Joins
<1>2. ASSUME z # <<>> PROVE y # <<>> /\ y[1] = z[1]
  BY <1>1, <1>2
<1> QED
  BY <1>1, <1>2

\* What d says of the characters x, when the keys b are what is typed: the
\* first of the keys, and what is left of the characters is of the others.
Readings == [keys : Seq(KeyNames), rest : Seq(Chars)]
Says(d, x, b, first, others) ==
    b = first \o others /\ d.keys = Spelled(Means, first) /\ Joins(x, Spelled(PosixSends, first), d.rest)
Said(d, x, b) == d \in Readings /\ \E first, others \in Seq(PosixKeys) : Says(d, x, b, first, others)

LEMMA MeansOfPosix ==
    ASSUME NEW b \in Seq(PosixKeys)
    PROVE  b \in Seq(Names) /\ Spelled(Means, b) \in Seq(KeyNames) /\ Spelled(PosixSends, b) \in Seq(Chars)
<1>1. b \in Seq(Names)
  BY DEF Names
<1>2. Means \in [Names -> Seq(KeyNames)] /\ PosixSends \in [PosixKeys -> Seq(Chars)]
  BY Tables
<1>3. Spelled(Means, b) \in Seq(KeyNames)
  BY <1>1, <1>2, SpelledTyped
<1>4. Spelled(PosixSends, b) \in Seq(Chars)
  BY <1>2, SpelledTyped
<1> QED
  BY <1>1, <1>3, <1>4

LEMMA SaidNothing ==
    ASSUME NEW x \in Seq(Chars), NEW b \in Seq(PosixKeys)
    PROVE  Said(Nothing(x), x, b)
<1>1. <<>> \in Seq(PosixKeys) /\ <<>> \in Seq(KeyNames) /\ b = <<>> \o b /\ x = <<>> \o x
  OBVIOUS
<1>2. Spelled(Means, <<>>) = <<>> /\ Spelled(PosixSends, <<>>) = <<>>
  BY SpelledNone, Zenon
<1>3. Nothing(x) \in Readings /\ Nothing(x).keys = <<>> /\ Nothing(x).rest = x
  BY <1>1 DEF Nothing, Readings
<1>4. Says(Nothing(x), x, b, <<>>, b)
  BY <1>1, <1>2, <1>3, Zenon DEF Says, Joins
<1> QED
  BY <1>1, <1>3, <1>4, Zenon DEF Said

LEMMA SaidAfter ==
    ASSUME NEW d, NEW z \in Seq(Chars), NEW e \in Seq(PosixKeys), Said(d, z, e), NEW k \in PosixKeys,
           NEW x, Joins(x, PosixSends[k], z), NEW b, Joins(b, <<k>>, e)
    PROVE  Said(After(Means[k], d), x, b)
<1>1. PICK first \in Seq(PosixKeys), others \in Seq(PosixKeys) : Says(d, z, e, first, others)
  BY Zenon DEF Said
<1> DEFINE h == <<k>>
           more == h \o first
           m == Means[k]
           s == PosixSends[k]
           fm == Spelled(Means, first)
           fs == Spelled(PosixSends, first)
<1>2. d \in Readings
  BY Zenon DEF Said
<1>3. fm \in Seq(KeyNames) /\ fs \in Seq(Chars) /\ first \in Seq(Names)
  BY MeansOfPosix
<1>4. h \in Seq(PosixKeys) /\ h \in Seq(Names) /\ more \in Seq(PosixKeys) /\ h # <<>> /\ h[1] = k
  BY DEF Names
<1>5. m \in Seq(KeyNames) /\ s \in Seq(Chars)
  BY Tables DEF Names
<1>6. Spelled(Means, h) = m /\ Spelled(PosixSends, h) = s
  <2>1. Means \in [Names -> Seq(KeyNames)] /\ PosixSends \in [PosixKeys -> Seq(Chars)]
    BY Tables
  <2>2. Spelled(Means, <<k>>) = Means[k]
    <3>1. k \in Names
      BY DEF Names
    <3> QED
      BY <2>1, <3>1, SpelledOne
  <2>3. Spelled(PosixSends, <<k>>) = PosixSends[k]
    BY <2>1, SpelledOne
  <2> QED
    BY <2>2, <2>3, Zenon
<1>7. SpelledIn(Means, h, first, KeyNames) /\ SpelledIn(PosixSends, h, first, Chars)
  <2>1. Means \in [Names -> Seq(KeyNames)] /\ PosixSends \in [PosixKeys -> Seq(Chars)]
    BY Tables
  <2> HIDE DEF h
  <2>2. SpelledIn(Means, h, first, KeyNames)
    BY <1>3, <1>4, <2>1, SpelledJoins
  <2>3. SpelledIn(PosixSends, h, first, Chars)
    BY <1>4, <2>1, SpelledJoins
  <2> QED
    BY <2>2, <2>3
<1>8. After(m, d) \in Readings /\ After(m, d).keys = m \o d.keys /\ After(m, d).rest = d.rest /\ d.rest \in Seq(Chars)
  <2> DEFINE c == m \o d.keys
  <2>1. d.keys \in Seq(KeyNames) /\ d.rest \in Seq(Chars)
    BY <1>2 DEF Readings
  <2>2. c \in Seq(KeyNames)
    <3> HIDE DEF m
    <3> QED
      BY <1>5, <2>1
  <2> HIDE DEF c
  <2>3. [d EXCEPT !.keys = c] \in Readings /\ [d EXCEPT !.keys = c].keys = c /\ [d EXCEPT !.keys = c].rest = d.rest
    BY <1>2, <2>2 DEF Readings
  <2> QED
    BY <2>1, <2>3, Zenon DEF After, c
<1> HIDE DEF h, m, s, fm, fs
<1>9. Associates(h, first, others) /\ Associates(s, fs, d.rest)
  BY <1>3, <1>4, <1>5, <1>8, Associative
<1>10. b = more \o others
  BY <1>1, <1>9, Zenon DEF Says, Joins, Associates, h
<1>11. After(m, d).keys = Spelled(Means, more)
  BY <1>1, <1>6, <1>7, <1>8, Zenon DEF Says, SpelledIn, fm
<1>12. Spelled(PosixSends, more) = s \o fs
  BY <1>6, <1>7, Zenon DEF SpelledIn, fs
<1>13. x = Spelled(PosixSends, more) \o After(m, d).rest
  BY <1>1, <1>8, <1>9, <1>12, Zenon DEF Says, Joins, Associates, s, fs
<1>14. Says(After(m, d), x, b, more, others)
  BY <1>10, <1>11, <1>13, Zenon DEF Says, Joins
<1> QED
  BY <1>4, <1>8, <1>14, Zenon DEF Said, m

\* No [ right after Escape: a terminal sends the same for that as for the
\* start of another key.
Apart(b) == \A i \in 1..Len(b) - 1 : ~(b[i] = "Esc" /\ b[i + 1] = "[")

LEMMA ApartTail ==
    ASSUME NEW K, NEW b \in Seq(K), b # <<>>, Apart(b)
    PROVE  /\ Tail(b) \in Seq(K) /\ Apart(Tail(b)) /\ (Tail(b) # <<>> /\ b[1] = "Esc" => Tail(b)[1] # "[")
           /\ Joins(b, <<b[1]>>, Tail(b))
<1> DEFINE e == Tail(b)
           n == Len(b)
<1>1. e \in Seq(K) /\ n \in Nat \ {0} /\ Len(e) = n - 1 /\ \A i \in 1..n - 1 : e[i] = b[i + 1]
  OBVIOUS
<1>2. b = <<b[1]>> \o e
  OBVIOUS
<1>3. e # <<>> => n > 1
  BY <1>1
<1> HIDE DEF e, n
<1>4. \A i \in 1..n - 1 : ~(b[i] = "Esc" /\ b[i + 1] = "[")
  BY DEF Apart, n
<1>5. Apart(e)
  <2> SUFFICES ASSUME NEW i \in 1..Len(e) - 1 PROVE ~(e[i] = "Esc" /\ e[i + 1] = "[")
    BY DEF Apart
  <2>1. i \in 1..n - 1 /\ i + 1 \in 1..n - 1
    BY <1>1
  <2>2. e[i] = b[i + 1] /\ e[i + 1] = b[(i + 1) + 1]
    BY <1>1, <2>1
  <2> QED
    BY <1>4, <2>1, <2>2
<1>6. e # <<>> /\ b[1] = "Esc" => e[1] # "["
  <2> SUFFICES ASSUME e # <<>> PROVE 1 \in 1..n - 1 /\ e[1] = b[1 + 1]
    BY <1>4
  <2> QED
    BY <1>1, <1>3
<1> QED
  BY <1>1, <1>2, <1>5, <1>6, Zenon DEF Joins, e

\* The keys are read one after the other, if each of the shorter ends of the
\* characters is.
ReadsOf(f, x) ==
    \A z \in Seq(Chars), e \in Seq(PosixKeys), w \in Seq(Chars) :
        /\ Len(z) < Len(x) /\ (\E p \in Seq(Chars) : Joins(x, p, z))
        /\ Apart(e) /\ Joins(Spelled(PosixSends, e), z, w)
        => Said(f[Len(z)], z, e)

LEMMA ReadsMore ==
    ASSUME NEW x \in Seq(Chars), NEW b \in Seq(PosixKeys), NEW v \in Seq(Chars), NEW f,
           Apart(b), Joins(Spelled(PosixSends, b), x, v), ReadsOf(f, x)
    PROVE  Said(Decode(f, x, FALSE), x, b)
<1>1. CASE x = <<>>
  <2>1. Decode(f, x, FALSE) = Nothing(x)
    BY <1>1, Zenon DEF Decode, Nothing
  <2> QED
    BY <2>1, SaidNothing
<1>2. CASE x # <<>>
  <2> DEFINE k == b[1]
             s == PosixSends[k]
             e == Tail(b)
             y == Spelled(PosixSends, e)
  <2>1. b # <<>>
    <3>1. Spelled(PosixSends, <<>>) = <<>>
      BY SpelledNone, Zenon
    <3>2. Spelled(PosixSends, b) # <<>>
      BY <1>2, JoinStarts
    <3> QED
      BY <3>1, <3>2, Zenon
  <2>2. PosixSends \in [PosixKeys -> Seq(Chars)]
    BY Tables
  <2>3. k \in PosixKeys /\ e \in Seq(PosixKeys) /\ Joins(Spelled(PosixSends, b), s, y)
    BY <2>1, <2>2, SpelledHead
  <2>4. Apart(e) /\ (e # <<>> /\ k = "Esc" => e[1] # "[") /\ Joins(b, <<k>>, e)
    BY <2>1, ApartTail
  <2>5. s \in Seq(Chars) /\ y \in Seq(Chars) /\ Len(s) >= 1
    BY <2>2, <2>3, MeansOfPosix, KeyStarts
  <2> HIDE DEF k, s, e, y
  <2>6. Cuts(s, y, x, v)
    BY <2>3, Zenon DEF Joins, Cuts
  <2>7. ASSUME NEW z \in Seq(Chars), Joins(x, s, z), NEW w \in Seq(Chars), Joins(y, z, w),
               k = "Esc" => z # <<>> /\ z[1] \notin {"[", "O"}
        PROVE  Said(Decode(f, x, FALSE), x, b)
    <3>1. Len(z) < Len(x)
      <4>1. Len(x) = Len(s) + Len(z)
        BY <2>5, <2>7, JoinStarts
      <4>2. Len(s) \in Nat /\ Len(z) \in Nat
        BY <2>5
      <4> QED
        BY <2>5, <4>1, <4>2
    <3>2. Said(f[Len(z)], z, e)
      <4>1. \E p \in Seq(Chars) : Joins(x, p, z)
        BY <2>5, <2>7
      <4>2. Joins(Spelled(PosixSends, e), z, w)
        BY <2>7 DEF y
      <4> QED
        BY <2>3, <2>4, <3>1, <4>1, <4>2 DEF ReadsOf
    <3>3. Decode(f, x, FALSE) = After(Means[k], f[Len(z)])
      BY <2>3, <2>7, NextKey DEF s
    <3>4. Said(After(Means[k], f[Len(z)]), x, b)
      BY <2>3, <2>4, <2>7, <3>2, SaidAfter DEF s
    <3> QED
      BY <3>3, <3>4
  <2>8. ASSUME NEW z \in Seq(Chars), Joins(s, x, z), k = "Esc" \/ z # <<>>
        PROVE  Said(Decode(f, x, FALSE), x, b)
    <3>0. k \in PosixKeys
      BY <2>3
    <3>2. Unclear(k, x, z)
      BY <1>2, <2>8, Zenon DEF Unclear, s
    <3>1. Decode(f, x, FALSE) = Nothing(x)
      BY <3>0, <3>2, PartOfKey
    <3> QED
      BY <3>1, SaidNothing
  <2>9. CASE Begins(s, x, Chars)
    <3>1. PICK z \in Seq(Chars) : Joins(x, s, z) /\ z # <<>>
      BY <2>9, Zenon DEF Begins, Joins
    <3>2. Joins(y, z, v)
      <4>1. Associates(s, z, v) /\ z \o v \in Seq(Chars)
        BY <2>5, Associative
      <4> DEFINE r == z \o v
      <4>2. Cuts(s, y, s, r)
        BY <2>6, <3>1, <4>1, Zenon DEF Cuts, Joins, Associates
      <4> HIDE DEF r
      <4>3. r \in Seq(Chars)
        BY <4>1 DEF r
      <4>4. y = r
        BY <2>5, <4>2, <4>3, Cancels
      <4> QED
        BY <4>4 DEF Joins, r
    <3>3. k = "Esc" => z[1] \notin {"[", "O"}
      <4> SUFFICES ASSUME k = "Esc" PROVE z[1] \notin {"[", "O"}
        OBVIOUS
      <4>1. y # <<>> /\ y[1] = z[1]
        BY <3>1, <3>2, JoinStarts
      <4>2. e # <<>>
        <5>1. Spelled(PosixSends, <<>>) = <<>>
          BY SpelledNone, Zenon
        <5> QED
          BY <4>1, <5>1, Zenon DEF y
      <4> DEFINE c == e[1]
                 sc == PosixSends[c]
                 yc == Spelled(PosixSends, Tail(e))
      <4>3. c \in PosixKeys /\ Tail(e) \in Seq(PosixKeys) /\ Joins(y, sc, yc)
        BY <2>2, <2>3, <4>2, SpelledHead DEF y
      <4> HIDE DEF sc, yc, c
      <4>4. Len(sc) >= 1 /\ sc[1] # "O" /\ (sc[1] = "[" => c = "[") /\ sc \in Seq(Chars) /\ yc \in Seq(Chars)
        BY <2>2, <4>3, KeyStarts, MeansOfPosix DEF sc, yc
      <4>5. sc # <<>>
        BY <4>4
      <4>6. y[1] = sc[1]
        BY <4>3, <4>4, <4>5, JoinStarts
      <4>7. c # "["
        BY <2>4, <4>2 DEF c
      <4> QED
        BY <4>1, <4>4, <4>6, <4>7
    <3> QED
      BY <2>7, <3>1, <3>2, <3>3
  <2>10. CASE Follows(s, x, y, v, Chars)
    <3>1. PICK z \in Seq(Chars) : Joins(s, x, z)
      BY <2>10, Zenon DEF Follows, Joins
    <3>2. CASE k = "Esc" \/ z # <<>>
      BY <2>8, <3>1, <3>2
    <3>3. CASE k # "Esc" /\ z = <<>>
      <4>1. x \o <<>> = x /\ s \o <<>> = s /\ <<>> \o y = y /\ <<>> \in Seq(Chars)
        BY <2>5
      <4>2. Joins(x, s, <<>>) /\ Joins(y, <<>>, y)
        BY <3>1, <3>3, <4>1, Zenon DEF Joins
      <4> QED
        BY <2>5, <2>7, <3>3, <4>1, <4>2
    <3> QED
      BY <3>2, <3>3
  <2> QED
    BY <2>5, <2>6, <2>9, <2>10, TwoCuts
<1> QED
  BY <1>1, <1>2

\* What is read of characters that keys send, the first or all of them.
LEMMA DecodedSays ==
    ASSUME NEW data \in Seq(Chars), NEW b \in Seq(PosixKeys), NEW v \in Seq(Chars),
           Apart(b), Joins(Spelled(PosixSends, b), data, v)
    PROVE  Said(DecodeAnsi(data, FALSE), data, b)
<1>1. PICK f : Decodes(f, data, FALSE, Len(data)) /\ DecodeAnsi(data, FALSE) = f[Len(data)]
  BY DecodedRuns
<1> DEFINE L == Len(data)
           Q(m) == \A e \in Seq(PosixKeys), w \in Seq(Chars) :
                        Apart(e) /\ Joins(Spelled(PosixSends, e), LastOf(data, m), w) => Said(f[m], LastOf(data, m), e)
           S == {n \in Nat : \A m \in 0..n : m <= L => Q(m)}
<1>0. L \in Nat /\ LastOf(data, L) = data
  BY DEF LastOf
<1>2. ASSUME NEW n \in 0..L, \A m \in 0..n - 1 : Q(m) PROVE Q(n)
  <2> HIDE DEF Q
  <2> DEFINE x == LastOf(data, n)
  <2>1. x \in Seq(Chars) /\ Len(x) = n /\ \A i \in 1..n : x[i] = data[L - n + i]
    BY Lasts
  <2> HIDE DEF x
  <2>2. ReadsOf(f, x)
    <3> SUFFICES ASSUME NEW z \in Seq(Chars), NEW e \in Seq(PosixKeys), NEW w \in Seq(Chars),
                        Len(z) < Len(x), NEW p \in Seq(Chars), Joins(x, p, z),
                        Apart(e), Joins(Spelled(PosixSends, e), z, w)
                 PROVE  Said(f[Len(z)], z, e)
      BY Zenon DEF ReadsOf
    <3> DEFINE m == Len(z)
               q == LastOf(data, m)
    <3>1. m \in 0..n - 1 /\ m \in 0..L
      BY <1>0, <2>1
    <3>2. q \in Seq(Chars) /\ Len(q) = m /\ \A i \in 1..m : q[i] = data[L - m + i]
      BY <3>1, Lasts
    <3>3. Len(x) = Len(p) + m /\ \A i \in 1..(Len(p) + m) : x[i] = IF i <= Len(p) THEN p[i] ELSE z[i - Len(p)]
      BY ConcatProperties DEF Joins
    <3>4. z = q
      <4>1. Len(p) = n - m /\ Len(p) \in Nat
        BY <2>1, <3>1, <3>3
      <4> HIDE DEF q
      <4>2. ASSUME NEW i \in 1..m PROVE z[i] = q[i]
        <5>1. n - m + i \in 1..n /\ ~(n - m + i <= Len(p)) /\ (n - m + i) - Len(p) = i /\ L - n + (n - m + i) = L - m + i
          BY <1>0, <3>1, <4>1
        <5>2. x[n - m + i] = z[i]
          BY <2>1, <3>3, <5>1
        <5>3. x[n - m + i] = data[L - m + i]
          BY <2>1, <5>1
        <5> QED
          BY <3>2, <5>2, <5>3
      <4> QED
        BY <3>2, <4>2, SeqEqual
    <3>5. Q(m)
      BY <1>2, <3>1
    <3> HIDE DEF m
    <3> QED
      BY <3>4, <3>5, Zenon DEF Q, m
  <2>3. f[n] = Decode(f, x, FALSE)
    BY <1>0, <1>1 DEF Decodes, x
  <2> SUFFICES ASSUME NEW e \in Seq(PosixKeys), NEW w \in Seq(Chars), Apart(e), Joins(Spelled(PosixSends, e), x, w)
               PROVE  Said(f[n], x, e)
    BY Zenon DEF Q, x
  <2> QED
    BY <2>1, <2>2, <2>3, ReadsMore
<1>3. 0 \in S
  <2>1. Q(0)
    <3> HIDE DEF Q, L
    <3> QED
      BY <1>0, <1>2
  <2> HIDE DEF Q
  <2> QED
    BY <2>1
<1>4. ASSUME NEW n \in Nat, n \in S PROVE n + 1 \in S
  <2> HIDE DEF Q, L
  <2>1. n + 1 <= L => Q(n + 1)
    BY <1>0, <1>2, <1>4
  <2> QED
    BY <1>4, <2>1
<1>5. L \in S
  <2> HIDE DEF S, L
  <2> QED
    BY <1>0, <1>3, <1>4, Lists!Climb
<1>6. Q(L)
  <2> HIDE DEF Q, L
  <2> QED
    BY <1>0, <1>5
<1> QED
  BY <1>0, <1>1, <1>6, Zenon

LEMMA PrefixOf ==
    ASSUME NEW X, NEW s \in Seq(X), NEW u \in Seq(X), NEW t, Joins(t, s, u)
    PROVE  IsPrefix(s, t)
<1>1. t \in Seq(X) /\ Len(t) = Len(s) + Len(u) /\ \A i \in 1..(Len(s) + Len(u)) : t[i] = IF i <= Len(s) THEN s[i] ELSE u[i - Len(s)]
  BY ConcatProperties DEF Joins
<1> DEFINE l == Len(s)
           p == SubSeq(s, 1, l)
           q == SubSeq(t, 1, l)
<1>2. l \in Nat /\ Len(u) \in Nat
  OBVIOUS
<1>3. l <= Len(t) /\ \A i \in 1..l : t[i] = s[i]
  BY <1>1, <1>2
<1>4. p \in Seq(X) /\ Len(p) = l /\ \A i \in 1..l : p[i] = s[i]
  BY <1>2
<1>5. q \in Seq(X) /\ Len(q) = l /\ \A i \in 1..l : q[i] = t[i]
  BY <1>1, <1>2, <1>3
<1>6. p = q
  <2> HIDE DEF p, q, l
  <2> QED
    BY <1>3, <1>4, <1>5, SeqEqual
<1> QED
  BY <1>3, <1>6, Zenon DEF IsPrefix

Sending(t, K) == \A k \in K : Len(t[k]) >= 1

\* What some keys send is as long as what each of two parts of them sends.
LEMMA SpelledSize ==
    ASSUME NEW K, NEW X, NEW t \in [K -> Seq(X)], NEW s, NEW a \in Seq(K), NEW b \in Seq(K), Joins(s, a, b),
           Sending(t, K)
    PROVE  /\ s \in Seq(K)
           /\ Spelled(t, s) \in Seq(X) /\ Spelled(t, a) \in Seq(X) /\ Spelled(t, b) \in Seq(X)
           /\ Joins(Spelled(t, s), Spelled(t, a), Spelled(t, b))
           /\ Len(Spelled(t, s)) = Len(Spelled(t, a)) + Len(Spelled(t, b))
           /\ (b # <<>> => Len(Spelled(t, b)) >= 1)
<1>1. s \in Seq(K)
  BY Zenon, ConcatProperties DEF Joins
<1>2. SpelledIn(t, a, b, X)
  BY SpelledJoins
<1>3. Joins(Spelled(t, s), Spelled(t, a), Spelled(t, b)) /\ Spelled(t, a) \in Seq(X) /\ Spelled(t, b) \in Seq(X)
  BY <1>2, Zenon DEF SpelledIn, Joins
<1>4. Spelled(t, s) \in Seq(X) /\ Len(Spelled(t, s)) = Len(Spelled(t, a)) + Len(Spelled(t, b))
  BY <1>3, JoinStarts
<1>5. ASSUME b # <<>> PROVE Len(Spelled(t, b)) >= 1
  <2> DEFINE k == b[1]
             y == Spelled(t, Tail(b))
             w == t[k]
  <2>1. k \in K /\ Tail(b) \in Seq(K) /\ Joins(Spelled(t, b), w, y)
    BY <1>5, SpelledHead
  <2>2. w \in Seq(X) /\ Len(w) >= 1
    BY <2>1 DEF Sending
  <2>3. y \in Seq(X)
    BY <2>1, SpelledTyped
  <2> DEFINE r == Spelled(t, b)
  <2> HIDE DEF k, y, w, r
  <2>6. Joins(r, w, y)
    BY <2>1, Zenon DEF r
  <2>7. w \in Seq(X)
    BY <2>2
  <2>8. Len(r) = Len(w) + Len(y)
    BY <2>3, <2>6, <2>7, SMT DEF Joins
  <2>4. Len(Spelled(t, b)) = Len(w) + Len(y)
    BY <2>8, Zenon DEF r
  <2>5. Len(w) \in Nat /\ Len(y) \in Nat
    BY <2>2, <2>3
  <2> QED
    BY <2>2, <2>4, <2>5
<1> QED
  BY <1>1, <1>3, <1>4, <1>5

Reading(k, q, a) == k \o q = Spelled(Means, a)

PosixAt(a, b) ==
    /\ Joins(presses, a, b) /\ Reading(keys, queued, a)
    /\ Len(Spelled(PosixSends, a)) + Len(held) = got
    /\ \E u \in Seq(Chars) : Joins(Spelled(PosixSends, b), held, u)
    /\ Apart(b)
    /\ held = <<"esc">> /\ got = arrived /\ b[1] # "Esc" => age < Patience

PosixTyped ==
    /\ presses \in Seq(PosixKeys) /\ keys \in Seq(KeyNames) /\ queued \in Seq(KeyNames) /\ held \in Seq(Chars)
    /\ got \in Nat /\ arrived \in Nat /\ age \in Nat
    /\ got <= arrived /\ arrived <= Len(Spelled(PosixSends, presses))

PosixInv == PosixTyped /\ \E a, b \in Seq(PosixKeys) : PosixAt(a, b)

LEMMA PosixSizes ==
    ASSUME NEW s, NEW a \in Seq(PosixKeys), NEW b \in Seq(PosixKeys), Joins(s, a, b)
    PROVE  /\ s \in Seq(PosixKeys)
           /\ Spelled(PosixSends, s) \in Seq(Chars) /\ Spelled(PosixSends, a) \in Seq(Chars) /\ Spelled(PosixSends, b) \in Seq(Chars)
           /\ Joins(Spelled(PosixSends, s), Spelled(PosixSends, a), Spelled(PosixSends, b))
           /\ Len(Spelled(PosixSends, s)) = Len(Spelled(PosixSends, a)) + Len(Spelled(PosixSends, b))
           /\ (b # <<>> => Len(Spelled(PosixSends, b)) >= 1)
<1>1. PosixSends \in [PosixKeys -> Seq(Chars)]
  BY Tables
<1>2. Sending(PosixSends, PosixKeys)
  BY KeyStarts DEF Sending
<1> QED
  BY <1>1, <1>2, SpelledSize

\* One more key is pressed.
LEMMA PosixPress ==
    ASSUME ~windows, PosixInv, NEW k \in DOMAIN Sends, Press(k)
    PROVE  PosixInv'
<1>1. PICK a \in Seq(PosixKeys), b \in Seq(PosixKeys) : PosixAt(a, b)
  BY DEF PosixInv
<1>2. k \in PosixKeys
  BY DEF Sends, PosixSends
<1> DEFINE c == Append(b, k)
           q == Append(presses, k)
           s == Spelled(PosixSends, b)
           w == PosixSends[k]
<1>3. /\ presses' = q /\ keys' = keys /\ queued' = queued /\ held' = held /\ got' = got /\ arrived' = arrived
      /\ age' = age /\ ~Ambiguous(k)
  BY DEF Press
<1>4. c \in Seq(PosixKeys) /\ q \in Seq(PosixKeys)
  BY <1>2 DEF PosixInv, PosixTyped
<1>5. Joins(q, a, c)
  <2>1. Appends(a, b, k)
    BY <1>2, Appended
  <2> QED
    BY <1>1, <2>1, Zenon DEF PosixAt, Joins, Appends
<1>6. s \in Seq(Chars) /\ w \in Seq(Chars) /\ Spelled(PosixSends, c) = s \o w
  <2>1. PosixSends \in [PosixKeys -> Seq(Chars)]
    BY Tables
  <2>2. Spelled(PosixSends, c) = Adding(s, PosixSends, k)
    BY <1>2, SpelledGrows
  <2> QED
    BY <1>2, <2>1, <2>2, MeansOfPosix DEF Adding
<1>7. \E u \in Seq(Chars) : Joins(Spelled(PosixSends, c), held, u)
  <2>1. PICK u \in Seq(Chars) : Joins(s, held, u)
    BY <1>1 DEF PosixAt
  <2> HIDE DEF s, w, c
  <2>2. held \in Seq(Chars)
    BY DEF PosixInv, PosixTyped
  <2>3. Associates(held, u, w) /\ u \o w \in Seq(Chars)
    BY <1>6, <2>2, Associative
  <2>4. Joins(Spelled(PosixSends, c), held, u \o w)
    BY <1>6, <2>1, <2>3, Zenon DEF Joins, Associates
  <2> QED
    BY <2>3, <2>4, Zenon
<1>8. arrived <= Len(Spelled(PosixSends, q))
  <2>1. Joins(q, presses, <<k>>) /\ presses \in Seq(PosixKeys) /\ <<k>> \in Seq(PosixKeys)
    BY <1>2 DEF Joins, PosixInv, PosixTyped
  <2> DEFINE n == Len(Spelled(PosixSends, presses))
             m == Len(Spelled(PosixSends, <<k>>))
             l == Len(Spelled(PosixSends, q))
  <2>2. l = n + m
    BY <2>1, PosixSizes
  <2>3. n \in Nat /\ m \in Nat
    BY <2>1, MeansOfPosix
  <2>4. arrived <= n /\ arrived \in Nat
    BY DEF PosixInv, PosixTyped
  <2> HIDE DEF n, m, l
  <2>5. arrived <= l
    BY <2>2, <2>3, <2>4
  <2> QED
    BY <2>5 DEF l
<1>9. Apart(c)
  <2> SUFFICES ASSUME NEW i \in 1..Len(c) - 1, c[i] = "Esc", c[i + 1] = "[" PROVE FALSE
    BY DEF Apart
  <2>1. Len(c) = Len(b) + 1 /\ Len(b) \in Nat /\ c[Len(b) + 1] = k /\ \A j \in 1..Len(b) : c[j] = b[j]
    OBVIOUS
  <2>2. CASE i # Len(b)
    <3>1. i \in 1..Len(b) - 1 /\ i \in 1..Len(b) /\ i + 1 \in 1..Len(b)
      BY <2>1, <2>2
    <3>2. b[i] = "Esc" /\ b[i + 1] = "["
      BY <2>1, <3>1
    <3> QED
      BY <1>1, <3>1, <3>2 DEF PosixAt, Apart
  <2>3. CASE i = Len(b)
    <3>1. Len(b) \in 1..Len(b) /\ k = "[" /\ b[Len(b)] = "Esc"
      BY <2>1, <2>3
    <3>2. b # <<>>
      BY <3>1
    <3>3. presses # <<>> /\ presses[Len(presses)] = b[Len(b)]
      <4>1. Joins(presses, a, b)
        BY <1>1 DEF PosixAt
      <4>2. EndsAs(a, b, k, k)
        BY <1>2, <3>2, LastOfBoth
      <4> QED
        BY <4>1, <4>2, Zenon DEF Joins, EndsAs
    <3>4. got < Len(Stream) \/ held # <<>>
      <4> SUFFICES ASSUME held = <<>> PROVE got < Len(Stream)
        OBVIOUS
      <4> DEFINE n == Len(Spelled(PosixSends, a))
                 m == Len(Spelled(PosixSends, b))
      <4>1. Len(Stream) = n + m /\ m >= 1
        <5>1. Joins(presses, a, b)
          BY <1>1 DEF PosixAt
        <5>2. Stream = Spelled(PosixSends, presses)
          BY DEF Stream, Sends
        <5> QED
          BY <3>2, <5>1, <5>2, PosixSizes
      <4>2. n \in Nat /\ m \in Nat
        BY MeansOfPosix
      <4>3. n + Len(held) = got /\ Len(held) = 0
        BY <1>1 DEF PosixAt
      <4> HIDE DEF n, m
      <4> QED
        BY <4>1, <4>2, <4>3
    <3> QED
      BY <1>3, <3>1, <3>3, <3>4, Zenon DEF Ambiguous
  <2> QED
    BY <2>2, <2>3
<1>10. held = <<"esc">> /\ got = arrived /\ c[1] # "Esc" => age < Patience
  <2> SUFFICES ASSUME held = <<"esc">> PROVE c[1] = b[1]
    BY <1>1 DEF PosixAt
  <2>1. b # <<>>
    <3>1. PICK u \in Seq(Chars) : Joins(s, held, u)
      BY <1>1 DEF PosixAt
    <3>2. held \in Seq(Chars) /\ held # <<>>
      BY DEF PosixInv, PosixTyped
    <3>3. s # <<>>
      BY <3>1, <3>2, JoinStarts
    <3>4. Spelled(PosixSends, <<>>) = <<>>
      BY SpelledNone, Zenon
    <3> QED
      BY <3>3, <3>4, Zenon
  <2> QED
    BY <2>1
<1> HIDE DEF c, q, s, w
<1>11. PosixAt(a, c)'
  BY <1>1, <1>3, <1>5, <1>7, <1>9, <1>10, Zenon DEF PosixAt
<1>12. PosixTyped'
  BY <1>3, <1>4, <1>8, Zenon DEF PosixInv, PosixTyped
<1> QED
  BY <1>4, <1>11, <1>12, Zenon DEF PosixInv

\* What is left unread, after the characters that were taken.
Piece(s, g, r, u, d) ==
    /\ d = SubSeq(s, g + 1, r) /\ d \in Seq(Chars) /\ Len(d) = r - g
    /\ \E v \in Seq(Chars) : Joins(u, d, v)

LEMMA NextPiece ==
    ASSUME NEW p \in Seq(Chars), NEW u \in Seq(Chars), NEW s, Joins(s, p, u), NEW r \in Nat,
           Len(p) <= r, r <= Len(s)
    PROVE  Piece(s, Len(p), r, u, SubSeq(s, Len(p) + 1, r))
<1> DEFINE g == Len(p)
           n == Len(u)
           d == SubSeq(s, g + 1, r)
           v == SubSeq(u, r - g + 1, n)
           w == d \o v
<1>1. g \in Nat /\ n \in Nat
  OBVIOUS
<1>2. s \in Seq(Chars) /\ Len(s) = g + n /\ \A i \in 1..(g + n) : s[i] = IF i <= g THEN p[i] ELSE u[i - g]
  BY ConcatProperties DEF Joins
<1>3. g <= r /\ r <= g + n
  BY <1>2
<1>4. d \in Seq(Chars) /\ Len(d) = r - g /\ \A i \in 1..(r - g) : d[i] = s[g + i]
  <2> HIDE DEF g, n
  <2> QED
    BY <1>1, <1>2, <1>3
<1>5. v \in Seq(Chars) /\ Len(v) = n - (r - g) /\ \A i \in 1..(n - (r - g)) : v[i] = u[(r - g) + i]
  <2>1. r - g \in 0..n
    <3> HIDE DEF g, n
    <3> QED
      BY <1>1, <1>3
  <2> DEFINE m == r - g
  <2>2. m \in 0..n
    BY <2>1
  <2> HIDE DEF m
  <2>3. SubSeq(u, m + 1, n) \in Seq(Chars) /\ Len(SubSeq(u, m + 1, n)) = n - m /\ \A i \in 1..(n - m) : SubSeq(u, m + 1, n)[i] = u[m + i]
    BY <2>2
  <2> QED
    BY <2>3, Zenon DEF m
<1> HIDE DEF d, v
<1>6. w \in Seq(Chars) /\ Len(w) = Len(d) + Len(v) /\ \A i \in 1..(Len(d) + Len(v)) : w[i] = IF i <= Len(d) THEN d[i] ELSE v[i - Len(d)]
  BY <1>4, <1>5, ConcatProperties
<1> HIDE DEF g, n, w
<1>7. Len(w) = n
  BY <1>1, <1>3, <1>4, <1>5, <1>6
<1>8. ASSUME NEW i \in 1..n PROVE u[i] = w[i]
  <2>0. i \in 1..(Len(d) + Len(v))
    BY <1>6, <1>7
  <2>1. CASE i <= r - g
    <3>1. i \in 1..(r - g) /\ g + i \in 1..(g + n) /\ ~(g + i <= g) /\ (g + i) - g = i
      BY <1>1, <1>3, <2>1
    <3>2. w[i] = d[i]
      BY <1>4, <1>6, <2>0, <2>1
    <3> QED
      BY <1>2, <1>4, <3>1, <3>2
  <2>2. CASE ~(i <= r - g)
    <3>1. i - (r - g) \in 1..(n - (r - g)) /\ (r - g) + (i - (r - g)) = i
      BY <1>1, <1>3, <2>2
    <3>2. w[i] = v[i - (r - g)]
      BY <1>4, <1>6, <2>0, <2>2
    <3> QED
      BY <1>5, <3>1, <3>2
  <2> QED
    BY <2>1, <2>2
<1>9. u = w
  <2>1. Len(u) = Len(w) /\ \A i \in 1..Len(u) : u[i] = w[i]
    BY <1>7, <1>8 DEF n
  <2> QED
    BY <1>6, <2>1, SeqEqual
<1>10. Joins(u, d, v)
  BY <1>9, Zenon DEF Joins, w
<1> QED
  BY <1>4, <1>5, <1>10, Zenon DEF Piece, d, g

LEMMA ApartEnd ==
    ASSUME NEW K, NEW a \in Seq(K), NEW b \in Seq(K), NEW c, Joins(c, a, b), Apart(c)
    PROVE  Apart(b)
<1> DEFINE l == Len(a)
           n == Len(b)
<1>1. l \in Nat /\ n \in Nat
  OBVIOUS
<1>2. Len(c) = l + n /\ \A i \in 1..(l + n) : c[i] = IF i <= l THEN a[i] ELSE b[i - l]
  BY ConcatProperties DEF Joins
<1> HIDE DEF l
<1> SUFFICES ASSUME NEW i \in 1..n - 1, b[i] = "Esc", b[i + 1] = "[" PROVE FALSE
  BY DEF Apart
<1> HIDE DEF n
<1>3. /\ l + i \in 1..(l + n) - 1 /\ l + i \in 1..(l + n) /\ (l + i) + 1 \in 1..(l + n)
      /\ ~(l + i <= l) /\ ~((l + i) + 1 <= l) /\ (l + i) - l = i /\ ((l + i) + 1) - l = i + 1
  BY <1>1
<1>4. c[l + i] = b[i] /\ c[(l + i) + 1] = b[i + 1]
  BY <1>2, <1>3
<1> QED
  BY <1>2, <1>3, <1>4 DEF Apart

\* The names of the keys that were read are returned one at a time.
LEMMA Returned ==
    ASSUME NEW k \in Seq(KeyNames), NEW d \in Seq(KeyNames), NEW a \in Seq(PosixKeys), NEW first \in Seq(PosixKeys),
           Reading(k, <<>>, a), d = Spelled(Means, first), NEW r, NEW q,
           r = IF d = <<>> THEN k ELSE Append(k, Head(d)), q = IF d = <<>> THEN <<>> ELSE Tail(d)
    PROVE  r \in Seq(KeyNames) /\ q \in Seq(KeyNames) /\ Reading(r, q, a \o first)
<1>1. r \in Seq(KeyNames) /\ q \in Seq(KeyNames) /\ r \o q = k \o d /\ k \o <<>> = k
  <2>1. CASE d = <<>>
    BY <2>1
  <2>2. CASE d # <<>>
    <3> DEFINE h == Head(d)
               t == Tail(d)
    <3>1. h \in KeyNames /\ t \in Seq(KeyNames) /\ d = <<h>> \o t
      BY <2>2
    <3>2. r = Append(k, h) /\ q = t
      BY <2>2
    <3>3. k \o <<>> = k
      OBVIOUS
    <3> HIDE DEF h, t
    <3>4. Append(k, h) \in Seq(KeyNames) /\ Append(k, h) \o t = k \o (<<h>> \o t)
      BY <3>1
    <3> QED
      BY <3>1, <3>2, <3>3, <3>4, Zenon
  <2> QED
    BY <2>1, <2>2
<1>2. SpelledIn(Means, a, first, KeyNames)
  <2>1. a \in Seq(Names) /\ first \in Seq(Names)
    BY MeansOfPosix
  <2>2. Means \in [Names -> Seq(KeyNames)]
    BY Tables
  <2> QED
    BY <2>1, <2>2, SpelledJoins
<1> QED
  BY <1>1, <1>2, Zenon DEF Reading, SpelledIn

LEMMA Escaped == DecodeAnsi(<<"esc">>, TRUE).keys = <<"escape">> /\ DecodeAnsi(<<"esc">>, TRUE).rest = <<>>
<1> DEFINE d == <<"esc">>
<1>1. d \in Seq(Chars) /\ Len(d) = 1 /\ d[1] = "esc" /\ d # <<>>
  BY DEF Chars
<1> HIDE DEF d
<1>2. PICK f : Decodes(f, d, TRUE, Len(d)) /\ DecodeAnsi(d, TRUE) = f[Len(d)]
  BY <1>1, DecodedRuns
<1>3. f[1] = Decode(f, LastOf(d, 1), TRUE)
  <2>1. 1 \in 0..1
    OBVIOUS
  <2> QED
    BY <1>1, <1>2, <2>1, Zenon DEF Decodes
<1>4. LastOf(d, 1) = d
  BY <1>1 DEF LastOf
<1>5. Decode(f, d, TRUE) = [keys |-> <<"escape">>, rest |-> <<>>]
  BY <1>1, Zenon DEF Decode
<1>6. DecodeAnsi(d, TRUE) = [keys |-> <<"escape">>, rest |-> <<>>]
  BY <1>1, <1>2, <1>3, <1>4, <1>5, Zenon
<1>7. [keys |-> <<"escape">>, rest |-> <<>>].keys = <<"escape">> /\ [keys |-> <<"escape">>, rest |-> <<>>].rest = <<>>
  OBVIOUS
<1> QED
  BY <1>6, <1>7, Zenon DEF d

\* What the reader takes: the characters held back and those that arrived, of
\* which some keys are whole.
LEMMA PosixRead ==
    ASSUME KeyboardAssumption, ~windows, PosixInv, ReadPosix
    PROVE  PosixInv'
<1>1. PICK a \in Seq(PosixKeys), b \in Seq(PosixKeys) : PosixAt(a, b)
  BY DEF PosixInv
<1> DEFINE s == Spelled(PosixSends, presses)
           sa == Spelled(PosixSends, a)
           sb == Spelled(PosixSends, b)
           data == SubSeq(s, got + 1, arrived)
           x == held \o data
           decoded == DecodeAnsi(x, Expired(data))
<1>2. /\ queued = <<>> /\ presses' = presses /\ arrived' = arrived /\ got' = arrived /\ held' = decoded.rest
      /\ age' = (IF held # <<>> /\ decoded.rest = x THEN age ELSE 0)
      /\ keys' = (IF decoded.keys = <<>> THEN keys ELSE Append(keys, Head(decoded.keys)))
      /\ queued' = (IF decoded.keys = <<>> THEN <<>> ELSE Tail(decoded.keys))
  <2>1. Stream = s
    BY DEF Stream, Sends
  <2> QED
    BY <2>1, Zenon DEF ReadPosix
<1>3. /\ held \in Seq(Chars) /\ presses \in Seq(PosixKeys) /\ got \in Nat /\ arrived \in Nat /\ got <= arrived
      /\ keys \in Seq(KeyNames) /\ arrived <= Len(s) /\ age \in Nat
  BY DEF PosixInv, PosixTyped
<1>4. PICK u \in Seq(Chars) : Joins(sb, held, u)
  BY <1>1, Zenon DEF PosixAt
<1>5. /\ Joins(presses, a, b) /\ Reading(keys, <<>>, a) /\ Len(sa) + Len(held) = got /\ Apart(b)
      /\ (held = <<"esc">> /\ got = arrived /\ b[1] # "Esc" => age < Patience)
  BY <1>1, <1>2, Zenon DEF PosixAt
<1>6. s \in Seq(Chars) /\ sa \in Seq(Chars) /\ sb \in Seq(Chars) /\ Joins(s, sa, sb)
  BY <1>5, PosixSizes
<1>7. Patience \in Nat \ {0}
  BY DEF KeyboardAssumption
<1>e. Expired(data) = (held = <<"esc">> /\ age >= Patience /\ data = <<>>)
  BY Zenon DEF Expired
<1> HIDE DEF s, sa, sb, data, x, decoded
<1>8. Piece(s, got, arrived, u, data)
  <2> DEFINE p == sa \o held
  <2>1. p \in Seq(Chars) /\ Len(p) = got
    BY <1>3, <1>5, <1>6
  <2>2. Associates(sa, held, u)
    BY <1>3, <1>6, Associative
  <2>3. Joins(s, p, u)
    BY <1>4, <1>6, <2>2, Zenon DEF Joins, Associates
  <2> HIDE DEF p
  <2>4. Piece(s, Len(p), arrived, u, SubSeq(s, Len(p) + 1, arrived))
    BY <1>3, <2>1, <2>3, NextPiece
  <2> QED
    BY <2>1, <2>4, Zenon DEF data
<1>9. data \in Seq(Chars) /\ Len(data) = arrived - got
  BY <1>8, Zenon DEF Piece
<1>10. PICK v \in Seq(Chars) : Joins(u, data, v)
  BY <1>8, Zenon DEF Piece
<1>11. x \in Seq(Chars) /\ Len(x) = Len(held) + Len(data)
  BY <1>3, <1>9, ConcatProperties, Zenon DEF x
<1>12. Joins(sb, x, v)
  <2>1. Associates(held, data, v)
    BY <1>3, <1>9, Associative
  <2> QED
    BY <1>4, <1>10, <2>1, Zenon DEF Joins, Associates, x
<1>13. CASE Expired(data)
  <2> DEFINE h == <<"Esc">>
             e == Tail(b)
             c == a \o h
             se == Spelled(PosixSends, e)
             sc == Spelled(PosixSends, c)
             sh == Spelled(PosixSends, h)
  <2>1. held = <<"esc">> /\ ~(age < Patience) /\ data = <<>> /\ got = arrived
    <3>1. held = <<"esc">> /\ age >= Patience /\ data = <<>>
      BY <1>13, Zenon DEF Expired
    <3>2. got = arrived
      BY <1>3, <1>9, <3>1
    <3> QED
      BY <1>3, <1>7, <3>1, <3>2
  <2>2. x = <<"esc">> /\ Expired(data) = TRUE
    <3>1. <<"esc">> \o <<>> = <<"esc">>
      BY <1>3, <2>1
    <3>2. Expired(data) = TRUE
      BY <1>13, <1>e, Zenon
    <3> QED
      BY <2>1, <3>1, <3>2, Zenon DEF x
  <2>3. decoded.keys = <<"escape">> /\ decoded.rest = <<>>
    BY <2>2, Escaped, Zenon DEF decoded
  <2>4. b # <<>> /\ b[1] = "Esc" /\ e \in Seq(PosixKeys) /\ Joins(b, h, e) /\ Apart(e)
    <3>1. b # <<>>
      <4>1. Spelled(PosixSends, <<>>) = <<>>
        BY SpelledNone, Zenon
      <4>2. held # <<>>
        BY <2>1
      <4>3. sb # <<>>
        BY <1>3, <1>4, <4>2, JoinStarts
      <4> QED
        BY <4>1, <4>3, Zenon DEF sb
    <3>2. b[1] = "Esc"
      BY <1>5, <2>1
    <3>3. e \in Seq(PosixKeys) /\ Apart(e) /\ Joins(b, <<b[1]>>, e)
      BY <1>5, <3>1, ApartTail
    <3> QED
      BY <3>1, <3>2, <3>3, Zenon
  <2>5. h \in Seq(PosixKeys) /\ "Esc" \in PosixKeys /\ c \in Seq(PosixKeys)
    BY DEF PosixKeys
  <2>6. Spelled(Means, h) = <<"escape">> /\ Spelled(PosixSends, h) = <<"esc">>
    <3>1. PosixSends \in [PosixKeys -> Seq(Chars)] /\ Means \in [Names -> Seq(KeyNames)] /\ "Esc" \in Names
      BY <2>5, Tables DEF Names
    <3>2. Spelled(PosixSends, h) = PosixSends["Esc"]
      BY <2>5, <3>1, SpelledOne
    <3>3. Spelled(Means, h) = Means["Esc"]
      BY <3>1, SpelledOne
    <3> QED
      BY <3>2, <3>3, Rows
  <2> HIDE DEF e, h
  <2>7. keys' \in Seq(KeyNames) /\ queued' \in Seq(KeyNames) /\ Reading(keys', queued', c)
    <3> DEFINE d == decoded.keys
    <3>1. d = Spelled(Means, h) /\ d \in Seq(KeyNames)
      BY <2>3, <2>5, <2>6, MeansOfPosix
    <3>2. keys' = IF d = <<>> THEN keys ELSE Append(keys, Head(d))
      BY <1>2, Zenon
    <3>3. queued' = IF d = <<>> THEN <<>> ELSE Tail(d)
      BY <1>2, Zenon
    <3> HIDE DEF d
    <3> QED
      BY <1>3, <1>5, <2>5, <3>1, <3>2, <3>3, Returned
  <2>8. Joins(presses, c, e)
    <3>1. Associates(a, h, e)
      BY <2>4, <2>5, Associative
    <3> QED
      BY <1>5, <2>4, <3>1, Zenon DEF Joins, Associates
  <2>9. Len(sc) = arrived
    <3>1. Joins(c, a, h)
      BY DEF Joins
    <3>2. Len(sc) = Len(sa) + Len(sh)
      BY <2>5, <3>1, PosixSizes DEF sa
    <3>3. Len(sh) = 1 /\ Len(held) = 1
      BY <2>1, <2>6
    <3> HIDE DEF sc, sh
    <3> QED
      BY <1>5, <2>1, <3>2, <3>3
  <2>10. Joins(se, <<>>, se) /\ se \in Seq(Chars)
    <3>1. se \in Seq(Chars)
      BY <2>4, MeansOfPosix
    <3> HIDE DEF se
    <3> QED
      BY <3>1 DEF Joins
  <2>11. <<>> # <<"esc">> /\ Len(<<>>) = 0 /\ <<>> \in Seq(Chars)
    OBVIOUS
  <2>12. held' = <<>> /\ age' \in Nat
    BY <1>2, <1>3, <2>3
  <2> HIDE DEF c, se, sc
  <2>13. Len(sc) + Len(held') = got'
    BY <1>2, <1>3, <2>9, <2>11, <2>12
  <2>14. PosixAt(c, e)'
    BY <1>2, <2>4, <2>7, <2>8, <2>10, <2>11, <2>12, <2>13, Zenon DEF PosixAt, sc, se
  <2>15. PosixTyped'
    <3>1. arrived' <= Len(Spelled(PosixSends, presses'))
      BY <1>2, <1>3, Zenon DEF s
    <3>2. got' <= arrived'
      BY <1>2, <1>3
    <3> QED
      BY <1>2, <1>3, <2>7, <2>11, <2>12, <3>1, <3>2, Zenon DEF PosixTyped
  <2> QED
    BY <2>4, <2>5, <2>14, <2>15, Zenon DEF PosixInv
<1>14. CASE ~Expired(data)
  <2>1. decoded = DecodeAnsi(x, FALSE)
    <3>1. Expired(data) = FALSE
      BY <1>14, <1>e, Zenon
    <3> QED
      BY <3>1, Zenon DEF decoded
  <2>2. Said(decoded, x, b)
    <3>1. Said(DecodeAnsi(x, FALSE), x, b)
      BY <1>5, <1>11, <1>12, DecodedSays DEF sb
    <3> QED
      BY <2>1, <3>1, Zenon
  <2>3. PICK first \in Seq(PosixKeys), others \in Seq(PosixKeys) : Says(decoded, x, b, first, others)
    BY <2>2, Zenon DEF Said
  <2> DEFINE rest == decoded.rest
             d == decoded.keys
             c == a \o first
             sf == Spelled(PosixSends, first)
             so == Spelled(PosixSends, others)
             sc == Spelled(PosixSends, c)
  <2>4. Joins(b, first, others) /\ d = Spelled(Means, first) /\ Joins(x, sf, rest)
    BY <2>3, Zenon DEF Says, Joins
  <2>5. rest \in Seq(Chars) /\ d \in Seq(KeyNames)
    BY <2>2 DEF Said, Readings
  <2>6. sf \in Seq(Chars) /\ so \in Seq(Chars) /\ Joins(sb, sf, so) /\ (first # <<>> => Len(sf) >= 1)
    <3>1. sf \in Seq(Chars) /\ so \in Seq(Chars) /\ Joins(sb, sf, so)
      BY <2>4, PosixSizes DEF sb
    <3>2. Joins(first, <<>>, first) /\ <<>> \in Seq(PosixKeys)
      BY DEF Joins
    <3>3. first # <<>> => Len(sf) >= 1
      BY <3>2, PosixSizes
    <3> QED
      BY <3>1, <3>3
  <2>7. keys' \in Seq(KeyNames) /\ queued' \in Seq(KeyNames) /\ Reading(keys', queued', c)
    <3>2. keys' = IF d = <<>> THEN keys ELSE Append(keys, Head(d))
      BY <1>2, Zenon
    <3>3. queued' = IF d = <<>> THEN <<>> ELSE Tail(d)
      BY <1>2, Zenon
    <3>4. d = Spelled(Means, first) /\ d \in Seq(KeyNames)
      BY <2>4, <2>5
    <3> HIDE DEF d
    <3> QED
      BY <1>3, <1>5, <3>2, <3>3, <3>4, Returned
  <2>8. c \in Seq(PosixKeys) /\ Joins(c, a, first)
    BY DEF Joins
  <2> HIDE DEF rest, d, c, sf, so, sc
  <2>9. Joins(presses, c, others)
    <3>1. Associates(a, first, others)
      BY Associative
    <3> QED
      BY <1>5, <2>4, <2>8, <3>1, Zenon DEF Joins, Associates
  <2> DEFINE lx == Len(x)
             lf == Len(sf)
             lr == Len(rest)
             la == Len(sa)
             lh == Len(held)
             ld == Len(data)
             lc == Len(sc)
  <2>a. lx = lf + lr
    BY <2>4, <2>5, <2>6, SMT DEF Joins
  <2>b. /\ lx \in Nat /\ lf \in Nat /\ lr \in Nat /\ la \in Nat /\ lh \in Nat /\ ld \in Nat
        /\ lx = lh + ld /\ ld = arrived - got /\ la + lh = got
    <3>1. lx \in Nat /\ lf \in Nat
      BY <1>11, <2>6
    <3>2. lr \in Nat /\ la \in Nat
      BY <1>6, <2>5
    <3>3. lh \in Nat /\ ld \in Nat
      BY <1>3, <1>9
    <3> QED
      BY <1>5, <1>9, <1>11, <3>1, <3>2, <3>3, Zenon
  <2>10. Len(sc) + Len(rest) = arrived
    <3>1. lc = la + lf
      BY <2>8, PosixSizes DEF sa, sf, sc
    <3> HIDE DEF lx, lf, lr, la, lh, ld, lc
    <3>2. lc + lr = arrived
      BY <1>3, <2>a, <2>b, <3>1
    <3> QED
      BY <3>2, Zenon DEF lc, lr
  <2>11. Joins(so, rest, v)
    <3>1. Associates(sf, rest, v) /\ rest \o v \in Seq(Chars)
      BY <2>5, <2>6, Associative
    <3> DEFINE r == rest \o v
    <3>2. Cuts(sf, so, sf, r)
      BY <1>12, <2>4, <2>6, <3>1, Zenon DEF Cuts, Joins, Associates
    <3>3. r \in Seq(Chars)
      BY <3>1
    <3> HIDE DEF r
    <3>4. so = r
      BY <2>6, <3>2, <3>3, Cancels
    <3> QED
      BY <3>4 DEF Joins, r
  <2>12. Apart(others)
    BY <1>5, <2>4, ApartEnd
  <2>13. rest = <<"esc">> /\ others[1] # "Esc" => age' < Patience
    <3> SUFFICES ASSUME rest = <<"esc">>, others[1] # "Esc" PROVE age' < Patience
      OBVIOUS
    <3>1. age' = IF held # <<>> /\ rest = x THEN age ELSE 0
      BY <1>2, Zenon DEF rest
    <3>2. CASE held # <<>> /\ rest = x
      <4>1. lx = 1 /\ lr = lx /\ lh # 0
        BY <1>3, <3>2
      <4>3. ld = 0 /\ got = arrived /\ lf = 0
        <5> HIDE DEF lx, lf, lr, la, lh, ld, lc
        <5> QED
          BY <1>3, <2>a, <2>b, <4>1
      <4>4. data = <<>>
        BY <1>9, <4>3
      <4>5. x = held
        <5>1. held \o <<>> = held
          BY <1>3
        <5> QED
          BY <4>4, <5>1, Zenon DEF x
      <4>6. first = <<>>
        BY <2>6, <4>3
      <4>7. others = b
        <5>1. <<>> \o others = others
          OBVIOUS
        <5> QED
          BY <2>4, <4>6, <5>1, Zenon DEF Joins
      <4>8. held = <<"esc">> /\ b[1] # "Esc"
        BY <3>2, <4>5, <4>7
      <4> QED
        BY <1>5, <3>1, <3>2, <4>3, <4>8
    <3>3. CASE ~(held # <<>> /\ rest = x)
      BY <1>7, <3>1, <3>3
    <3> QED
      BY <3>2, <3>3
  <2>14. age' \in Nat
    BY <1>2, <1>3
  <2>15. PosixAt(c, others)'
    BY <1>2, <2>7, <2>9, <2>10, <2>11, <2>12, <2>13, Zenon DEF PosixAt, rest, sc, so
  <2>16. PosixTyped'
    <3>1. arrived' <= Len(Spelled(PosixSends, presses'))
      BY <1>2, <1>3, Zenon DEF s
    <3>2. got' <= arrived'
      BY <1>2, <1>3
    <3> QED
      BY <1>2, <1>3, <2>5, <2>7, <2>14, <3>1, <3>2, Zenon DEF PosixTyped, rest
  <2> QED
    BY <2>8, <2>15, <2>16, Zenon DEF PosixInv
<1> QED
  BY <1>13, <1>14

LEMMA JoinCut ==
    ASSUME NEW X, NEW a \in Seq(X), NEW b \in Seq(X), NEW s, Joins(s, a, b)
    PROVE  /\ SubSeq(s, 1, Len(a)) = a
           /\ (b # <<>> => Len(a) + 1 \in DOMAIN s /\ s[Len(a) + 1] = b[1])
<1> DEFINE l == Len(a)
           n == Len(b)
           q == SubSeq(s, 1, l)
<1>1. l \in Nat /\ n \in Nat /\ (b # <<>> => n # 0)
  OBVIOUS
<1>2. s \in Seq(X) /\ Len(s) = l + n /\ \A i \in 1..(l + n) : s[i] = IF i <= l THEN a[i] ELSE b[i - l]
  BY ConcatProperties DEF Joins
<1>3. q \in Seq(X) /\ Len(q) = l /\ \A i \in 1..l : q[i] = s[i]
  <2> HIDE DEF l, n
  <2> QED
    BY <1>1, <1>2
<1>4. q = a
  <2> HIDE DEF q
  <2>1. Len(q) = Len(a) /\ \A i \in 1..Len(q) : q[i] = a[i]
    BY <1>1, <1>2, <1>3
  <2> QED
    BY <1>3, <2>1, SeqEqual
<1>5. ASSUME b # <<>> PROVE l + 1 \in DOMAIN s /\ s[l + 1] = b[1]
  <2>1. DOMAIN s = 1..(l + n)
    BY <1>2
  <2> HIDE DEF l, n
  <2>2. l + 1 \in 1..(l + n) /\ ~(l + 1 <= l) /\ (l + 1) - l = 1
    BY <1>1, <1>5
  <2> QED
    BY <1>2, <2>1, <2>2
<1> QED
  BY <1>4, <1>5

\* Time passes, but not long after the Escape that starts a key.
LEMMA PosixPass ==
    ASSUME KeyboardAssumption, ~windows, PosixInv, Pass
    PROVE  PosixInv'
<1>1. PICK a \in Seq(PosixKeys), b \in Seq(PosixKeys) : PosixAt(a, b)
  BY DEF PosixInv
<1>2. /\ age < Patience /\ ~(AfterEscape /\ age = Patience - 1) /\ age' = age + 1
      /\ presses' = presses /\ keys' = keys /\ queued' = queued /\ held' = held /\ got' = got /\ arrived' = arrived
  BY DEF Pass
<1>3. age \in Nat /\ held \in Seq(Chars) /\ PosixTyped
  BY DEF PosixInv, PosixTyped
<1>4. Patience \in Nat
  BY DEF KeyboardAssumption
<1>5. ASSUME held = <<"esc">>, got = arrived, b[1] # "Esc" PROVE AfterEscape
  <2>1. Joins(presses, a, b) /\ Len(Spelled(PosixSends, a)) + Len(held) = got
    BY <1>1 DEF PosixAt
  <2> DEFINE s == PosixSends[b[1]]
             sb == Spelled(PosixSends, b)
             y == Spelled(PosixSends, Tail(b))
             n == Len(Spelled(PosixSends, a))
  <2>2. PICK u \in Seq(Chars) : Joins(sb, held, u)
    BY <1>1, Zenon DEF PosixAt
  <2>3. sb # <<>> /\ sb[1] = "esc"
    <3>1. held # <<>> /\ held[1] = "esc"
      BY <1>5
    <3> HIDE DEF sb
    <3> QED
      BY <1>3, <2>2, <3>1, JoinStarts
  <2>4. b # <<>>
    <3>1. Spelled(PosixSends, <<>>) = <<>>
      BY SpelledNone, Zenon
    <3> QED
      BY <2>3, <3>1, Zenon
  <2>5. b[1] \in PosixKeys /\ Joins(sb, s, y) /\ Tail(b) \in Seq(PosixKeys)
    <3>1. PosixSends \in [PosixKeys -> Seq(Chars)]
      BY Tables
    <3> QED
      BY <2>4, <3>1, SpelledHead
  <2>6. s \in Seq(Chars) /\ y \in Seq(Chars) /\ s # <<>>
    <3>1. s \in Seq(Chars) /\ y \in Seq(Chars)
      BY <2>5, Tables, MeansOfPosix
    <3>2. Len(s) >= 1
      BY <2>5, KeyStarts
    <3> QED
      BY <3>1, <3>2
  <2>7. s[1] = "esc"
    <3> HIDE DEF s, sb, y
    <3> QED
      BY <2>3, <2>5, <2>6, JoinStarts
  <2>8. Len(s) > 1
    BY <1>5, <2>5, <2>7, KeyStarts
  <2> DEFINE i == Len(a) + 1
  <2>9. i \in DOMAIN presses /\ presses[i] = b[1] /\ SubSeq(presses, 1, i - 1) = a
    <3>1. SubSeq(presses, 1, Len(a)) = a /\ Len(a) + 1 \in DOMAIN presses /\ presses[Len(a) + 1] = b[1]
      BY <2>1, <2>4, JoinCut
    <3>2. i - 1 = Len(a)
      OBVIOUS
    <3> QED
      BY <3>1, <3>2, Zenon
  <2>10. Sends = PosixSends
    BY DEF Sends
  <2> HIDE DEF i, s
  <2>11. arrived = n + 1
    BY <1>5, <2>1
  <2>12. arrived = Len(Spelled(Sends, SubSeq(presses, 1, i - 1))) + 1 /\ Len(Sends[presses[i]]) > 1
    BY <2>8, <2>9, <2>10, <2>11, Zenon DEF s
  <2> QED
    BY <2>9, <2>12, Zenon DEF AfterEscape
<1>6. held = <<"esc">> /\ got = arrived /\ b[1] # "Esc" => age + 1 < Patience
  BY <1>2, <1>3, <1>4, <1>5
<1>7. age + 1 \in Nat
  BY <1>3
<1>8. PosixAt(a, b)'
  BY <1>1, <1>2, <1>6, Zenon DEF PosixAt
<1>9. PosixTyped'
  BY <1>2, <1>3, <1>7, Zenon DEF PosixTyped
<1> QED
  BY <1>8, <1>9, Zenon DEF PosixInv

\* One more character arrives.
LEMMA PosixArrive ==
    ASSUME ~windows, PosixInv, Arrive
    PROVE  PosixInv'
<1>1. PICK a \in Seq(PosixKeys), b \in Seq(PosixKeys) : PosixAt(a, b)
  BY DEF PosixInv
<1>2. /\ arrived' = arrived + 1 /\ age' = age
      /\ presses' = presses /\ keys' = keys /\ queued' = queued /\ held' = held /\ got' = got
  BY DEF Arrive
<1>3. arrived < Len(Spelled(PosixSends, presses))
  BY DEF Arrive, Stream, Sends
<1>4. PosixTyped
  BY DEF PosixInv
<1>5. arrived \in Nat /\ got \in Nat /\ got <= arrived
  BY <1>4 DEF PosixTyped
<1>6. Len(Spelled(PosixSends, presses)) \in Nat
  BY <1>4, MeansOfPosix DEF PosixTyped
<1>7. got # arrived + 1 /\ got <= arrived + 1 /\ arrived + 1 \in Nat /\ arrived + 1 <= Len(Spelled(PosixSends, presses))
  BY <1>3, <1>5, <1>6
<1>8. PosixAt(a, b)'
  BY <1>1, <1>2, <1>7, Zenon DEF PosixAt
<1>9. PosixTyped'
  BY <1>2, <1>4, <1>7, Zenon DEF PosixTyped
<1> QED
  BY <1>8, <1>9, Zenon DEF PosixInv

LEMMA PosixPending ==
    ASSUME ~windows, PosixInv, Pending
    PROVE  PosixInv'
<1>1. PICK a \in Seq(PosixKeys), b \in Seq(PosixKeys) : PosixAt(a, b)
  BY DEF PosixInv
<1>2. /\ queued # <<>> /\ keys' = Append(keys, Head(queued)) /\ queued' = Tail(queued)
      /\ presses' = presses /\ arrived' = arrived /\ held' = held /\ got' = got /\ age' = age
  BY DEF Pending
<1>3. PosixTyped /\ keys \in Seq(KeyNames) /\ queued \in Seq(KeyNames)
  BY DEF PosixInv, PosixTyped
<1> DEFINE h == Head(queued)
           t == Tail(queued)
<1>4. h \in KeyNames /\ t \in Seq(KeyNames) /\ queued = <<h>> \o t
  BY <1>2, <1>3
<1> HIDE DEF h, t
<1>5. Append(keys, h) \in Seq(KeyNames) /\ Append(keys, h) \o t = keys \o (<<h>> \o t)
  BY <1>3, <1>4
<1>6. keys' \in Seq(KeyNames) /\ queued' \in Seq(KeyNames) /\ keys' \o queued' = keys \o queued
  BY <1>2, <1>4, <1>5, Zenon DEF h, t
<1>7. Reading(keys', queued', a)
  BY <1>1, <1>6, Zenon DEF PosixAt, Reading
<1>8. PosixAt(a, b)'
  BY <1>1, <1>2, <1>7, Zenon DEF PosixAt
<1>9. PosixTyped'
  BY <1>2, <1>3, <1>6, Zenon DEF PosixTyped
<1> QED
  BY <1>8, <1>9, Zenon DEF PosixInv

LEMMA PosixKeeps ==
    ASSUME PosixInv, UNCHANGED <<presses, keys, queued, held, got, arrived, age>>
    PROVE  PosixInv'
<1>1. PICK a \in Seq(PosixKeys), b \in Seq(PosixKeys) : PosixAt(a, b)
  BY DEF PosixInv
<1>2. PosixAt(a, b)'
  BY <1>1, Zenon DEF PosixAt
<1>3. PosixTyped'
  BY Zenon DEF PosixTyped, PosixInv
<1> QED
  BY <1>2, <1>3, Zenon DEF PosixInv

\* The keys that were read are the first that were pressed; all of them, when
\* nothing of them is left to read.
LEMMA PosixKeysTyped ==
    ASSUME ~windows, PosixInv
    PROVE  IsPrefix(keys \o queued, Meant) /\ (got = Len(Stream) /\ held = <<>> => keys \o queued = Meant)
<1>1. PICK a \in Seq(PosixKeys), b \in Seq(PosixKeys) : PosixAt(a, b)
  BY DEF PosixInv
<1> DEFINE ma == Spelled(Means, a)
           mb == Spelled(Means, b)
           na == Len(Spelled(PosixSends, a))
           nb == Len(Spelled(PosixSends, b))
<1>2. Joins(presses, a, b) /\ keys \o queued = ma /\ na + Len(held) = got
  BY <1>1, Zenon DEF PosixAt, Reading
<1>3. ma \in Seq(KeyNames) /\ mb \in Seq(KeyNames) /\ a \in Seq(Names) /\ b \in Seq(Names)
  BY MeansOfPosix
<1>4. Joins(Meant, ma, mb)
  <2>1. Means \in [Names -> Seq(KeyNames)]
    BY Tables
  <2>2. SpelledIn(Means, a, b, KeyNames)
    BY <1>3, <2>1, SpelledJoins
  <2> QED
    BY <1>2, <2>2, Zenon DEF SpelledIn, Joins, Meant
<1> HIDE DEF ma, mb
<1>5. IsPrefix(keys \o queued, Meant)
  <2>1. IsPrefix(ma, Meant)
    BY <1>3, <1>4, PrefixOf
  <2> QED
    BY <1>2, <2>1, Zenon
<1>6. ASSUME got = Len(Stream), held = <<>> PROVE keys \o queued = Meant
  <2>1. Len(Stream) = na + nb /\ (b # <<>> => nb >= 1)
    <3>1. Stream = Spelled(PosixSends, presses)
      BY DEF Stream, Sends
    <3> QED
      BY <1>2, <3>1, PosixSizes
  <2>2. na \in Nat /\ nb \in Nat
    BY MeansOfPosix
  <2>3. Len(held) = 0
    BY <1>6
  <2>4. nb = 0
    <3> HIDE DEF na, nb
    <3> QED
      BY <1>2, <1>6, <2>1, <2>2, <2>3
  <2>5. b = <<>>
    BY <2>1, <2>4
  <2>6. mb = <<>>
    BY <2>5, SpelledNone, Zenon DEF mb
  <2>7. ma \o <<>> = ma
    BY <1>3
  <2> QED
    BY <1>2, <1>4, <2>6, <2>7, Zenon DEF Joins
<1> QED
  BY <1>5, <1>6

-----------------------------------------------------------------------------
(* A Windows console *)

LEMMA JoinAt ==
    ASSUME NEW X, NEW a \in Seq(X), NEW b \in Seq(X), NEW s, Joins(s, a, b)
    PROVE  /\ s \in Seq(X) /\ Len(s) = Len(a) + Len(b)
           /\ \A i \in 1..Len(a) : s[i] = a[i]
           /\ \A i \in 1..Len(b) : s[Len(a) + i] = b[i]
<1> DEFINE l == Len(a)
           n == Len(b)
<1>1. l \in Nat /\ n \in Nat
  OBVIOUS
<1>2. s \in Seq(X) /\ Len(s) = l + n /\ \A i \in 1..(l + n) : s[i] = IF i <= l THEN a[i] ELSE b[i - l]
  BY ConcatProperties DEF Joins
<1> HIDE DEF l, n
<1>3. ASSUME NEW i \in 1..l PROVE s[i] = a[i]
  BY <1>1, <1>2
<1>4. ASSUME NEW i \in 1..n PROVE s[l + i] = b[i]
  <2>1. l + i \in 1..(l + n) /\ ~(l + i <= l) /\ (l + i) - l = i
    BY <1>1
  <2> QED
    BY <1>2, <2>1
<1> QED
  BY <1>2, <1>3, <1>4 DEF l, n

Scanned == {"Up", "F5"}

LEMMA WindowsStarts ==
    ASSUME NEW k \in WindowsKeys
    PROVE  /\ k \in Scanned => /\ Len(WindowsSends[k]) = 2 /\ WindowsSends[k][1] \in {"e0", "00"}
                               /\ DecodeWindows(WindowsSends[k][1], WindowsSends[k][2]) = Means[k]
           /\ k \notin Scanned => /\ Len(WindowsSends[k]) = 1 /\ DecodeWindows(WindowsSends[k][1], "") = Means[k]
                                  /\ (WindowsSends[k][1] \in {"e0", "00"} => k = "a-grave")
<1> DEFINE s == WindowsSends[k]
<1>1. CASE k = "Up"
  <2>1. s = <<"e0", "H">> /\ Means[k] = <<"up">>
    BY <1>1, Rows
  <2>2. Len(s) = 2 /\ s[1] = "e0" /\ s[2] = "H"
    BY <2>1
  <2> HIDE DEF s
  <2>3. DecodeWindows("e0", "H") = <<"up">>
    BY DEF DecodeWindows, ScanCodes
  <2> QED
    BY <1>1, <2>1, <2>2, <2>3 DEF Scanned, s
<1>2. CASE k = "F5"
  <2>1. s = <<"00", "?">> /\ Means[k] = <<>>
    BY <1>2, Rows
  <2>2. Len(s) = 2 /\ s[1] = "00" /\ s[2] = "?"
    BY <2>1
  <2> HIDE DEF s
  <2>3. DecodeWindows("00", "?") = <<>>
    BY DEF DecodeWindows, ScanCodes
  <2> QED
    BY <1>2, <2>1, <2>2, <2>3 DEF Scanned, s
<1>3. CASE k = "a-grave"
  <2>1. s = <<"e0">> /\ Means[k] = <<>>
    BY <1>3, Rows
  <2>2. Len(s) = 1 /\ s[1] = "e0"
    BY <2>1
  <2> HIDE DEF s
  <2>3. DecodeWindows("e0", "") = <<>>
    BY DEF DecodeWindows, ScanCodes
  <2> QED
    BY <1>3, <2>1, <2>2, <2>3 DEF Scanned, s
<1>4. CASE k = "H"
  <2>1. s = <<"H">> /\ Means[k] = <<"H">>
    BY <1>4, Rows
  <2>2. Len(s) = 1 /\ s[1] = "H"
    BY <2>1
  <2> HIDE DEF s
  <2>3. DecodeWindows("H", "") = <<"H">>
    BY DEF DecodeWindows, DecodePlain
  <2> QED
    BY <1>4, <2>1, <2>2, <2>3 DEF Scanned, s
<1>5. CASE k = "Esc"
  <2>1. s = <<"esc">> /\ Means[k] = <<"escape">>
    BY <1>5, Rows
  <2>2. Len(s) = 1 /\ s[1] = "esc"
    BY <2>1
  <2> HIDE DEF s
  <2>3. DecodeWindows("esc", "") = <<"escape">>
    BY DEF DecodeWindows, DecodePlain
  <2> QED
    BY <1>5, <2>1, <2>2, <2>3 DEF Scanned, s
<1> QED
  BY <1>1, <1>2, <1>3, <1>4, <1>5 DEF WindowsKeys

LEMMA WindowsSizes ==
    ASSUME NEW s, NEW a \in Seq(WindowsKeys), NEW b \in Seq(WindowsKeys), Joins(s, a, b)
    PROVE  /\ s \in Seq(WindowsKeys)
           /\ Spelled(WindowsSends, s) \in Seq(Chars) /\ Spelled(WindowsSends, a) \in Seq(Chars) /\ Spelled(WindowsSends, b) \in Seq(Chars)
           /\ Joins(Spelled(WindowsSends, s), Spelled(WindowsSends, a), Spelled(WindowsSends, b))
           /\ Len(Spelled(WindowsSends, s)) = Len(Spelled(WindowsSends, a)) + Len(Spelled(WindowsSends, b))
           /\ (b # <<>> => Len(Spelled(WindowsSends, b)) >= 1)
<1>1. WindowsSends \in [WindowsKeys -> Seq(Chars)]
  BY Tables
<1>2. Sending(WindowsSends, WindowsKeys)
  <2>1. ASSUME NEW k \in WindowsKeys PROVE Len(WindowsSends[k]) >= 1
    <3> DEFINE n == Len(WindowsSends[k])
    <3>1. n = 2 \/ n = 1
      BY WindowsStarts
    <3> HIDE DEF n
    <3>2. n >= 1
      BY <3>1
    <3> QED
      BY <3>2 DEF n
  <2> QED
    BY <2>1 DEF Sending
<1> QED
  BY <1>1, <1>2, SpelledSize

Sized(s, a, b) ==
    LET w(q) == Spelled(WindowsSends, q)
    IN w(s) \in Seq(Chars) /\ Joins(w(s), w(a), w(b)) /\ Len(w(s)) = Len(w(a)) + Len(w(b)) /\ (b # <<>> => Len(w(b)) >= 1)

LEMMA WindowsSized ==
    ASSUME NEW s, NEW a \in Seq(WindowsKeys), NEW b \in Seq(WindowsKeys), Joins(s, a, b)
    PROVE  Sized(s, a, b)
BY WindowsSizes, Zenon DEF Sized

LEMMA MeansOfWindows ==
    ASSUME NEW b \in Seq(WindowsKeys)
    PROVE  b \in Seq(Names) /\ Spelled(Means, b) \in Seq(KeyNames) /\ Spelled(WindowsSends, b) \in Seq(Chars)
<1>1. b \in Seq(Names)
  BY DEF Names
<1>2. Means \in [Names -> Seq(KeyNames)] /\ WindowsSends \in [WindowsKeys -> Seq(Chars)]
  BY Tables
<1>3. Spelled(Means, b) \in Seq(KeyNames)
  BY <1>1, <1>2, SpelledTyped
<1>4. Spelled(WindowsSends, b) \in Seq(Chars)
  BY <1>2, SpelledTyped
<1> QED
  BY <1>1, <1>3, <1>4

\* Only the last key is a letter that is also the start of another key.
Clear(d) == \A i \in 1..Len(d) - 1 : d[i] # "a-grave"

\* The keys a were read, b arrived, and c did not.
WindowsAt(a, b, c, d) ==
    /\ Joins(presses, a, d) /\ Joins(d, b, c) /\ Reading(keys, <<>>, a) /\ Clear(d)
    /\ got = Len(Spelled(WindowsSends, a)) /\ arrived = got + Len(Spelled(WindowsSends, b))

WindowsTyped ==
    /\ presses \in Seq(WindowsKeys) /\ keys \in Seq(KeyNames) /\ queued = <<>> /\ held = <<>>
    /\ got \in Nat /\ arrived \in Nat

WindowsInv == WindowsTyped /\ \E a, b, c, d \in Seq(WindowsKeys) : WindowsAt(a, b, c, d)

LEMMA WindowsPress ==
    ASSUME windows, WindowsInv, NEW k \in DOMAIN Sends, Press(k)
    PROVE  WindowsInv'
<1>1. PICK a \in Seq(WindowsKeys), b \in Seq(WindowsKeys), c \in Seq(WindowsKeys), d \in Seq(WindowsKeys) : WindowsAt(a, b, c, d)
  BY DEF WindowsInv
<1>2. k \in WindowsKeys
  BY DEF Sends, WindowsSends
<1> DEFINE e == Append(d, k)
           f == Append(c, k)
           q == Append(presses, k)
<1>3. /\ presses' = q /\ keys' = keys /\ queued' = queued /\ held' = held /\ got' = got /\ arrived' = arrived
      /\ ~Ambiguous(k)
  BY DEF Press
<1>4. e \in Seq(WindowsKeys) /\ f \in Seq(WindowsKeys) /\ q \in Seq(WindowsKeys)
  BY <1>2 DEF WindowsInv, WindowsTyped
<1>5. Joins(q, a, e) /\ Joins(e, b, f)
  <2>1. Appends(a, d, k) /\ Appends(b, c, k)
    BY <1>2, Appended
  <2> QED
    BY <1>1, <2>1, Zenon DEF WindowsAt, Joins, Appends
<1>6. Clear(e)
  <2> SUFFICES ASSUME NEW i \in 1..Len(e) - 1, e[i] = "a-grave" PROVE FALSE
    BY DEF Clear
  <2>1. Len(e) = Len(d) + 1 /\ Len(d) \in Nat /\ \A j \in 1..Len(d) : e[j] = d[j]
    BY <1>2
  <2>2. CASE i # Len(d)
    <3>1. i \in 1..Len(d) - 1 /\ i \in 1..Len(d)
      BY <2>1, <2>2
    <3>2. d[i] = "a-grave"
      BY <2>1, <3>1
    <3> QED
      BY <1>1, <3>1, <3>2 DEF WindowsAt, Clear
  <2>3. CASE i = Len(d)
    <3>1. Len(d) \in 1..Len(d) /\ d[Len(d)] = "a-grave"
      BY <2>1, <2>3
    <3>2. d # <<>>
      BY <3>1
    <3>0. Joins(presses, a, d)
      BY <1>1, Zenon DEF WindowsAt
    <3>3. presses # <<>> /\ presses[Len(presses)] = d[Len(d)]
      <4>2. EndsAs(a, d, k, k)
        BY <1>2, <3>2, LastOfBoth
      <4> QED
        BY <3>0, <4>2, Zenon DEF Joins, EndsAs
    <3>4. got < Len(Stream)
      <4> DEFINE n == Len(Spelled(WindowsSends, a))
                 m == Len(Spelled(WindowsSends, d))
      <4>1. Len(Stream) = n + m /\ m >= 1
        <5>2. Stream = Spelled(WindowsSends, presses)
          BY DEF Stream, Sends
        <5> QED
          BY <3>2, <3>0, <5>2, WindowsSizes
      <4>2. n \in Nat /\ m \in Nat
        BY MeansOfWindows
      <4>3. got = n
        BY <1>1, Zenon DEF WindowsAt
      <4> HIDE DEF n, m
      <4> QED
        BY <4>1, <4>2, <4>3
    <3> QED
      BY <1>3, <3>1, <3>3, <3>4, Zenon DEF Ambiguous
  <2> QED
    BY <2>2, <2>3
<1> HIDE DEF e, f, q
<1>7. WindowsAt(a, b, f, e)'
  BY <1>1, <1>3, <1>5, <1>6, Zenon DEF WindowsAt
<1>8. WindowsTyped'
  BY <1>3, <1>4, Zenon DEF WindowsInv, WindowsTyped
<1> QED
  BY <1>4, <1>7, <1>8, Zenon DEF WindowsInv

\* In what is not read, a letter that also starts a key is all there is.
LEMMA ClearTail ==
    ASSUME NEW d \in Seq(WindowsKeys), d # <<>>, Clear(d)
    PROVE  /\ d[1] \in WindowsKeys /\ Tail(d) \in Seq(WindowsKeys) /\ Joins(d, <<d[1]>>, Tail(d)) /\ Clear(Tail(d))
           /\ d[1] = "a-grave" => Len(d) = 1
<1> DEFINE e == Tail(d)
           n == Len(d)
<1>1. d[1] \in WindowsKeys /\ e \in Seq(WindowsKeys) /\ n \in Nat \ {0} /\ Len(e) = n - 1 /\ \A i \in 1..n - 1 : e[i] = d[i + 1]
  OBVIOUS
<1>2. d = <<d[1]>> \o e
  OBVIOUS
<1> HIDE DEF e, n
<1>3. \A i \in 1..n - 1 : d[i] # "a-grave"
  BY DEF Clear, n
<1>4. Clear(e)
  <2> SUFFICES ASSUME NEW i \in 1..Len(e) - 1 PROVE e[i] # "a-grave"
    BY DEF Clear
  <2>1. i \in 1..n - 1 /\ i + 1 \in 1..n - 1
    BY <1>1
  <2> QED
    BY <1>1, <1>3, <2>1
<1>5. d[1] = "a-grave" => n = 1
  BY <1>1, <1>3
<1> QED
  BY <1>1, <1>2, <1>4, <1>5, Zenon DEF Joins, e, n

LEMMA ClearEnd ==
    ASSUME NEW b \in Seq(WindowsKeys), NEW c \in Seq(WindowsKeys), NEW d, Joins(d, b, c), Clear(d)
    PROVE  Clear(c)
<1> DEFINE l == Len(b)
           n == Len(c)
<1>1. l \in Nat /\ n \in Nat
  OBVIOUS
<1>2. Len(d) = l + n /\ \A i \in 1..n : d[l + i] = c[i]
  BY JoinAt
<1> HIDE DEF l
<1> SUFFICES ASSUME NEW i \in 1..n - 1 PROVE c[i] # "a-grave"
  BY DEF Clear
<1> HIDE DEF n
<1>3. l + i \in 1..(l + n) - 1 /\ i \in 1..n
  BY <1>1
<1> QED
  BY <1>2, <1>3 DEF Clear

\* The first key of r, that follows q in p, and e after it.
Splits(p, q, k, e) ==
    LET n == Len(Spelled(WindowsSends, q))
        s == WindowsSends[k]
        m == Len(s)
        l == Len(Spelled(WindowsSends, e))
        v == Spelled(WindowsSends, p)
    IN /\ n \in Nat /\ l \in Nat /\ v \in Seq(Chars) /\ Len(v) = n + m + l
       /\ Len(Spelled(WindowsSends, Append(q, k))) = n + m /\ \A i \in 1..m : v[n + i] = s[i]
       /\ (e # <<>> => l >= 1) /\ (e = <<>> => l = 0)

LEMMA NextSent ==
    ASSUME NEW p, NEW q \in Seq(WindowsKeys), NEW r \in Seq(WindowsKeys), Joins(p, q, r), r # <<>>
    PROVE  /\ r[1] \in WindowsKeys /\ Tail(r) \in Seq(WindowsKeys) /\ Append(q, r[1]) \in Seq(WindowsKeys)
           /\ Joins(p, Append(q, r[1]), Tail(r)) /\ Splits(p, q, r[1], Tail(r))
<1> DEFINE k == r[1]
           e == Tail(r)
           g == Append(q, k)
           h == <<k>>
           s == WindowsSends[k]
           sq == Spelled(WindowsSends, q)
           se == Spelled(WindowsSends, e)
           sg == Spelled(WindowsSends, g)
           v == Spelled(WindowsSends, p)
<1>1. k \in WindowsKeys /\ e \in Seq(WindowsKeys) /\ h \in Seq(WindowsKeys) /\ r = h \o e
  OBVIOUS
<1>2. g \in Seq(WindowsKeys) /\ g = q \o h
  BY <1>1
<1>3. Joins(p, g, e)
  <2>1. Associates(q, h, e)
    BY <1>1, Associative
  <2> QED
    BY <1>1, <1>2, <2>1, Zenon DEF Joins, Associates
<1>5. s \in Seq(Chars) /\ sq \in Seq(Chars) /\ se \in Seq(Chars) /\ sg \in Seq(Chars)
  BY <1>1, <1>2, Tables, MeansOfWindows
<1>6. Joins(sg, sq, s)
  <2>1. sg = Adding(sq, WindowsSends, k)
    BY <1>1, SpelledGrows
  <2> QED
    BY <2>1, Zenon DEF Joins, Adding
<1>7. v \in Seq(Chars) /\ Joins(v, sg, se) /\ Len(v) = Len(sg) + Len(se) /\ (e # <<>> => Len(se) >= 1)
  <2>1. Sized(p, g, e)
    <3> HIDE DEF g, e
    <3> QED
      BY <1>1, <1>2, <1>3, WindowsSized
  <2> QED
    BY <2>1, Zenon DEF Sized
<1>8. e = <<>> => Len(se) = 0
  <2>1. Spelled(WindowsSends, <<>>) = <<>>
    BY SpelledNone, Zenon
  <2> SUFFICES ASSUME e = <<>> PROVE Len(se) = 0
    OBVIOUS
  <2>2. se = <<>>
    BY <2>1, Zenon
  <2> HIDE DEF se
  <2> QED
    BY <2>2
<1> DEFINE n == Len(sq)
           m == Len(s)
           l == Len(se)
<1>9. n \in Nat /\ m \in Nat /\ l \in Nat
  BY <1>5
<1> HIDE DEF k, e, g, h, s, sq, se, sg, v
<1>10. Len(sg) = n + m /\ \A i \in 1..m : sg[n + i] = s[i]
  BY <1>5, <1>6, JoinAt
<1>11. \A i \in 1..Len(sg) : v[i] = sg[i]
  BY <1>5, <1>7, JoinAt
<1>12. ASSUME NEW i \in 1..m PROVE v[n + i] = s[i]
  <2> HIDE DEF n, m
  <2>1. n + i \in 1..(n + m)
    BY <1>9
  <2> QED
    BY <1>10, <1>11, <2>1
<1>13. Len(v) = n + m + l
  <2> HIDE DEF n, m, l
  <2> QED
    BY <1>7, <1>9, <1>10 DEF l
<1>14. Splits(p, q, k, e)
  BY <1>7, <1>8, <1>9, <1>10, <1>12, <1>13, Zenon DEF Splits, s, sq, se, sg, g, v
<1> QED
  BY <1>1, <1>2, <1>3, <1>14, Zenon DEF k, e, g

\* What arrives of the first key c of those that did not.
LEMMA WindowsArrive ==
    ASSUME windows, WindowsInv, Arrive
    PROVE  WindowsInv'
<1>1. PICK a \in Seq(WindowsKeys), b \in Seq(WindowsKeys), c \in Seq(WindowsKeys), d \in Seq(WindowsKeys) : WindowsAt(a, b, c, d)
  BY DEF WindowsInv
<1>2. WindowsTyped
  BY DEF WindowsInv
<1> DEFINE v == Spelled(WindowsSends, presses)
           p == a \o b
           x == v[arrived + 1]
<1>3. /\ arrived' = (IF x \in {"e0", "00"} /\ arrived + 2 <= Len(v) THEN arrived + 2 ELSE arrived + 1)
      /\ arrived < Len(v)
      /\ presses' = presses /\ keys' = keys /\ queued' = queued /\ held' = held /\ got' = got
  <2>1. v = Stream
    BY DEF Stream, Sends
  <2> QED
    BY <2>1, Zenon DEF Arrive
<1>4. /\ Joins(presses, a, d) /\ Joins(d, b, c) /\ Clear(d)
      /\ got = Len(Spelled(WindowsSends, a)) /\ arrived = got + Len(Spelled(WindowsSends, b))
  BY <1>1, Zenon DEF WindowsAt
<1>5. p \in Seq(WindowsKeys) /\ Joins(p, a, b)
  BY DEF Joins
<1>6. Joins(presses, p, c)
  <2>1. Associates(a, b, c)
    BY Associative
  <2> QED
    BY <1>4, <2>1, Zenon DEF Joins, Associates
<1>7. arrived = Len(Spelled(WindowsSends, p))
  <2>1. Len(Spelled(WindowsSends, p)) = Len(Spelled(WindowsSends, a)) + Len(Spelled(WindowsSends, b))
    BY <1>5, WindowsSizes
  <2> QED
    BY <1>4, <2>1, Zenon
<1> HIDE DEF p
<1>8. arrived \in Nat
  BY <1>2 DEF WindowsTyped
<1>9. c # <<>>
  <2> SUFFICES ASSUME c = <<>> PROVE FALSE
    OBVIOUS
  <2>1. Len(v) = Len(Spelled(WindowsSends, p)) + Len(Spelled(WindowsSends, c))
    <3>1. Sized(presses, p, c)
      BY <1>5, <1>6, WindowsSized
    <3> QED
      BY <3>1, Zenon DEF Sized
  <2>2. Spelled(WindowsSends, c) = <<>>
    BY SpelledNone, Zenon
  <2> DEFINE l == Len(Spelled(WindowsSends, c))
             n == Len(v)
  <2>3. l = 0
    <3> HIDE DEF v
    <3> QED
      BY <2>2
  <2> HIDE DEF v, l, n
  <2>4. n = arrived + l
    BY <1>7, <2>1, Zenon DEF n, l
  <2>5. arrived < n
    BY <1>3 DEF n
  <2> QED
    BY <1>8, <2>3, <2>4, <2>5
<1> DEFINE k == c[1]
           e == Tail(c)
           f == Append(b, k)
           s == WindowsSends[k]
           m == Len(s)
           l == Len(Spelled(WindowsSends, e))
<1>10. k \in WindowsKeys /\ e \in Seq(WindowsKeys) /\ Splits(presses, p, k, e)
  BY <1>5, <1>6, <1>9, NextSent
<1>11. f \in Seq(WindowsKeys) /\ Joins(d, f, e) /\ Splits(d, b, k, e)
  BY <1>4, <1>9, NextSent
<1>12. k = "a-grave" => e = <<>>
  <2>1. Clear(c)
    BY <1>4, ClearEnd
  <2>2. k = "a-grave" => Len(c) = 1
    BY <1>9, <2>1, ClearTail
  <2>3. Len(c) = 1 => e = <<>>
    <3>1. e \in Seq(WindowsKeys) /\ Len(e) = Len(c) - 1 /\ Len(c) \in Nat
      BY <1>9
    <3> HIDE DEF e
    <3> QED
      BY <3>1
  <2> QED
    BY <2>2, <2>3, Zenon
<1>13. /\ l \in Nat /\ Len(v) = arrived + m + l /\ \A i \in 1..m : v[arrived + i] = s[i]
       /\ (e = <<>> => l = 0)
  BY <1>7, <1>10, Zenon DEF Splits
<1>14. Len(Spelled(WindowsSends, f)) = Len(Spelled(WindowsSends, b)) + m
  BY <1>11, Zenon DEF Splits
<1> DEFINE y == s[1]
<1>15. /\ k \in Scanned => m = 2 /\ y \in {"e0", "00"}
       /\ k \notin Scanned => m = 1 /\ (y \in {"e0", "00"} => k = "a-grave")
  BY <1>10, WindowsStarts, Zenon
<1>16. x = y
  <2> HIDE DEF v, s, m
  <2>1. m = 1 \/ m = 2
    BY <1>15
  <2>2. 1 \in 1..m
    BY <2>1
  <2> QED
    BY <1>13, <2>2, Zenon
<1> DEFINE z == Len(v)
<1>17. arrived' = IF y \in {"e0", "00"} /\ arrived + 2 <= z THEN arrived + 2 ELSE arrived + 1
  BY <1>3, <1>16, Zenon
<1>18. z = arrived + m + l
  BY <1>13, Zenon
<1> HIDE DEF v, k, e, f, s, m, l, x, y, z
<1>19. arrived' = arrived + m
  <2>1. CASE k \in Scanned
    BY <1>8, <1>13, <1>15, <1>17, <1>18, <2>1
  <2>2. CASE k \notin Scanned /\ y \in {"e0", "00"}
    <3>1. l = 0 /\ m = 1
      BY <1>12, <1>13, <1>15, <2>2
    <3> QED
      BY <1>8, <1>17, <1>18, <3>1
  <2>3. CASE k \notin Scanned /\ y \notin {"e0", "00"}
    BY <1>15, <1>17, <2>3
  <2> QED
    BY <2>1, <2>2, <2>3
<1>20. m \in Nat
  BY <1>15
<1>21. arrived' = got + Len(Spelled(WindowsSends, f)) /\ arrived' \in Nat
  <2> DEFINE n == Len(Spelled(WindowsSends, b))
             nf == Len(Spelled(WindowsSends, f))
  <2>1. n \in Nat /\ got \in Nat
    BY <1>2, MeansOfWindows DEF WindowsTyped
  <2>2. arrived = got + n /\ nf = n + m
    BY <1>4, <1>14, Zenon
  <2> HIDE DEF n, nf
  <2>3. arrived' = got + nf /\ arrived' \in Nat
    BY <1>19, <1>20, <2>1, <2>2
  <2> QED
    BY <2>3 DEF nf
<1>22. WindowsAt(a, f, e, d)'
  BY <1>1, <1>3, <1>11, <1>21, Zenon DEF WindowsAt
<1>23. WindowsTyped'
  BY <1>2, <1>3, <1>21, Zenon DEF WindowsTyped
<1> QED
  BY <1>10, <1>11, <1>22, <1>23, Zenon DEF WindowsInv

LEMMA TailOf ==
    ASSUME NEW X, NEW k \in X, NEW a \in Seq(X)
    PROVE  Tail(<<k>> \o a) = a
OBVIOUS

\* The first key k of those that arrived is read.
LEMMA WindowsRead ==
    ASSUME windows, WindowsInv, ReadWindows
    PROVE  WindowsInv'
<1>1. PICK a \in Seq(WindowsKeys), b \in Seq(WindowsKeys), c \in Seq(WindowsKeys), d \in Seq(WindowsKeys) : WindowsAt(a, b, c, d)
  BY DEF WindowsInv
<1>2. WindowsTyped
  BY DEF WindowsInv
<1> DEFINE v == Spelled(WindowsSends, presses)
           x == v[got + 1]
           scans == x \in {"e0", "00"} /\ got + 1 < arrived
<1>3. /\ got' = (IF scans THEN got + 2 ELSE got + 1)
      /\ keys' = keys \o DecodeWindows(x, IF scans THEN v[got + 2] ELSE "")
      /\ got < arrived
      /\ presses' = presses /\ queued' = queued /\ held' = held /\ arrived' = arrived
  <2>1. v = Stream
    BY DEF Stream, Sends
  <2> QED
    BY <2>1, Zenon DEF ReadWindows
<1>4. /\ Joins(presses, a, d) /\ Joins(d, b, c) /\ Clear(d) /\ Reading(keys, <<>>, a)
      /\ got = Len(Spelled(WindowsSends, a)) /\ arrived = got + Len(Spelled(WindowsSends, b))
  BY <1>1, Zenon DEF WindowsAt
<1>5. got \in Nat /\ arrived \in Nat /\ keys \in Seq(KeyNames)
  BY <1>2 DEF WindowsTyped
<1>6. b # <<>>
  <2> SUFFICES ASSUME b = <<>> PROVE FALSE
    OBVIOUS
  <2>1. Spelled(WindowsSends, b) = <<>>
    BY SpelledNone, Zenon
  <2> DEFINE l == Len(Spelled(WindowsSends, b))
  <2>2. l = 0
    BY <2>1
  <2>3. arrived = got + l
    BY <1>4
  <2>4. got < arrived
    BY <1>3
  <2> HIDE DEF l
  <2> QED
    BY <1>5, <2>2, <2>3, <2>4
<1> DEFINE k == b[1]
           e == Tail(b)
           t == Tail(d)
           f == Append(a, k)
<1>7. d # <<>> /\ d[1] = k
  BY <1>4, <1>6, JoinStarts
<1>8. b = <<k>> \o e /\ k \in WindowsKeys /\ e \in Seq(WindowsKeys)
  BY <1>6
<1>9. t \in Seq(WindowsKeys) /\ Joins(d, <<k>>, t) /\ Clear(t) /\ (k = "a-grave" => Len(d) = 1)
  BY <1>4, <1>7, ClearTail
<1>10. f \in Seq(WindowsKeys) /\ Joins(presses, f, t) /\ Splits(presses, a, k, t)
  BY <1>4, <1>7, NextSent
<1>11. Joins(t, e, c)
  <2> DEFINE h == <<k>>
             ec == e \o c
  <2>1. h \in Seq(WindowsKeys) /\ ec \in Seq(WindowsKeys)
    BY <1>8
  <2>2. Associates(h, e, c)
    BY <1>8, <2>1, Associative
  <2>3. d = h \o ec
    BY <1>4, <1>8, <2>2, Zenon DEF Joins, Associates
  <2>4. d = h \o t
    BY <1>9, Zenon DEF Joins
  <2>5. Tail(h \o ec) = ec /\ Tail(h \o t) = t
    <3> HIDE DEF k, t, ec
    <3> QED
      BY <1>8, <1>9, <2>1, TailOf
  <2> HIDE DEF h, e, t, ec
  <2> QED
    BY <2>3, <2>4, <2>5, Zenon DEF Joins, ec
<1>12. k = "a-grave" => e = <<>>
  <2> SUFFICES ASSUME k = "a-grave" PROVE e = <<>>
    OBVIOUS
  <2>1. Len(d) = 1 /\ Len(d) = Len(b) + Len(c)
    BY <1>4, <1>9, JoinAt
  <2>2. Len(b) = Len(e) + 1 /\ Len(e) \in Nat /\ Len(c) \in Nat
    BY <1>6
  <2> DEFINE lb == Len(b)
             lc == Len(c)
             le == Len(e)
  <2>4. lb + lc = 1 /\ lb = le + 1 /\ le \in Nat /\ lc \in Nat
    BY <2>1, <2>2
  <2>3. le = 0
    <3> HIDE DEF lb, lc, le
    <3> QED
      BY <2>4
  <2> HIDE DEF e
  <2> QED
    BY <1>8, <2>3
<1> DEFINE s == WindowsSends[k]
           m == Len(s)
           l == Len(Spelled(WindowsSends, e))
<1>13. /\ Len(Spelled(WindowsSends, f)) = got + m /\ \A i \in 1..m : v[got + i] = s[i]
  BY <1>4, <1>10, Zenon DEF Splits
<1>14. l \in Nat /\ Len(Spelled(WindowsSends, b)) = m + l /\ (e = <<>> => l = 0)
  <2> DEFINE z == <<>>
  <2>1. z \in Seq(WindowsKeys) /\ Joins(b, z, b)
    BY DEF Joins
  <2> HIDE DEF z
  <2>2. Splits(b, z, k, e)
    BY <1>6, <2>1, NextSent
  <2>3. Spelled(WindowsSends, z) = <<>>
    BY SpelledNone, Zenon DEF z
  <2> DEFINE n == Len(Spelled(WindowsSends, z))
             nb == Len(Spelled(WindowsSends, b))
  <2>4. n = 0
    BY <2>3
  <2>5. l \in Nat /\ nb = n + m + l /\ (e = <<>> => l = 0)
    BY <2>2, Zenon DEF Splits
  <2>6. m \in Nat
    BY <1>8, Tables
  <2> HIDE DEF n, nb, m, l
  <2>7. nb = m + l
    BY <2>4, <2>5, <2>6
  <2> QED
    BY <2>5, <2>7 DEF nb
<1> DEFINE y == s[1]
<1>15. /\ k \in Scanned => m = 2 /\ y \in {"e0", "00"} /\ DecodeWindows(y, s[2]) = Means[k]
       /\ k \notin Scanned => m = 1 /\ DecodeWindows(y, "") = Means[k] /\ (y \in {"e0", "00"} => k = "a-grave")
  BY <1>8, WindowsStarts, Zenon
<1>16. x = y /\ (m = 2 => v[got + 2] = s[2])
  <2> HIDE DEF v, s, m
  <2>1. m = 1 \/ m = 2
    BY <1>15
  <2>2. 1 \in 1..m /\ (m = 2 => 2 \in 1..m)
    BY <2>1
  <2> QED
    BY <1>13, <2>2, Zenon
<1>17. arrived = got + (m + l)
  BY <1>4, <1>14, Zenon
<1>18. got' = got + m /\ keys' = keys \o Means[k]
  <2>1. CASE k \in Scanned
    <3>1. scans
      <4>1. m = 2 /\ y \in {"e0", "00"}
        BY <1>15, <2>1, Zenon
      <4>2. x \in {"e0", "00"}
        BY <1>16, <4>1, Zenon
      <4>3. l \in Nat
        BY <1>14
      <4> HIDE DEF v, m, l, x
      <4>4. got + 1 < arrived
        BY <1>5, <1>17, <4>1, <4>3
      <4> QED
        BY <4>2, <4>4
    <3> HIDE DEF v, s, x, y, scans, k
    <3>2. keys' = keys \o DecodeWindows(x, v[got + 2])
      BY <1>3, <3>1, Zenon
    <3>3. got' = got + 2 /\ m = 2
      BY <1>3, <1>15, <2>1, <3>1, Zenon
    <3> QED
      BY <1>15, <1>16, <2>1, <3>2, <3>3, Zenon
  <2>2. CASE k \notin Scanned
    <3>1. ~scans
      <4> SUFFICES ASSUME scans PROVE FALSE
        OBVIOUS
      <4>1. y \in {"e0", "00"}
        BY <1>16, Zenon
      <4>2. l = 0 /\ m = 1
        BY <1>12, <1>14, <1>15, <2>2, <4>1, Zenon
      <4>3. got + 1 < arrived
        BY Zenon
      <4> HIDE DEF v, s, m, l, x, y, scans
      <4> QED
        BY <1>5, <1>17, <4>2, <4>3
    <3> HIDE DEF v, s, x, y, scans, k
    <3>2. keys' = keys \o DecodeWindows(x, "")
      BY <1>3, <3>1, Zenon
    <3>3. got' = got + 1 /\ m = 1
      BY <1>3, <1>15, <2>2, <3>1, Zenon
    <3> QED
      BY <1>15, <1>16, <2>2, <3>2, <3>3, Zenon
  <2> QED
    BY <2>1, <2>2, Zenon
<1>19. keys' \in Seq(KeyNames) /\ Reading(keys', <<>>, f)
  <2>1. Means \in [Names -> Seq(KeyNames)] /\ f \in Seq(Names) /\ a \in Seq(Names) /\ k \in Names
    BY <1>8, <1>10, Tables, MeansOfWindows DEF Names
  <2>2. Spelled(Means, f) = Adding(Spelled(Means, a), Means, k)
    BY <2>1, SpelledGrows
  <2>3. Means[k] \in Seq(KeyNames)
    BY <2>1
  <2> DEFINE mk == Means[k]
  <2> HIDE DEF mk, k
  <2>4. keys \o mk \in Seq(KeyNames) /\ (keys \o mk) \o <<>> = keys \o mk /\ keys \o <<>> = keys
    BY <1>5, <2>3 DEF mk
  <2>5. keys = Spelled(Means, a)
    BY <1>4, <2>4, Zenon DEF Reading
  <2> QED
    BY <1>18, <2>2, <2>4, <2>5, Zenon DEF Reading, Adding, mk
<1>20. got' \in Nat /\ got' = Len(Spelled(WindowsSends, f)) /\ arrived = got' + l
  <2>1. m \in Nat
    BY <1>8, Tables
  <2>2. got' = Len(Spelled(WindowsSends, f))
    BY <1>13, <1>18, Zenon
  <2> HIDE DEF m, l
  <2> QED
    BY <1>5, <1>14, <1>17, <1>18, <2>1, <2>2
<1> HIDE DEF v, k, e, t, f, s, m, y, x, scans
<1>21. WindowsAt(f, e, c, t)'
  BY <1>3, <1>9, <1>10, <1>11, <1>19, <1>20, Zenon DEF WindowsAt
<1>22. WindowsTyped'
  BY <1>2, <1>3, <1>5, <1>19, <1>20, Zenon DEF WindowsTyped
<1> QED
  BY <1>8, <1>9, <1>10, <1>21, <1>22, Zenon DEF WindowsInv, e

LEMMA WindowsKeeps ==
    ASSUME WindowsInv, UNCHANGED <<presses, keys, queued, held, got, arrived>>
    PROVE  WindowsInv'
<1>1. PICK a \in Seq(WindowsKeys), b \in Seq(WindowsKeys), c \in Seq(WindowsKeys), d \in Seq(WindowsKeys) : WindowsAt(a, b, c, d)
  BY DEF WindowsInv
<1>2. WindowsAt(a, b, c, d)'
  BY <1>1, Zenon DEF WindowsAt
<1>3. WindowsTyped'
  BY Zenon DEF WindowsTyped, WindowsInv
<1> QED
  BY <1>2, <1>3, Zenon DEF WindowsInv

LEMMA WindowsKeysTyped ==
    ASSUME windows, WindowsInv
    PROVE  IsPrefix(keys \o queued, Meant) /\ (got = Len(Stream) /\ held = <<>> => keys \o queued = Meant)
<1>1. PICK a \in Seq(WindowsKeys), b \in Seq(WindowsKeys), c \in Seq(WindowsKeys), d \in Seq(WindowsKeys) : WindowsAt(a, b, c, d)
  BY DEF WindowsInv
<1> DEFINE ma == Spelled(Means, a)
           md == Spelled(Means, d)
           na == Len(Spelled(WindowsSends, a))
           nd == Len(Spelled(WindowsSends, d))
<1>2. Joins(presses, a, d) /\ keys \o queued = ma /\ na = got
  <2>1. queued = <<>>
    BY DEF WindowsInv, WindowsTyped
  <2> QED
    BY <1>1, <2>1, Zenon DEF WindowsAt, Reading
<1>3. ma \in Seq(KeyNames) /\ md \in Seq(KeyNames) /\ a \in Seq(Names) /\ d \in Seq(Names)
  BY MeansOfWindows
<1>4. Joins(Meant, ma, md)
  <2>1. Means \in [Names -> Seq(KeyNames)]
    BY Tables
  <2>2. SpelledIn(Means, a, d, KeyNames)
    BY <1>3, <2>1, SpelledJoins
  <2> QED
    BY <1>2, <2>2, Zenon DEF SpelledIn, Joins, Meant
<1> HIDE DEF ma, md
<1>5. IsPrefix(keys \o queued, Meant)
  <2>1. IsPrefix(ma, Meant)
    BY <1>3, <1>4, PrefixOf
  <2> QED
    BY <1>2, <2>1, Zenon
<1>6. ASSUME got = Len(Stream) PROVE keys \o queued = Meant
  <2>1. Len(Stream) = na + nd /\ (d # <<>> => nd >= 1)
    <3>1. Stream = Spelled(WindowsSends, presses)
      BY DEF Stream, Sends
    <3>2. Sized(presses, a, d)
      BY <1>2, WindowsSized
    <3> QED
      BY <3>1, <3>2, Zenon DEF Sized
  <2>2. na \in Nat /\ nd \in Nat
    BY MeansOfWindows
  <2>3. nd = 0
    <3> HIDE DEF na, nd
    <3> QED
      BY <1>2, <1>6, <2>1, <2>2
  <2>4. d = <<>>
    BY <2>1, <2>3
  <2>5. md = <<>>
    BY <2>4, SpelledNone, Zenon DEF md
  <2>6. ma \o <<>> = ma
    BY <1>3
  <2> QED
    BY <1>2, <1>4, <2>5, <2>6, Zenon DEF Joins
<1> QED
  BY <1>5, <1>6

-----------------------------------------------------------------------------
(* Both *)

KeyInv ==
    /\ windows \in BOOLEAN /\ (~inside /\ ~gone => mode = "line")
    /\ IF windows THEN WindowsInv ELSE PosixInv

LEMMA KeyInit == KeyboardInit => KeyInv
<1> SUFFICES ASSUME KeyboardInit PROVE KeyInv
  OBVIOUS
<1> DEFINE z == <<>>
<1>1. /\ windows \in BOOLEAN /\ inside = FALSE /\ mode = "line" /\ presses = <<>> /\ arrived = 0 /\ got = 0
      /\ held = <<>> /\ age = 0 /\ queued = <<>> /\ keys = <<>>
  BY DEF KeyboardInit
<1>2. Joins(z, z, z)
  BY DEF Joins
<1>3. \A t : Spelled(t, z) = z
  BY SpelledNone, Zenon
<1>4. Len(z) = 0 /\ z \in Seq(PosixKeys) /\ z \in Seq(WindowsKeys) /\ z \in Seq(KeyNames) /\ z \in Seq(Chars)
  OBVIOUS
<1>5. Clear(z) /\ Apart(z)
  BY DEF Clear, Apart
<1>6. 0 + 0 = 0 /\ 0 \in Nat /\ 0 <= 0
  OBVIOUS
<1>7. Reading(keys, queued, z)
  BY <1>1, <1>2, <1>3, Zenon DEF Reading, Joins
<1> HIDE DEF z
<1>8. WindowsAt(z, z, z, z)
  <2>1. keys = z /\ queued = z /\ presses = z
    BY <1>1 DEF z
  <2> QED
    BY <1>1, <1>2, <1>3, <1>4, <1>5, <1>6, <1>7, <2>1, Zenon DEF WindowsAt, z
<1>9. PosixAt(z, z)
  <2>1. keys = z /\ queued = z /\ presses = z /\ held = z
    BY <1>1 DEF z
  <2>2. held # <<"esc">>
    BY <1>1
  <2> QED
    BY <1>1, <1>2, <1>3, <1>4, <1>5, <1>6, <1>7, <2>1, <2>2, Zenon DEF PosixAt
<1>10. PosixTyped
  <2>1. Spelled(PosixSends, presses) = z
    BY <1>1, <1>3, Zenon DEF z
  <2> QED
    BY <1>1, <1>4, <1>6, <2>1, Zenon DEF PosixTyped, z
<1>11. WindowsTyped
  BY <1>1, <1>4, <1>6, Zenon DEF WindowsTyped, z
<1> QED
  BY <1>1, <1>4, <1>8, <1>9, <1>10, <1>11 DEF KeyInv, WindowsInv, PosixInv

LEMMA KeyStep ==
    ASSUME KeyboardAssumption, KeyInv, KeyboardNext \/ UNCHANGED keyboardVars
    PROVE  KeyInv'
<1> DEFINE Core == <<presses, keys, queued, held, got, arrived, age>>
           Restored == ~inside /\ ~gone => mode = "line"
           Mode == windows' = windows /\ Restored'
<1>0. windows \in BOOLEAN /\ Restored /\ (windows => WindowsInv) /\ (~windows => PosixInv)
  BY Zenon DEF KeyInv
<1>a. ASSUME windows, WindowsInv', Mode PROVE KeyInv'
  BY <1>0, <1>a DEF KeyInv
<1>b. ASSUME ~windows, PosixInv', Mode PROVE KeyInv'
  BY <1>0, <1>b DEF KeyInv
<1>c. ASSUME UNCHANGED Core, Mode PROVE KeyInv'
  <2>1. UNCHANGED <<presses, keys, queued, held, got, arrived>>
    BY <1>c
  <2>2. CASE windows
    <3>1. WindowsInv'
      BY <1>0, <2>1, <2>2, WindowsKeeps, Zenon
    <3> QED
      BY <1>a, <1>c, <2>2, <3>1, Zenon
  <2>3. CASE ~windows
    <3>1. PosixInv'
      BY <1>0, <1>c, <2>3, PosixKeeps, Zenon
    <3> QED
      BY <1>b, <1>c, <2>3, <3>1, Zenon
  <2> QED
    BY <2>2, <2>3, Zenon
<1>d. UNCHANGED <<windows, inside, mode, gone>> => Mode
  BY <1>0
<1> HIDE DEF Mode
<1>1. ASSUME NEW k \in DOMAIN Sends, Press(k) PROVE KeyInv'
  <2>1. Mode
    BY <1>1, <1>d DEF Press
  <2>2. CASE windows
    BY <1>0, <1>1, <1>a, <2>1, <2>2, WindowsPress, Zenon
  <2>3. CASE ~windows
    BY <1>0, <1>1, <1>b, <2>1, <2>3, PosixPress, Zenon
  <2> QED
    BY <2>2, <2>3, Zenon
<1>2. CASE Arrive
  <2>1. Mode
    BY <1>2, <1>d DEF Arrive
  <2>2. CASE windows
    BY <1>0, <1>2, <1>a, <2>1, <2>2, WindowsArrive, Zenon
  <2>3. CASE ~windows
    BY <1>0, <1>2, <1>b, <2>1, <2>3, PosixArrive, Zenon
  <2> QED
    BY <2>2, <2>3, Zenon
<1>3. CASE HangUp
  <2>1. Mode /\ UNCHANGED Core
    BY <1>3 DEF HangUp, Mode
  <2> QED
    BY <1>c, <2>1
<1>4. CASE Pass
  <2>1. Mode
    BY <1>4, <1>d DEF Pass
  <2>2. ~windows
    <3>1. held # <<>>
      BY <1>4 DEF Pass
    <3> QED
      BY <1>0, <3>1, Zenon DEF WindowsInv, WindowsTyped
  <2> QED
    BY <1>0, <1>4, <1>b, <2>1, <2>2, PosixPass, Zenon
<1>5. CASE Enter
  <2>1. Mode /\ UNCHANGED Core
    BY <1>5 DEF Enter, Mode
  <2> QED
    BY <1>c, <2>1
<1>6. CASE Exit
  <2>1. Mode /\ UNCHANGED Core
    BY <1>6 DEF Exit, Mode
  <2> QED
    BY <1>c, <2>1
<1>7. CASE Pending
  <2>1. Mode
    BY <1>7, <1>d DEF Pending
  <2>2. ~windows
    <3>1. queued # <<>>
      BY <1>7 DEF Pending
    <3> QED
      BY <1>0, <3>1, Zenon DEF WindowsInv, WindowsTyped
  <2> QED
    BY <1>0, <1>7, <1>b, <2>1, <2>2, PosixPending, Zenon
<1>8. CASE ReadWindows
  <2>1. Mode /\ windows
    BY <1>8, <1>d DEF ReadWindows
  <2> QED
    BY <1>0, <1>8, <1>a, <2>1, WindowsRead, Zenon
<1>9. CASE ReadPosix
  <2>1. Mode /\ ~windows
    BY <1>9, <1>d DEF ReadPosix
  <2> QED
    BY <1>0, <1>9, <1>b, <2>1, PosixRead, Zenon
<1>10. CASE UNCHANGED keyboardVars
  <2>1. Mode /\ UNCHANGED Core
    BY <1>10, <1>d DEF keyboardVars
  <2> QED
    BY <1>c, <2>1
<1> QED
  BY <1>1, <1>2, <1>3, <1>4, <1>5, <1>6, <1>7, <1>8, <1>9, <1>10, Zenon DEF KeyboardNext

(* The dashboard gets the keys that were pressed, in order and each as     *)
(* itself, on either platform and for any number of presses, wherever the  *)
(* terminal pauses in a key and however much has arrived at each read; all *)
(* of them once all was read (KeyReader.read).  The terminal is as it was  *)
(* when nobody reads it.                                                   *)
THEOREM KeysTyped == KeyboardSpec => []KeysAreTyped
<1>1. KeyInv => KeysAreTyped
  <2> SUFFICES ASSUME KeyInv PROVE KeysAreTyped
    OBVIOUS
  <2>1. IsPrefix(keys \o queued, Meant) /\ (got = Len(Stream) /\ held = <<>> => keys \o queued = Meant)
    <3>1. CASE windows
      BY <3>1, WindowsKeysTyped, Zenon DEF KeyInv
    <3>2. CASE ~windows
      BY <3>2, PosixKeysTyped, Zenon DEF KeyInv
    <3> QED
      BY <3>1, <3>2, Zenon
  <2> QED
    BY <2>1, Zenon DEF KeysAreTyped, KeyInv
<1>2. KeyInv /\ [KeyboardNext]_keyboardVars => KeyInv'
  BY KeyStep, KeyboardAssumption
<1> QED
  BY <1>1, <1>2, KeyInit, PTL DEF KeyboardSpec

-----------------------------------------------------------------------------
(* The removal of an agent                                                 *)

USE RemovalAssumption

Stages ==
    {"idle", "fenced", "secret", "journal", "locked", "serving", "stopped", "gone",
     "looking", "locking", "checking", "credential", "unlock", "unlock file", "intent", "done"}

RemovalTypes ==
    /\ at \in [Agents \cup Removers -> Stages]
    /\ apply \in [Removers -> BOOLEAN]
    /\ journal \in Journals \cup {Nobody}
    /\ intent \in Journals \cup {Nobody}
    /\ kid \in [Kids -> {"unborn", "alive", "dying", "dead"}]

\* Whoever changes a file holds the fence.
FenceInv ==
    /\ \A a \in Agents : at[a] \in {"fenced", "secret", "journal", "locked", "serving"} => fence = a
    /\ \A r \in Removers : at[r] # "idle" => fence = r

\* What an agent has at each step of its start it keeps.
StartInv ==
    \A a \in Agents :
        /\ at[a] \in {"secret", "journal", "locked", "serving"} => intent = Nobody
        /\ at[a] \in {"journal", "locked", "serving"} => credential = "good"
        /\ at[a] \in {"locked", "serving"} => locked = a /\ lockFile = "good"
        /\ at[a] = "serving" => journal # Nobody

\* What ended or is named was admitted by some agent.
JournalInv ==
    journal # Nobody => \A k \in journal.ended \cup journal.named : journal.of[k] # Nobody

\* A removal checks the journal that is there, under its own intent if any.
CheckInv ==
    \A r \in Removers :
        at[r] \in {"locking", "checking"} => journal # Nobody /\ intent \in {Nobody, journal}

RemovalInv == RemovalTypes /\ FenceInv /\ StartInv /\ JournalInv /\ CheckInv /\ RemovalOwnsNothing

-----------------------------------------------------------------------------
\* An agent changes a file only under the fence, and so under no removal; its
\* records change only while no removal has written its intent
\* (agent_command, agent_service).
LEMMA AgentKeeps ==
    ASSUME RemovalInv, NEW a \in Agents, AgentStep(a)
    PROVE  RemovalInv'
<1> USE DEF RemovalInv, Goes, Frees, filesVars
<1>1. CASE TakeFence(a)
  <2>1. RemovalTypes'
    BY <1>1 DEF TakeFence, RemovalTypes, Stages, Journals
  <2>2. (FenceInv /\ StartInv /\ CheckInv)'
    BY <1>1 DEF TakeFence, RemovalTypes, FenceInv, StartInv, CheckInv
  <2>3. (JournalInv /\ RemovalOwnsNothing)'
    BY <1>1 DEF TakeFence, RemovalTypes, FenceInv, StartInv, JournalInv, CheckInv,
                RemovalOwnsNothing, Running, Journals
  <2> QED
    BY <2>1, <2>2, <2>3
<1>2. CASE CreateCredential(a)
  <2>1. RemovalTypes'
    BY <1>2 DEF CreateCredential, MayStart, RemovalTypes, Stages, Journals
  <2>2. (FenceInv /\ StartInv /\ CheckInv)'
    BY <1>2 DEF CreateCredential, MayStart, RemovalTypes, FenceInv, StartInv, CheckInv
  <2>3. (JournalInv /\ RemovalOwnsNothing)'
    BY <1>2 DEF CreateCredential, MayStart, RemovalTypes, FenceInv, StartInv, JournalInv, CheckInv,
                RemovalOwnsNothing, Running, Journals
  <2> QED
    BY <2>1, <2>2, <2>3
<1>3. CASE HaveCredential(a)
  <2>1. RemovalTypes'
    BY <1>3 DEF HaveCredential, MayStart, RemovalTypes, Stages, Journals
  <2>2. (FenceInv /\ StartInv /\ CheckInv)'
    BY <1>3 DEF HaveCredential, MayStart, RemovalTypes, FenceInv, StartInv, CheckInv
  <2>3. (JournalInv /\ RemovalOwnsNothing)'
    BY <1>3 DEF HaveCredential, MayStart, RemovalTypes, FenceInv, StartInv, JournalInv, CheckInv,
                RemovalOwnsNothing, Running, Journals
  <2> QED
    BY <2>1, <2>2, <2>3
<1>4. CASE at[a] = "journal" /\ CreatesLock(a, "journal")
  <2>1. RemovalTypes'
    BY <1>4 DEF CreatesLock, RemovalTypes, Stages, Journals
  <2>2. (FenceInv /\ StartInv /\ CheckInv)'
    BY <1>4 DEF CreatesLock, RemovalTypes, FenceInv, StartInv, CheckInv
  <2>3. (JournalInv /\ RemovalOwnsNothing)'
    BY <1>4 DEF CreatesLock, RemovalTypes, FenceInv, StartInv, JournalInv, CheckInv,
                RemovalOwnsNothing, Running, Journals
  <2> QED
    BY <2>1, <2>2, <2>3
<1>5. CASE at[a] = "journal" /\ Locks(a, "locked")
  <2>1. RemovalTypes'
    BY <1>5 DEF Locks, RemovalTypes, Stages, Journals
  <2>2. (FenceInv /\ StartInv /\ CheckInv)'
    BY <1>5 DEF Locks, RemovalTypes, FenceInv, StartInv, CheckInv
  <2>3. (JournalInv /\ RemovalOwnsNothing)'
    BY <1>5 DEF Locks, RemovalTypes, FenceInv, StartInv, JournalInv, CheckInv, RemovalOwnsNothing,
                Running, Journals
  <2> QED
    BY <2>1, <2>2, <2>3
<1>6. CASE Serve(a)
  <2>0. journal' \in Journals
    BY <1>6 DEF Serve, NewJournal, RemovalTypes, StartInv, Journals
  <2>1. RemovalTypes'
    BY <1>6, <2>0 DEF Serve, NewJournal, RemovalTypes, Stages
  <2>2. (FenceInv /\ StartInv /\ CheckInv)'
    BY <1>6, <2>0 DEF Serve, NewJournal, RemovalTypes, FenceInv, StartInv, CheckInv
  <2>3. (JournalInv /\ RemovalOwnsNothing)'
    BY <1>6 DEF Serve, NewJournal, RemovalTypes, FenceInv, StartInv, JournalInv, CheckInv,
                RemovalOwnsNothing, Running, Journals
  <2> QED
    BY <2>1, <2>2, <2>3
<1>7. CASE AgentEnds(a)
  <2>1. RemovalTypes'
    BY <1>7 DEF AgentEnds, RemovalTypes, Stages, Journals
  <2>2. (FenceInv /\ StartInv /\ CheckInv)'
    BY <1>7 DEF AgentEnds, RemovalTypes, FenceInv, StartInv, CheckInv
  <2>3. (JournalInv /\ RemovalOwnsNothing)'
    BY <1>7 DEF AgentEnds, RemovalTypes, FenceInv, StartInv, JournalInv, CheckInv,
                RemovalOwnsNothing, Running, Journals
  <2> QED
    BY <2>1, <2>2, <2>3
<1>8. ASSUME NEW k \in Kids, Admit(a, k) PROVE RemovalInv'
  <2>0. journal' \in Journals
    BY <1>8 DEF Admit, RemovalTypes, StartInv, Journals
  <2>1. RemovalTypes'
    BY <1>8, <2>0 DEF Admit, RemovalTypes, Stages
  <2>2. (FenceInv /\ StartInv /\ CheckInv)'
    BY <1>8, <2>0 DEF Admit, RemovalTypes, FenceInv, StartInv, CheckInv
  <2>3. (JournalInv /\ RemovalOwnsNothing)'
    BY <1>8 DEF Admit, RemovalTypes, FenceInv, StartInv, JournalInv, CheckInv, RemovalOwnsNothing,
                Running, Journals
  <2> QED
    BY <2>1, <2>2, <2>3
<1>9. ASSUME NEW k \in Kids, Launch(a, k) PROVE RemovalInv'
  <2>1. RemovalTypes'
    BY <1>9 DEF Launch, RemovalTypes, Stages, Journals
  <2>2. (FenceInv /\ StartInv /\ CheckInv)'
    BY <1>9 DEF Launch, RemovalTypes, FenceInv, StartInv, CheckInv
  <2>3. (JournalInv /\ RemovalOwnsNothing)'
    BY <1>9 DEF Launch, RemovalTypes, FenceInv, StartInv, JournalInv, CheckInv, RemovalOwnsNothing,
                Running, Journals
  <2> QED
    BY <2>1, <2>2, <2>3
<1>10. ASSUME NEW k \in Kids, Name(a, k) PROVE RemovalInv'
  <2>0. journal' \in Journals
    BY <1>10 DEF Name, RemovalTypes, StartInv, Journals
  <2>1. RemovalTypes'
    BY <1>10, <2>0 DEF Name, RemovalTypes, Stages
  <2>2. (FenceInv /\ StartInv /\ CheckInv)'
    BY <1>10, <2>0 DEF Name, RemovalTypes, FenceInv, StartInv, CheckInv
  <2>3. (JournalInv /\ RemovalOwnsNothing)'
    BY <1>10 DEF Name, RemovalTypes, FenceInv, StartInv, JournalInv, CheckInv, RemovalOwnsNothing,
                 Running, Journals
  <2> QED
    BY <2>1, <2>2, <2>3
<1>11. ASSUME NEW k \in Kids, Ended(a, k) PROVE RemovalInv'
  <2>0. journal' \in Journals
    BY <1>11 DEF Ended, RemovalTypes, StartInv, Journals
  <2>1. RemovalTypes'
    BY <1>11, <2>0 DEF Ended, RemovalTypes, Stages
  <2>2. (FenceInv /\ StartInv /\ CheckInv)'
    BY <1>11, <2>0 DEF Ended, RemovalTypes, FenceInv, StartInv, CheckInv
  <2>3. (JournalInv /\ RemovalOwnsNothing)'
    BY <1>11 DEF Ended, RemovalTypes, FenceInv, StartInv, JournalInv, CheckInv, RemovalOwnsNothing,
                 Running, Journals
  <2> QED
    BY <2>1, <2>2, <2>3
<1>12. ASSUME NEW left \in SUBSET Kids, Stop(a, left) PROVE RemovalInv'
  <2>0. journal' \in Journals
    BY <1>12 DEF Stop, RemovalTypes, StartInv, Journals
  <2>1. RemovalTypes'
    BY <1>12, <2>0 DEF Stop, RemovalTypes, Stages
  <2>2. (FenceInv /\ StartInv /\ CheckInv)'
    BY <1>12, <2>0 DEF Stop, RemovalTypes, FenceInv, StartInv, CheckInv
  <2>3. (JournalInv /\ RemovalOwnsNothing)'
    BY <1>12 DEF Stop, RemovalTypes, FenceInv, StartInv, JournalInv, CheckInv, RemovalOwnsNothing,
                 Running, Journals
  <2> QED
    BY <2>1, <2>2, <2>3
<1> QED
  BY <1>1, <1>2, <1>3, <1>4, <1>5, <1>6, <1>7, <1>8, <1>9, <1>10, <1>11, <1>12 DEF AgentStep

\* A removal holds the fence from its first look to its end, so what it checked
\* of the journal is still so when it writes the intent, and no agent is
\* beyond the fence while it takes the files away (remove_control_files).
LEMMA RemoverKeeps ==
    ASSUME RemovalInv, NEW r \in Removers,
           Works(r) \/ Ends(r) \/ Fails(r) \/ \E applies \in BOOLEAN : Begin(r, applies)
    PROVE  RemovalInv'
<1> USE DEF RemovalInv, Goes, Frees, filesVars
<1>1. ASSUME NEW applies \in BOOLEAN, Begin(r, applies) PROVE RemovalInv'
  <2>1. RemovalTypes'
    BY <1>1 DEF Begin, FenceFree, RemovalTypes, Stages, Journals
  <2>2. (FenceInv /\ StartInv /\ CheckInv)'
    BY <1>1 DEF Begin, FenceFree, RemovalTypes, FenceInv, StartInv, CheckInv
  <2>3. (JournalInv /\ RemovalOwnsNothing)'
    BY <1>1 DEF Begin, FenceFree, RemovalTypes, FenceInv, StartInv, JournalInv, CheckInv,
                RemovalOwnsNothing, Running, Journals
  <2> QED
    BY <2>1, <2>2, <2>3
<1>2. CASE Confirm(r)
  <2>1. RemovalTypes'
    BY <1>2 DEF Confirm, Confirmed, Locks, CreatesLock, RemovalTypes, Stages, Journals
  <2>2. (FenceInv /\ StartInv /\ CheckInv)'
    BY <1>2 DEF Confirm, Confirmed, Locks, CreatesLock, RemovalTypes, FenceInv, StartInv, CheckInv
  <2>3. (JournalInv /\ RemovalOwnsNothing)'
    BY <1>2 DEF Confirm, Confirmed, Locks, CreatesLock, RemovalTypes, FenceInv, StartInv,
                JournalInv, CheckInv, RemovalOwnsNothing, Running, Journals
  <2> QED
    BY <2>1, <2>2, <2>3
<1>3. CASE Resume(r)
  <2>1. RemovalTypes'
    BY <1>3 DEF Resume, Resumable, RemovalTypes, Stages, Journals
  <2>2. (FenceInv /\ StartInv /\ CheckInv)'
    <3>1. FenceInv'
      BY <1>3 DEF Resume, Resumable, RemovalTypes, FenceInv
    <3>2. StartInv'
      BY <1>3 DEF Resume, Resumable, RemovalTypes, FenceInv, StartInv
    <3>3. CheckInv'
      BY <1>3 DEF Resume, Resumable, RemovalTypes, FenceInv, StartInv, CheckInv
    <3> QED
      BY <3>1, <3>2, <3>3
  <2>3. (JournalInv /\ RemovalOwnsNothing)'
    BY <1>3 DEF Resume, Resumable, RemovalTypes, FenceInv, StartInv, JournalInv, CheckInv,
                RemovalOwnsNothing, Running, Journals
  <2> QED
    BY <2>1, <2>2, <2>3
<1>4. CASE at[r] = "locking" /\ Locks(r, "checking")
  <2>1. RemovalTypes'
    BY <1>4 DEF Locks, RemovalTypes, Stages, Journals
  <2>2. (FenceInv /\ StartInv /\ CheckInv)'
    BY <1>4 DEF Locks, RemovalTypes, FenceInv, StartInv, CheckInv
  <2>3. (JournalInv /\ RemovalOwnsNothing)'
    BY <1>4 DEF Locks, RemovalTypes, FenceInv, StartInv, JournalInv, CheckInv, RemovalOwnsNothing,
                Running, Journals
  <2> QED
    BY <2>1, <2>2, <2>3
<1>5. CASE WriteIntent(r)
  <2>1. RemovalTypes'
    BY <1>5 DEF WriteIntent, NoSurvivors, RemovalTypes, Stages, Journals
  <2>2. (FenceInv /\ StartInv /\ CheckInv)'
    BY <1>5 DEF WriteIntent, NoSurvivors, RemovalTypes, FenceInv, StartInv, CheckInv
  <2>3. (JournalInv /\ RemovalOwnsNothing)'
    BY <1>5 DEF WriteIntent, NoSurvivors, RemovalTypes, FenceInv, StartInv, JournalInv, CheckInv,
                RemovalOwnsNothing, Running, Journals
  <2> QED
    BY <2>1, <2>2, <2>3
<1>6. CASE UnlinkCredential(r)
  <2>1. RemovalTypes'
    BY <1>6 DEF UnlinkCredential, RemovalTypes, Stages, Journals
  <2>2. (FenceInv /\ StartInv /\ CheckInv)'
    BY <1>6 DEF UnlinkCredential, RemovalTypes, FenceInv, StartInv, CheckInv
  <2>3. (JournalInv /\ RemovalOwnsNothing)'
    BY <1>6 DEF UnlinkCredential, RemovalTypes, FenceInv, StartInv, JournalInv, CheckInv,
                RemovalOwnsNothing, Running, Journals
  <2> QED
    BY <2>1, <2>2, <2>3
<1>7. CASE Unlock(r)
  <2>1. RemovalTypes'
    BY <1>7 DEF Unlock, RemovalTypes, Stages, Journals
  <2>2. (FenceInv /\ StartInv /\ CheckInv)'
    <3>1. FenceInv'
      BY <1>7 DEF Unlock, RemovalTypes, FenceInv
    <3>2. StartInv'
      BY <1>7 DEF Unlock, RemovalTypes, FenceInv, StartInv
    <3>3. CheckInv'
      BY <1>7 DEF Unlock, RemovalTypes, FenceInv, StartInv, CheckInv
    <3> QED
      BY <3>1, <3>2, <3>3
  <2>3. JournalInv'
    BY <1>7 DEF Unlock, JournalInv
  <2>4. RemovalOwnsNothing'
    <3>1. /\ UNCHANGED <<intent, journal, kid>> /\ at[r] = "unlock"
          /\ at' = [at EXCEPT ![r] = "unlock file"]
      BY <1>7 DEF Unlock
    <3>2. \A x \in Agents : at'[x] = at[x]
      BY <3>1 DEF RemovalTypes
    <3>3. \A k \in Kids : Running(k)' = Running(k)
      BY <3>1 DEF Running
    <3> QED
      BY <3>1, <3>2, <3>3 DEF RemovalTypes, RemovalOwnsNothing, Journals
  <2> QED
    BY <2>1, <2>2, <2>3, <2>4
<1>8. CASE UnlinkLock(r)
  <2>1. RemovalTypes'
    BY <1>8 DEF UnlinkLock, RemovalTypes, Stages, Journals
  <2>2. (FenceInv /\ StartInv /\ CheckInv)'
    BY <1>8 DEF UnlinkLock, RemovalTypes, FenceInv, StartInv, CheckInv
  <2>3. JournalInv'
    BY <1>8 DEF UnlinkLock, JournalInv
  <2>4. RemovalOwnsNothing'
    BY <1>8 DEF UnlinkLock, RemovalTypes, FenceInv, StartInv, JournalInv, CheckInv,
                RemovalOwnsNothing, Running, Journals
  <2> QED
    BY <2>1, <2>2, <2>3, <2>4
<1>9. CASE UnlinkJournal(r)
  <2>1. RemovalTypes'
    BY <1>9 DEF UnlinkJournal, RemovalTypes, Stages, Journals
  <2>2. (FenceInv /\ StartInv /\ CheckInv)'
    BY <1>9 DEF UnlinkJournal, RemovalTypes, FenceInv, StartInv, CheckInv
  <2>3. (JournalInv /\ RemovalOwnsNothing)'
    BY <1>9 DEF UnlinkJournal, RemovalTypes, FenceInv, StartInv, JournalInv, CheckInv,
                RemovalOwnsNothing, Running, Journals
  <2> QED
    BY <2>1, <2>2, <2>3
<1>10. CASE UnlinkIntent(r)
  <2>1. RemovalTypes'
    BY <1>10 DEF UnlinkIntent, RemovalTypes, Stages, Journals
  <2>2. (FenceInv /\ StartInv /\ CheckInv)'
    BY <1>10 DEF UnlinkIntent, RemovalTypes, FenceInv, StartInv, CheckInv
  <2>3. (JournalInv /\ RemovalOwnsNothing)'
    BY <1>10 DEF UnlinkIntent, RemovalTypes, FenceInv, StartInv, JournalInv, CheckInv,
                 RemovalOwnsNothing, Running, Journals
  <2> QED
    BY <2>1, <2>2, <2>3
<1>11. CASE Ends(r) \/ Fails(r)
  <2>1. RemovalTypes'
    BY <1>11 DEF Ends, Fails, RemoverEnds, RemovalTypes, Stages, Journals
  <2>2. (FenceInv /\ StartInv /\ CheckInv)'
    BY <1>11 DEF Ends, Fails, RemoverEnds, RemovalTypes, FenceInv, StartInv, CheckInv
  <2>3. (JournalInv /\ RemovalOwnsNothing)'
    BY <1>11 DEF Ends, Fails, RemoverEnds, RemovalTypes, FenceInv, StartInv, JournalInv, CheckInv,
                 RemovalOwnsNothing, Running, Journals
  <2> QED
    BY <2>1, <2>2, <2>3
<1> QED
  BY <1>1, <1>2, <1>3, <1>4, <1>5, <1>6, <1>7, <1>8, <1>9, <1>10, <1>11 DEF Works

\* A process that dies, of itself or with its job, only helps.
LEMMA KidKeeps ==
    ASSUME RemovalInv, NEW k \in Kids, Dies(k)
    PROVE  RemovalInv'
  BY DEF RemovalInv, RemovalTypes, FenceInv, StartInv, JournalInv, CheckInv, RemovalOwnsNothing,
         Running, Dies, filesVars

(* Whoever serves has the fence, its lock and all its files; and from the  *)
(* intent on, nothing that runs is owned through what is being removed,    *)
(* whatever starts, stops or dies between any two steps of any number of   *)
(* agents and removals (AgentServer.__init__, remove_control_files,        *)
(* _confirm_no_owned_survivors).                                           *)
THEOREM RemovalSafe == RemovalSpec => []RemovalIsSafe
<1>1. RemovalInit => RemovalInv
  BY DEF RemovalInit, RemovalInv, RemovalTypes, FenceInv, StartInv, JournalInv, CheckInv,
         RemovalOwnsNothing, Stages
<1>2. RemovalInv /\ [RemovalNext]_removalVars => RemovalInv'
  <2>1. CASE RemovalInv /\ UNCHANGED removalVars
    BY <2>1 DEF removalVars, filesVars, RemovalInv, RemovalTypes, FenceInv, StartInv, JournalInv,
                CheckInv, RemovalOwnsNothing, Running
  <2> QED
    BY <2>1, AgentKeeps, RemoverKeeps, KidKeeps DEF RemovalNext
<1>3. RemovalInv => RemovalIsSafe
  BY DEF RemovalInv, RemovalTypes, FenceInv, StartInv, RemovalIsSafe, AuthorityStays
<1> QED
  BY <1>1, <1>2, <1>3, PTL DEF RemovalSpec

HIDE RemovalAssumption

-----------------------------------------------------------------------------
(* The checkpoint file                                                     *)

USE CheckpointAssumption

ErrorKinds == {"checkpoint", "other"}

FileTypes ==
    /\ clock \in Nat
    /\ saving \in [Writers -> {"new", "starting", "polling", "monitoring", "captured", "writing", "over"}]
    /\ sampled \in [Writers -> Nat] /\ drained \in [Writers -> Nat]
    /\ due \in [Writers -> Nat] /\ written \in [Writers -> Nat] /\ polled \in [Writers -> Nat]
    /\ draft \in [Writers -> Reports \cup {NoOne}]
    /\ errors \in [Writers -> SUBSET ErrorKinds]
    /\ file \in Reports \cup {NoOne} /\ aside \in Reports \cup {NoOne}
    /\ overtaken \subseteq Writers

Active(s) == saving[s] \notin {"new", "over"}
Drafting(s) == saving[s] \in {"captured", "writing"}
Copies == {file, aside} \ {NoOne}

\* At most one session has the path.
HolderInv == \A s \in Writers : Active(s) => holder = s

\* What a session has on disk, or had before it was moved away, is a prefix of
\* what it is about to write; and a write that looked found its own.
PrefixInv ==
    \A s \in Writers :
        /\ Drafting(s) => draft[s] \in Reports /\ draft[s].of = s /\ draft[s].cutoff <= sampled[s]
        /\ \A c \in Copies : c.of = s =>
              /\ saving[s] \notin {"new", "starting"}
              /\ Active(s) => c.cutoff <= sampled[s]
              /\ Drafting(s) => c.cutoff <= draft[s].cutoff
        /\ saving[s] = "writing" /\ file # NoOne => s \in overtaken \/ (file.intact /\ file.of = s)

FileInv == FileTypes /\ HolderInv /\ PrefixInv

-----------------------------------------------------------------------------
\* What a session does beside its file.
LEMMA SessionKeepsFile ==
    ASSUME FileInv, NEW s \in Writers,
           OpenStore(s) \/ Started(s) \/ TakeSample(s) \/ OtherError(s) \/ Drain(s) \/ NotDue(s)
             \/ Capture(s) \/ Look(s) \/ WriteFails(s) \/ Over(s)
    PROVE  FileInv' /\ file' = file
<1> USE DEF FileInv, FileTypes, HolderInv, PrefixInv, Active, Drafting, Copies, To, NoteError, ErrorKinds
<1>1. CASE OpenStore(s)
  BY <1>1 DEF OpenStore, LockFree
<1>2. CASE Started(s)
  BY <1>2 DEF Started
<1>3. CASE TakeSample(s)
  <2>1. \A c \in Copies : c.cutoff \in Nat
    BY DEF Reports
  <2>2. \A t \in Writers : Drafting(t) => draft[t].cutoff \in Nat
    BY DEF Reports
  <2> QED
    BY <1>3, <2>1, <2>2 DEF TakeSample
<1>4. CASE OtherError(s)
  BY <1>4 DEF OtherError
<1>5. CASE Drain(s)
  BY <1>5 DEF Drain
<1>6. CASE NotDue(s)
  BY <1>6 DEF NotDue
<1>7. CASE Capture(s)
  <2>1. [of |-> s, cutoff |-> sampled[s], shown |-> drained[s], at |-> clock, intact |-> TRUE] \in Reports
    BY DEF Reports
  <2>2. FileTypes'
    BY <1>7, <2>1 DEF Capture
  <2>3. HolderInv'
    BY <1>7 DEF Capture
  <2>4. draft'[s] \in Reports /\ draft'[s].of = s /\ draft'[s].cutoff = sampled[s]
    BY <1>7, <2>1 DEF Capture
  <2>5. PrefixInv'
    BY <1>7, <2>4 DEF Capture
  <2> QED
    BY <1>7, <2>2, <2>3, <2>5 DEF Capture
<1>8. CASE Look(s)
  BY <1>8 DEF Look, Replaceable, Matches
<1>9. CASE WriteFails(s)
  BY <1>9 DEF WriteFails, ToldOfFailure
<1>10. CASE Over(s)
  BY <1>10 DEF Over
<1> QED
  BY <1>1, <1>2, <1>3, <1>4, <1>5, <1>6, <1>7, <1>8, <1>9, <1>10

\* What EvidenceOnlyGrows says of one step.
FileGrows == (file # NoOne /\ file' # NoOne /\ file' # file) =>
            /\ (file.intact /\ file'.of = file.of) \/ (\E s \in overtaken : saving[s] = "writing")
            /\ file'.of = file.of => file'.cutoff >= file.cutoff

\* Only the session that holds the path replaces the file, with more than it had
\* there (CheckpointStore.write); what came there behind its look it replaces too.
LEMMA ReplaceKeepsFile ==
    ASSUME FileInv, NEW s \in Writers, Replace(s)
    PROVE  FileInv' /\ FileGrows
<1> USE DEF FileInv, FileTypes, HolderInv, PrefixInv, Active, Drafting, Copies, To, Replace
<1>1. FileTypes'
  <2>1. draft[s] \in Reports /\ draft[s].at \in Nat
    BY DEF Reports
  <2> QED
    BY <2>1
<1>2. HolderInv'
  OBVIOUS
<1>3. PrefixInv'
  BY DEF Reports
<1>4. FileGrows
  BY DEF FileGrows, Reports
<1> QED
  BY <1>1, <1>2, <1>3, <1>4

\* The file is damaged, moved away or put back by others, at any moment.
LEMMA OutsideKeepsFile ==
    ASSUME FileInv, ClockTicks \/ MoveAway \/ PutBack \/ Corrupt
    PROVE  FileInv' /\ FileGrows
<1> USE DEF FileInv, FileTypes, HolderInv, PrefixInv, Active, Drafting, Copies, sessionState, FileGrows
<1>1. CASE ClockTicks
  BY <1>1 DEF ClockTicks
<1>2. CASE MoveAway
  BY <1>2 DEF MoveAway
<1>3. CASE PutBack
  BY <1>3 DEF PutBack
<1>4. CASE Corrupt
  <2>1. file \in Reports /\ file' = [file EXCEPT !.intact = FALSE]
    BY <1>4 DEF Corrupt
  <2>2. file' \in Reports /\ file'.of = file.of /\ file'.cutoff = file.cutoff
    BY <2>1 DEF Reports
  <2>3. file' # NoOne
    BY <2>2
  <2> QED
    BY <1>4, <2>1, <2>2, <2>3 DEF Corrupt, Reports
<1> QED
  BY <1>1, <1>2, <1>3, <1>4

\* All steps together.
LEMMA StepKeepsFile ==
    ASSUME FileInv, [CheckpointNext]_checkpointVars
    PROVE  FileInv' /\ FileGrows
<1>1. CASE \E s \in Writers : MonitorStep(s)
  BY <1>1, SessionKeepsFile, ReplaceKeepsFile DEF MonitorStep, FileGrows
<1>2. CASE (\E s \in Writers : Recover(s)) \/ UNCHANGED checkpointVars
  BY <1>2 DEF Recover, checkpointVars, sessionState, FileInv, FileTypes, HolderInv, PrefixInv, Active,
              Drafting, Copies, FileGrows
<1> QED
  BY <1>1, <1>2, OutsideKeepsFile DEF CheckpointNext

\* There is no session and no file at first.
LEMMA InitFile == ASSUME CheckpointInit PROVE FileInv
  BY DEF CheckpointInit, FileInv, FileTypes, HolderInv, PrefixInv, Active, Drafting,
         Copies, Reports, ErrorKinds

(* Only an intact checkpoint of the same session is replaced, and by one   *)
(* that covers as much, whatever sessions were given the path, wherever    *)
(* they died, and whatever was moved away, put back or damaged, unless it  *)
(* came to the path, or was damaged there, behind the look of the write    *)
(* that replaces it (CheckpointStore.__init__, write).                     *)
THEOREM EvidenceStays == CheckpointSpec => EvidenceOnlyGrows
<1>1. CheckpointInit => FileInv
  BY InitFile
<1>2. FileInv /\ [CheckpointNext]_checkpointVars => FileInv'
  BY StepKeepsFile
<1>3. FileInv /\ [CheckpointNext]_checkpointVars
        => [(file # NoOne /\ file' # NoOne /\ file' # file) =>
              /\ \/ file.intact /\ file'.of = file.of
                 \/ \E s \in overtaken : saving[s] = "writing"
              /\ file'.of = file.of => file'.cutoff >= file.cutoff]_checkpointVars
  BY StepKeepsFile DEF FileGrows
<1> QED
  BY <1>1, <1>2, <1>3, PTL DEF CheckpointSpec, EvidenceOnlyGrows

-----------------------------------------------------------------------------
\* The record says that a write failed, or is full.
Excused(s) == "checkpoint" \in errors[s] \/ Cardinality(errors[s]) = MaxErrors

\* The next write is due within the cadence of the last one.
TailInv ==
    \A s \in Writers :
        /\ Cardinality(errors[s]) <= MaxErrors
        /\ saving[s] \in {"new", "starting"} => due[s] = 0 /\ written[s] = 0
        /\ saving[s] \in {"polling", "monitoring"} => due[s] <= written[s] + Cadence \/ Excused(s)
        /\ saving[s] = "monitoring" => polled[s] < written[s] + Cadence \/ Excused(s)
        /\ Drafting(s) => draft[s].at = polled[s] /\ due[s] = polled[s] + Cadence

\* An error is recorded, or the record is full; what it says it goes on
\* saying (_note_monitor_error).
LEMMA NoteErrorTells ==
    ASSUME FileTypes, TailInv, NEW s \in Writers, NEW e \in ErrorKinds, NoteError(s, e)
    PROVE  /\ \A t \in Writers : Cardinality(errors'[t]) <= MaxErrors /\ (Excused(t) => Excused(t)')
           /\ e \in errors'[s] \/ Cardinality(errors'[s]) = MaxErrors
<1>1. \A t \in Writers : t # s => errors'[t] = errors[t]
  BY DEF FileTypes, NoteError
<1>2. errors'[s] = IF Cardinality(errors[s]) < MaxErrors THEN errors[s] \cup {e} ELSE errors[s]
  BY DEF FileTypes, NoteError
<1>3. IsFiniteSet(errors[s]) /\ Cardinality(errors[s]) \in Nat
  <2>1. IsFiniteSet(ErrorKinds)
    <3>1. IsFiniteSet({"checkpoint"}) /\ IsFiniteSet({"other"})
      BY FS_Singleton
    <3>2. ErrorKinds = {"checkpoint"} \cup {"other"}
      BY DEF ErrorKinds
    <3> QED
      BY <3>1, <3>2, FS_Union
  <2>2. errors[s] \in SUBSET ErrorKinds
    BY DEF FileTypes
  <2> QED
    BY <2>1, <2>2, FS_Subset, FS_CardinalityType
<1>4. Cardinality(errors[s] \cup {e}) \in {Cardinality(errors[s]), Cardinality(errors[s]) + 1}
  BY <1>3, FS_AddElement
<1>5. MaxErrors \in Nat /\ Cardinality(errors[s]) <= MaxErrors
  BY DEF TailInv
<1>6. Cardinality(errors'[s]) <= MaxErrors
  BY <1>2, <1>3, <1>4, <1>5
<1>7. Excused(s) => Excused(s)'
  BY <1>2, <1>5 DEF Excused
<1>8. e \in errors'[s] \/ Cardinality(errors'[s]) = MaxErrors
  BY <1>2, <1>3, <1>5
<1> QED
  BY <1>1, <1>6, <1>7, <1>8 DEF Excused, TailInv

\* A poll that finds a write due makes it, or records why not
\* (_maybe_checkpoint).
LEMMA SessionKeepsTail ==
    ASSUME FileInv, TailInv, NEW s \in Writers, MonitorStep(s)
    PROVE  TailInv'
<1> USE DEF FileInv, FileTypes, TailInv, Drafting, To, Excused
<1>1. CASE OpenStore(s) \/ Started(s)
  BY <1>1 DEF OpenStore, Started
<1>2. CASE TakeSample(s) \/ Drain(s)
  BY <1>2 DEF TakeSample, Drain
<1>3. CASE OtherError(s)
  BY <1>3, NoteErrorTells DEF OtherError, ErrorKinds
<1>4. CASE NotDue(s)
  BY <1>4 DEF NotDue
<1>5. CASE Capture(s)
  BY <1>5 DEF Capture
<1>6. CASE Look(s)
  BY <1>6 DEF Look
<1>7. CASE Replace(s)
  BY <1>7 DEF Replace
<1>8. CASE WriteFails(s)
  BY <1>8, NoteErrorTells DEF WriteFails, ToldOfFailure, ErrorKinds
<1>9. CASE Over(s)
  BY <1>9, FS_EmptySet DEF Over
<1> QED
  BY <1>1, <1>2, <1>3, <1>4, <1>5, <1>6, <1>7, <1>8, <1>9 DEF MonitorStep

(* After every poll the last checkpoint written is younger than the        *)
(* cadence, or the record of the session says that writing failed, or is   *)
(* full (_maybe_checkpoint, _note_monitor_error).                          *)
THEOREM TailBounded == CheckpointSpec => []TailIsBounded
<1>1. CheckpointInit => FileInv /\ TailInv
  BY InitFile, FS_EmptySet DEF CheckpointInit, TailInv, Drafting
<1>2. FileInv /\ TailInv /\ [CheckpointNext]_checkpointVars => (FileInv /\ TailInv)'
  <2>1. ASSUME TailInv, UNCHANGED sessionState PROVE TailInv'
    BY <2>1 DEF TailInv, sessionState, Drafting, Excused
  <2> QED
    BY <2>1, StepKeepsFile, SessionKeepsTail
       DEF CheckpointNext, Recover, ClockTicks, MoveAway, PutBack, Corrupt, checkpointVars, sessionState
<1>3. FileInv /\ TailInv => TailIsBounded
  BY DEF TailInv, TailIsBounded, Excused
<1> QED
  BY <1>1, <1>2, <1>3, PTL DEF CheckpointSpec

(* Both: what a write looked at only grows, and what is on disk is late    *)
(* only when the session says so (CheckpointStore, _maybe_checkpoint).     *)
THEOREM EvidenceKeptAlways == CheckpointSpec => EvidenceKept
  BY EvidenceStays, TailBounded, PTL DEF EvidenceKept

HIDE CheckpointAssumption

-----------------------------------------------------------------------------
(* A workload                                                              *)

Wanted(word) == IF waits = TRUE THEN word ELSE "not_requested"
Right == readiness = Wanted("ready")
AllDone(list) == \A i \in 1..Len(list) : list[i] = "complete"

RunTypes ==
    /\ stage \in {"start", "readiness", "next", "exercise", "clean", "monitor", "unwind", "stop exercise",
                  "stop target", "last samples", "export", "exit", "over", "propagated"}
    /\ waits \in BOOLEAN /\ manager \in BOOLEAN /\ cancelled \in BOOLEAN /\ broken \in BOOLEAN
    /\ outcomes \in Seq({"running", "complete", "failed"}) /\ Len(outcomes) <= Exercises
    /\ child \in {"none", "running", "finished", "gone"}
    /\ pending \in {"none", "failure", "error", "ctrl-c"}
    /\ evidence \in {0, 1, 3}

\* While the workflow goes on, what is behind it went well.
WorkflowInv ==
    /\ stage \in {"start", "readiness"} => Len(outcomes) = 0
    /\ stage = "readiness" => readiness = Wanted("waiting")
    /\ stage \in {"next", "exercise", "clean"} => Right
    /\ stage = "next" => AllDone(outcomes)
    /\ stage = "exercise" => Len(outcomes) > 0 /\ \A i \in 1..(Len(outcomes) - 1) : outcomes[i] = "complete"
    /\ stage = "clean" /\ pending = "none" => AllDone(outcomes)
    /\ stage \in {"start", "readiness", "next", "exercise", "monitor", "stop exercise"} => pending = "none"
    /\ stage = "unwind" => pending # "none"
    /\ state = "complete" => Right /\ AllDone(outcomes) /\ Len(outcomes) = Exercises
    /\ stage = "monitor" => state = "complete"

\* The tree of an exercise is known to the manager, until nothing of it is left.
TreeInv ==
    /\ Alive => manager = TRUE
    /\ stage \in {"start", "readiness", "next", "monitor"} => manager = FALSE
    /\ stage \in {"exercise", "clean"} => manager = TRUE
    /\ stage = "stop target" /\ manager = TRUE => state = "failed" \/ pending = "ctrl-c"
    /\ stage \in {"last samples", "export", "exit", "over"} /\ manager = TRUE => state = "failed" \/ cancelled = TRUE

\* How it ended is in the state, the flags, or both.
EndInv ==
    /\ stage \in {"stop exercise", "stop target", "last samples", "export", "exit", "over"} =>
         /\ state \in {"startup_failed", "interrupted", "monitor_error", "failed", "complete"}
         /\ state \in {"startup_failed", "monitor_error"} => broken = TRUE
         /\ state = "interrupted" => cancelled = TRUE
    /\ stage \notin {"exit", "over"} => exported = "none"
    /\ exported \in {"none", state}
    /\ stage # "over" => status = NoStatus
    /\ stage = "over" => status = IF cancelled = TRUE THEN 130 ELSE IF state = "failed" THEN 6 ELSE SessionStatus

WorkloadInv == RunTypes /\ WorkflowInv /\ TreeInv /\ EndInv

-----------------------------------------------------------------------------
\* Only a cleanup that leaves nothing says that it is clean, and what it
\* leaves it keeps in hand (_cleanup_exercise).
LEMMA CleanExerciseTells ==
    ASSUME RunTypes, Alive => manager = TRUE, NEW clean \in BOOLEAN, NEW raised \in {"none", "ctrl-c"},
           CleanExercise(clean, raised)
    PROVE  /\ manager' \in BOOLEAN /\ child' \in {"none", "running", "finished", "gone"}
           /\ Alive' => manager' = TRUE
           /\ manager' = FALSE \/ clean = FALSE
<1>1. CASE ~manager
  BY <1>1 DEF CleanExercise, RunTypes, Alive, childVars
<1>2. CASE manager
  <2>1. PICK left \in IF Alive THEN BOOLEAN ELSE {FALSE} :
            /\ child' = IF left THEN child ELSE IF child = "none" THEN "none" ELSE "gone"
            /\ \/ /\ manager' = left
                  /\ \/ raised = "none" /\ clean = Told(left)
                     \/ raised = "ctrl-c" /\ ~clean
               \/ Alive /\ manager' = manager /\ ~clean
    BY <1>2 DEF CleanExercise
  <2>2. left \in BOOLEAN
    BY <2>1
  <2> QED
    BY <1>2, <2>1, <2>2 DEF RunTypes, Alive, Told
<1> QED
  BY <1>1, <1>2

\* The exit code of the session is 0 or 3 only when no error broke it.
LEMMA StatusOfSession ==
    ASSUME RunTypes
    PROVE  SessionStatus \in {0, 1, 2, 3} /\ (SessionStatus \in {0, 3} => broken = FALSE)
<1>1. evidence \in {0, 1, 3} /\ broken \in BOOLEAN
  BY DEF RunTypes
<1>2. CASE broken /\ (state = "startup_failed" \/ evidence # 1)
  BY <1>2 DEF SessionStatus
<1>3. CASE ~(broken /\ (state = "startup_failed" \/ evidence # 1))
  <2>1. SessionStatus = evidence
    BY <1>3 DEF SessionStatus
  <2>2. evidence # 1 => ~broken
    BY <1>3
  <2> QED
    BY <1>1, <2>1, <2>2
<1> QED
  BY <1>2, <1>3

\* The number of exercises begun.
LEMMA LenIsNat == ASSUME RunTypes PROVE Len(outcomes) \in Nat
  BY LenProperties DEF RunTypes

\* A position is the last, or one before it.
LEMMA UpToLast == \A n \in Nat : \A i \in 1..n : i = n \/ i \in 1..(n - 1)
  OBVIOUS

\* To close what was running changes no length.
LEMMA CloseKeeps ==
    ASSUME NEW list \in Seq({"running", "complete", "failed"})
    PROVE  LET closed == [i \in DOMAIN list |-> IF list[i] = "running" THEN "failed" ELSE list[i]]
           IN  closed \in Seq({"running", "complete", "failed"}) /\ Len(closed) = Len(list)
<1> DEFINE closed == [i \in 1..Len(list) |-> IF list[i] = "running" THEN "failed" ELSE list[i]]
<1>1. DOMAIN list = 1..Len(list) /\ Len(list) \in Nat
  OBVIOUS
<1>2. closed \in [1..Len(list) -> {"running", "complete", "failed"}]
  OBVIOUS
<1>3. closed \in Seq({"running", "complete", "failed"}) /\ Len(closed) = Len(list)
  BY <1>1, <1>2, IsASeq
<1> QED
  BY <1>1, <1>3

\* The exit code is of what ended the run.
LEMMA SameStatus == ASSUME UNCHANGED <<broken, state, evidence>> PROVE SessionStatus' = SessionStatus
  BY DEF SessionStatus

\* Starting the target: nothing is done yet, and a start that failed says so.
LEMMA StartKeeps ==
    ASSUME WorkloadInv, StartTarget \/ StaleMarker \/ StartBreaks
    PROVE  WorkloadInv'
<1> USE DEF WorkloadInv, RunTypes, WorkflowInv, TreeInv, EndInv, Right, Wanted, AllDone, Alive, Advance, Early, childVars, progressVars
<1>1. CASE StartTarget
  <2>1. RunTypes'
    BY <1>1 DEF StartTarget
  <2>2. WorkflowInv'
    BY <1>1 DEF StartTarget
  <2>3. TreeInv'
    BY <1>1 DEF StartTarget
  <2>4. EndInv'
    BY <1>1 DEF StartTarget
  <2> QED
    BY <2>1, <2>2, <2>3, <2>4
<1>2. CASE StaleMarker
  BY <1>2 DEF StaleMarker
<1>3. CASE StartBreaks
  <2>1. RunTypes'
    BY <1>3 DEF StartBreaks
  <2>2. WorkflowInv'
    BY <1>3 DEF StartBreaks
  <2>3. TreeInv'
    BY <1>3 DEF StartBreaks
  <2>4. EndInv'
    BY <1>3 DEF StartBreaks
  <2> QED
    BY <2>1, <2>2, <2>3, <2>4
<1> QED
  BY <1>1, <1>2, <1>3

\* The workflow: an exercise begins after those before it were completed and
\* cleaned up.
LEMMA WorkflowKeeps ==
    ASSUME WorkloadInv, Ready \/ NotReady \/ MonitorBreaks \/ Exercise \/ ExerciseDone \/ ExerciseBreaks \/ Completed \/ MonitorEnds
    PROVE  WorkloadInv'
<1> USE DEF WorkloadInv, RunTypes, WorkflowInv, TreeInv, EndInv, Right, Wanted, AllDone, Alive, Advance, Early, childVars, progressVars
<1>1. CASE Ready
  <2>1. RunTypes'
    BY <1>1 DEF Ready
  <2>2. WorkflowInv'
    BY <1>1 DEF Ready
  <2>3. TreeInv'
    BY <1>1 DEF Ready
  <2>4. EndInv'
    BY <1>1 DEF Ready
  <2> QED
    BY <2>1, <2>2, <2>3, <2>4
<1>2. CASE NotReady \/ MonitorBreaks
  <2>1. RunTypes'
    BY <1>2 DEF NotReady, MonitorBreaks
  <2>2. WorkflowInv'
    BY <1>2 DEF NotReady, MonitorBreaks
  <2>3. TreeInv'
    BY <1>2 DEF NotReady, MonitorBreaks
  <2>4. EndInv'
    BY <1>2 DEF NotReady, MonitorBreaks
  <2> QED
    BY <2>1, <2>2, <2>3, <2>4
<1>3. CASE Exercise
  <2>1. /\ outcomes' \in Seq({"running", "complete", "failed"}) /\ Len(outcomes') = Len(outcomes) + 1
        /\ \A i \in 1..Len(outcomes) : outcomes'[i] = outcomes[i]
    BY <1>3 DEF Exercise
  <2>2. Len(outcomes') <= Exercises
    BY <1>3, <2>1, WorkloadAssumption DEF Exercise
  <2> QED
    BY <1>3, <2>1, <2>2 DEF Exercise
<1>4. CASE ExerciseDone
  <2>1. /\ outcomes' \in Seq({"running", "complete", "failed"}) /\ Len(outcomes') = Len(outcomes)
        /\ \A i \in 1..Len(outcomes) : outcomes'[i] = IF i = Len(outcomes) THEN "complete" ELSE outcomes[i]
    BY <1>4 DEF ExerciseDone
  <2>2. \A i \in 1..(Len(outcomes) - 1) : outcomes[i] = "complete"
    BY <1>4 DEF ExerciseDone
  <2>4. AllDone(outcomes')
    <3>1. \A i \in 1..Len(outcomes) : i = Len(outcomes) \/ i \in 1..(Len(outcomes) - 1)
      BY LenIsNat, UpToLast
    <3>2. \A i \in 1..Len(outcomes) : outcomes'[i] = "complete"
      BY <2>1, <2>2, <3>1
    <3> QED
      BY <2>1, <3>2
  <2> QED
    BY <1>4, <2>1, <2>4 DEF ExerciseDone
<1>5. CASE ExerciseBreaks
  BY <1>5 DEF ExerciseBreaks
<1>6. CASE Completed
  BY <1>6 DEF Completed
<1>7. CASE MonitorEnds
  BY <1>7 DEF MonitorEnds
<1> QED
  BY <1>1, <1>2, <1>3, <1>4, <1>5, <1>6, <1>7

\* A cleanup that did not leave everything gone ends the workflow, and says so.
LEMMA CleanKeeps ==
    ASSUME WorkloadInv, Clean \/ StopExercise
    PROVE  WorkloadInv'
<1> USE DEF WorkloadInv, RunTypes, WorkflowInv, TreeInv, EndInv, Right, Wanted, AllDone, Advance, Early, progressVars
<1>1. CASE Clean
  <2>1. PICK clean \in BOOLEAN, raised \in {"none", "ctrl-c"} :
            /\ CleanExercise(clean, raised)
            /\ pending' = CASE raised # "none" -> raised [] raised = "none" /\ ~clean -> "failure" [] OTHER -> pending
    BY <1>1 DEF Clean
  <2>2. manager' \in BOOLEAN /\ child' \in {"none", "running", "finished", "gone"} /\ (Alive' => manager' = TRUE) /\ (manager' = FALSE \/ clean = FALSE)
    BY <2>1, CleanExerciseTells
  <2>3. pending' \in {"none", "failure", "error", "ctrl-c"} /\ (pending' = "none" => pending = "none" /\ clean = TRUE)
    BY <2>1
  <2> QED
    BY <1>1, <2>2, <2>3 DEF Clean
<1>2. CASE StopExercise
  <2>1. PICK clean \in BOOLEAN, raised \in {"none", "ctrl-c"} :
            /\ CleanExercise(clean, raised)
            /\ pending' = raised
            /\ state' = IF raised = "none" /\ ~clean THEN "failed" ELSE state
    BY <1>2 DEF StopExercise
  <2>2. manager' \in BOOLEAN /\ child' \in {"none", "running", "finished", "gone"} /\ (Alive' => manager' = TRUE) /\ (manager' = FALSE \/ clean = FALSE)
    BY <2>1, CleanExerciseTells
  <2>3. manager' = TRUE => state' = "failed" \/ pending' = "ctrl-c"
    BY <2>1, <2>2
  <2>4. RunTypes'
    BY <1>2, <2>1, <2>2, <2>3 DEF StopExercise
  <2>5. WorkflowInv'
    BY <1>2, <2>1, <2>2, <2>3 DEF StopExercise
  <2>6. TreeInv'
    BY <1>2, <2>1, <2>2, <2>3 DEF StopExercise
  <2>7. EndInv'
    BY <1>2, <2>1, <2>2, <2>3 DEF StopExercise
  <2> QED
    BY <2>4, <2>5, <2>6, <2>7
<1> QED
  BY <1>1, <1>2

\* What unwinds is in the state, or in a flag, from then on.
LEMMA EndKeeps ==
    ASSUME WorkloadInv, Unwind \/ StopTarget \/ LastSamples \/ Export \/ ExitWorkload
    PROVE  WorkloadInv'
<1> USE DEF WorkloadInv, RunTypes, WorkflowInv, TreeInv, EndInv, Right, Wanted, AllDone, Alive, Advance, Early, progressVars, childVars
<1>1. CASE Unwind
  <2>1. /\ outcomes' \in Seq({"running", "complete", "failed"}) /\ Len(outcomes') = Len(outcomes)
    BY <1>1, CloseKeeps DEF Unwind
  <2>2. /\ pending = "failure" => state' = "failed"
        /\ pending = "error" => state' = "monitor_error"
        /\ pending = "ctrl-c" => state' = "interrupted"
    BY <1>1 DEF Unwind
  <2>3. /\ cancelled' \in BOOLEAN /\ broken' \in BOOLEAN
        /\ pending = "ctrl-c" => cancelled' = TRUE
        /\ pending = "error" => broken' = TRUE
    BY <1>1 DEF Unwind
  <2>4. stage = "unwind" /\ stage' = "stop exercise" /\ pending' = "none" /\ UNCHANGED <<waits, evidence, exported, status, childVars>>
    BY <1>1 DEF Unwind
  <2>5. WorkflowInv'
    BY <2>2, <2>4
  <2> QED
    BY <2>1, <2>2, <2>3, <2>4, <2>5
<1>2. CASE StopTarget
  <2>1. PICK raised \in {"none", "error", "ctrl-c"} :
            LET seen == IF raised = "none" THEN pending ELSE raised IN
            /\ cancelled' = (cancelled \/ seen = "ctrl-c")
            /\ state' = IF seen = "error" THEN "failed" ELSE state
    BY <1>2 DEF StopTarget
  <2>2. cancelled' \in BOOLEAN /\ (cancelled = TRUE => cancelled' = TRUE)
    BY <2>1
  <2>3. state' \in {"failed", state} /\ (pending = "ctrl-c" => state' = "failed" \/ cancelled' = TRUE)
    BY <2>1
  <2>4. /\ stage = "stop target" /\ stage' = "last samples" /\ pending' = "none"
        /\ UNCHANGED <<waits, evidence, exported, status, readiness, outcomes, childVars, broken>>
    BY <1>2 DEF StopTarget
  <2>5. RunTypes'
    BY <2>2, <2>3, <2>4
  <2>6. WorkflowInv'
    BY <2>2, <2>3, <2>4
  <2>7. TreeInv'
    BY <2>2, <2>3, <2>4
  <2>8. EndInv'
    BY <2>2, <2>3, <2>4
  <2> QED
    BY <2>5, <2>6, <2>7, <2>8
<1>3. CASE LastSamples
  <2>1. /\ stage = "last samples" /\ stage' \in {"export", "propagated"} /\ state' \in {"failed", state}
        /\ UNCHANGED <<waits, evidence, exported, status, readiness, outcomes, childVars, pending, cancelled, broken>>
    BY <1>3 DEF LastSamples
  <2>2. RunTypes'
    BY <2>1
  <2>3. WorkflowInv'
    BY <2>1
  <2>4. TreeInv'
    BY <2>1
  <2>5. EndInv'
    BY <2>1
  <2> QED
    BY <2>2, <2>3, <2>4, <2>5
<1>4. CASE Export
  <2>1. /\ stage = "export" /\ stage' = "exit" /\ exported' \in {"none", state}
        /\ cancelled' \in {cancelled, TRUE} /\ broken' \in {broken, TRUE}
        /\ UNCHANGED <<waits, progressVars, childVars, pending, evidence, status>>
    BY <1>4 DEF Export
  <2>2. RunTypes'
    <3>1. cancelled' \in BOOLEAN /\ broken' \in BOOLEAN /\ stage' = "exit"
      BY <2>1
    <3> HIDE DEF WorkflowInv, TreeInv, EndInv, Right, AllDone, Alive
    <3> QED
      BY <2>1, <3>1
  <2>3. WorkflowInv'
    <3>1. state = "complete" => Right /\ AllDone(outcomes) /\ Len(outcomes) = Exercises
      OBVIOUS
    <3>2. UNCHANGED <<outcomes, readiness, state, waits, pending>> /\ stage' = "exit"
      BY <2>1
    <3>3. Right' = Right /\ AllDone(outcomes)' = AllDone(outcomes)
      BY <3>2
    <3> HIDE DEF RunTypes, TreeInv, EndInv, Alive, Right, AllDone
    <3> QED
      BY <3>1, <3>2, <3>3
  <2>4. TreeInv'
    BY <2>1
  <2>5. EndInv'
    BY <2>1
  <2> QED
    BY <2>2, <2>3, <2>4, <2>5
<1>5. CASE ExitWorkload
  <2>1. /\ stage = "exit" /\ stage' = "over"
        /\ UNCHANGED <<waits, progressVars, childVars, pending, cancelled, broken, evidence, exported>>
    BY <1>5 DEF ExitWorkload
  <2>2. /\ cancelled = TRUE => status' = 130
        /\ cancelled = FALSE /\ state = "failed" => status' = 6
        /\ cancelled = FALSE /\ state # "failed" => status' = SessionStatus
    BY <1>5 DEF ExitWorkload
  <2>3. status' = IF cancelled' = TRUE THEN 130 ELSE IF state' = "failed" THEN 6 ELSE SessionStatus'
    BY <2>1, <2>2, SameStatus
  <2> QED
    BY <2>1, <2>3
<1> QED
  BY <1>1, <1>2, <1>3, <1>4, <1>5

(* The exit code of a workload is one a pipeline may act on: a policy is   *)
(* only applied to a workflow that was completed, a pass leaves no         *)
(* exercise running, and the report on disk does not call a failed         *)
(* workflow complete (WorkloadRunner.run, exit_status).                    *)
THEOREM WorkloadEarned == WorkloadSpec => []WorkloadVerdictEarned
<1>1. WorkloadInit => WorkloadInv
  <2> SUFFICES ASSUME WorkloadInit PROVE WorkloadInv
    OBVIOUS
  <2> USE WorkloadAssumption DEF WorkloadInit
  <2>1. RunTypes
    <3>1. outcomes \in Seq({"running", "complete", "failed"}) /\ Len(outcomes) = 0
      BY EmptySeq
    <3>2. Len(outcomes) <= Exercises
      BY <3>1
    <3> QED
      BY <3>1, <3>2 DEF RunTypes
  <2>2. WorkflowInv
    BY DEF WorkflowInv, AllDone
  <2>3. TreeInv /\ EndInv
    BY DEF TreeInv, EndInv, Alive
  <2> QED
    BY <2>1, <2>2, <2>3 DEF WorkloadInv
<1>2. WorkloadInv /\ [WorkloadNext]_workloadVars => WorkloadInv'
  <2>1. ASSUME WorkloadInv, UNCHANGED workloadVars PROVE WorkloadInv'
    <3> USE <2>1, SameStatus DEF workloadVars, progressVars, childVars, WorkloadInv
    <3>1. RunTypes'
      <4>1. UNCHANGED <<stage, waits, manager, cancelled, broken, outcomes, child, pending, evidence>>
        OBVIOUS
      <4>2. RunTypes
        OBVIOUS
      <4>3. (waits \in BOOLEAN /\ manager \in BOOLEAN /\ cancelled \in BOOLEAN /\ broken \in BOOLEAN)'
        BY <4>1, <4>2, Zenon DEF RunTypes
      <4> QED
        BY <4>1, <4>2, <4>3 DEF RunTypes
    <3>2. WorkflowInv'
      BY DEF WorkflowInv, Right, Wanted, AllDone
    <3>3. TreeInv'
      BY DEF TreeInv, Alive
    <3>4. EndInv'
      BY DEF EndInv
    <3> QED
      BY <3>1, <3>2, <3>3, <3>4
  <2> QED
    BY <2>1, StartKeeps, WorkflowKeeps, CleanKeeps, EndKeeps DEF WorkloadNext
<1>3. WorkloadInv => WorkloadVerdictEarned
  <2> SUFFICES ASSUME WorkloadInv PROVE WorkloadVerdictEarned
    OBVIOUS
  <2>1. CASE stage # "over"
    <3>1. status = NoStatus
      BY <2>1 DEF WorkloadInv, EndInv
    <3>2. NoStatus \notin {0, 3} /\ NoStatus # 6
      BY DEF NoStatus
    <3> QED
      BY <3>1, <3>2, Zenon DEF WorkloadVerdictEarned
  <2>2. CASE stage = "over"
    <3>1. status = IF cancelled = TRUE THEN 130 ELSE IF state = "failed" THEN 6 ELSE SessionStatus
      BY <2>2 DEF WorkloadInv, EndInv
    <3>2. status # 6 => status = 130 \/ SessionStatus \in {0, 1, 2, 3}
      BY <3>1, StatusOfSession DEF WorkloadInv
    <3>3. ASSUME status \in {0, 3} PROVE state = "complete" /\ manager = FALSE /\ ~Alive
      <4>1. cancelled \in BOOLEAN /\ manager \in BOOLEAN
        BY DEF WorkloadInv, RunTypes
      <4>2. cancelled = FALSE /\ state # "failed" /\ SessionStatus \in {0, 3}
        BY <3>1, <3>3, <4>1
      <4>3. broken = FALSE
        BY <4>2, StatusOfSession DEF WorkloadInv
      <4>4. state = "complete"
        BY <2>2, <4>2, <4>3 DEF WorkloadInv, EndInv
      <4>5. manager # TRUE
        BY <2>2, <4>2 DEF WorkloadInv, TreeInv
      <4> QED
        BY <4>1, <4>4, <4>5 DEF WorkloadInv, TreeInv
    <3>4. ASSUME state = "complete"
          PROVE  /\ readiness = IF waits THEN "ready" ELSE "not_requested"
                 /\ outcomes = [i \in 1..Exercises |-> "complete"]
      <4>1. waits \in BOOLEAN /\ Right
        BY <3>4 DEF WorkloadInv, RunTypes, WorkflowInv
      <4>2. readiness = IF waits THEN "ready" ELSE "not_requested"
        BY <4>1 DEF Right, Wanted
      <4>3. outcomes \in Seq({"running", "complete", "failed"}) /\ Len(outcomes) = Exercises /\ AllDone(outcomes)
        BY <3>4 DEF WorkloadInv, RunTypes, WorkflowInv
      <4> QED
        BY <4>2, <4>3 DEF AllDone
    <3>5. Alive => status \in {6, 130}
      BY <2>2, <3>1 DEF WorkloadInv, EndInv, TreeInv, RunTypes
    <3>6. status = 6 => exported \in {"none", "failed"}
      BY <2>2, <3>1, StatusOfSession DEF WorkloadInv, EndInv
    <3> QED
      BY <3>3, <3>4, <3>5, <3>6 DEF WorkloadVerdictEarned
  <2> QED
    BY <2>1, <2>2
<1> QED
  BY <1>1, <1>2, <1>3, PTL DEF WorkloadSpec
=============================================================================
