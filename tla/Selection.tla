----------------------------- MODULE Selection -----------------------------
(***************************************************************************)
(* What a Python list comprehension with a condition leaves of a list: the *)
(* elements at some of its positions, in their order.  It is written as a  *)
(* recursive function over the positions, and not with SelectSeq, so that  *)
(* what it returns can be proved, for every list and all positions.  The   *)
(* two inductions over the list are on the set of lengths for which the    *)
(* claim holds, and well-founded because < is (Climb).  SumOver is what     *)
(* sum() adds up of the values of a dict, or of a list by position.        *)
(***************************************************************************)
EXTENDS Integers, Sequences, FiniteSets, TLAPS, FiniteSetTheorems, WellFoundedInduction

Selected(list, positions) ==
    LET upTo[n \in 0..Len(list)] ==
          IF n = 0 THEN <<>> ELSE IF n \in positions THEN Append(upTo[n - 1], list[n]) ELSE upTo[n - 1]
    IN upTo[Len(list)]

Greatest(S) == IF S = {} THEN 0 ELSE CHOOSE m \in S : \A n \in S : n <= m

\* f is a function from a finite set of natural numbers to integers.
SumOver(f) ==
    LET upTo[n \in 0..Greatest(DOMAIN f)] == (IF n = 0 THEN 0 ELSE upTo[n - 1]) + (IF n \in DOMAIN f THEN f[n] ELSE 0)
    IN upTo[Greatest(DOMAIN f)]

\* A set that has 0, and n + 1 with n, has every natural number.
LEMMA Climb ==
    ASSUME NEW S, 0 \in S, \A n \in Nat : n \in S => n + 1 \in S
    PROVE  Nat \subseteq S
<1> DEFINE T == Nat \ S
           R == OpToRel(<, Nat)
<1>1. R = {p \in Nat \X Nat : p[1] < p[2]}
  BY DEF OpToRel
<1>2. IsWellFoundedOn(R, Nat)
  BY NatLessThanWellFounded
<1> SUFFICES ASSUME T # {} PROVE FALSE
  OBVIOUS
<1> HIDE DEF R
<1>3. PICK x \in T : \A y \in T : ~(<<y, x>> \in R)
  BY <1>2, WFMin
<1>4. x \in Nat /\ x # 0 /\ x - 1 \in Nat
  OBVIOUS
<1>5. <<x - 1, x>> \in R
  BY <1>1, <1>4
<1>6. x - 1 \in S
  BY <1>3, <1>4, <1>5
<1> QED
  BY <1>4, <1>6

\* f is the recursive function of Selected, as far as m.
Runs(f, s, I, m) ==
    /\ f[0] = <<>>
    /\ \A n \in 1..m : f[n] = IF n \in I THEN Append(f[n - 1], s[n]) ELSE f[n - 1]

\* There is such a function: each of its values is built from the one before.
LEMMA SelectedRuns ==
    ASSUME NEW X, NEW s \in Seq(X), NEW I
    PROVE  \E f : Runs(f, s, I, Len(s)) /\ Selected(s, I) = f[Len(s)]
<1> DEFINE L == Len(s)
           S == {m \in Nat : \E g : Runs(g, s, I, m)}
           Body(f, n) == IF n = 0 THEN <<>> ELSE IF n \in I THEN Append(f[n - 1], s[n]) ELSE f[n - 1]
<1>1. 0 \in S
  <2>1. Runs([n \in 0..0 |-> <<>>], s, I, 0)
    BY DEF Runs
  <2> QED
    BY <2>1
<1>2. ASSUME NEW m \in Nat, m \in S
      PROVE  m + 1 \in S
  <2>1. PICK g : Runs(g, s, I, m)
    BY <1>2
  <2> DEFINE h == [n \in 0..m + 1 |-> IF n = m + 1 THEN Body(g, n) ELSE g[n]]
  <2>2. h[0] = <<>>
    BY <2>1 DEF Runs
  <2>3. \A n \in 1..m + 1 : h[n] = Body(h, n)
    BY <2>1 DEF Runs
  <2> HIDE DEF h
  <2>4. Runs(h, s, I, m + 1)
    BY <2>2, <2>3 DEF Runs
  <2> QED
    BY <2>4
<1>3. L \in S
  <2> HIDE DEF S
  <2> QED
    BY <1>1, <1>2, Climb
<1>4. PICK g : Runs(g, s, I, L)
  BY <1>3
<1> DEFINE e == [n \in 0..L |-> g[n]]
           f == CHOOSE x : x = [n \in 0..L |-> Body(x, n)]
<1>5. e = [n \in 0..L |-> Body(e, n)]
  <2>1. \A n \in 0..L : e[n] = Body(e, n)
    BY <1>4 DEF Runs
  <2> QED
    BY <2>1
<1>6. f = [n \in 0..L |-> Body(f, n)]
  <2> HIDE DEF e
  <2> QED
    BY <1>5
<1>7. Selected(s, I) = f[L]
  BY DEF Selected
<1> HIDE DEF f
<1>8. Runs(f, s, I, L)
  <2>1. \A n \in 0..L : f[n] = Body(f, n)
    BY <1>6
  <2> QED
    BY <2>1 DEF Runs
<1> QED
  BY <1>7, <1>8

\* h places the elements of r in s, at the positions in I up to n.
Places(h, r, s, I, n) ==
    /\ h \in [1..Len(r) -> 1..n]
    /\ \A k \in 1..Len(r) : h[k] \in I /\ r[k] = s[h[k]]
    /\ \A j, k \in 1..Len(r) : j < k => h[j] < h[k]
    /\ \A i \in I \cap (1..n) : \E k \in 1..Len(r) : h[k] = i

\* What is selected are elements of the list, in its order, and all those at
\* the positions.
LEMMA SelectedPlaces ==
    ASSUME NEW X, NEW s \in Seq(X), NEW I
    PROVE  Selected(s, I) \in Seq(X) /\ \E h : Places(h, Selected(s, I), s, I, Len(s))
<1>1. PICK f : Runs(f, s, I, Len(s)) /\ Selected(s, I) = f[Len(s)]
  BY SelectedRuns
<1> DEFINE P(n) == f[n] \in Seq(X) /\ \E h : Places(h, f[n], s, I, n)
           S == {n \in Nat : n <= Len(s) => P(n)}
<1>2. 0 \in S
  <2>1. f[0] = <<>>
    BY <1>1 DEF Runs
  <2>2. Places([k \in 1..0 |-> k], f[0], s, I, 0)
    BY <2>1 DEF Places
  <2>3. f[0] \in Seq(X)
    BY <2>1
  <2>4. P(0)
    BY <2>2, <2>3
  <2> HIDE DEF P
  <2> QED
    BY <2>4
<1>3. ASSUME NEW n \in Nat, n \in S
      PROVE  n + 1 \in S
  <2> SUFFICES ASSUME n + 1 <= Len(s) PROVE P(n + 1)
    OBVIOUS
  <2>1. P(n)
    BY <1>3
  <2>2. PICK h : Places(h, f[n], s, I, n)
    BY <2>1
  <2>3. s[n + 1] \in X /\ n + 1 \in 1..Len(s) /\ (n + 1) - 1 = n
    OBVIOUS
  <2>4. CASE n + 1 \in I
    <3>1. f[n + 1] = Append(f[n], s[n + 1])
      BY <1>1, <2>3, <2>4 DEF Runs
    <3> DEFINE r == f[n + 1]
               L == Len(f[n])
               g == [k \in 1..L + 1 |-> IF k = L + 1 THEN n + 1 ELSE h[k]]
    <3>2. /\ r \in Seq(X) /\ Len(r) = L + 1 /\ r[L + 1] = s[n + 1] /\ L \in Nat
          /\ \A k \in 1..L : r[k] = f[n][k]
      BY <2>1, <2>3, <3>1
    <3> HIDE DEF r
    <3>3. /\ h \in [1..L -> 1..n] /\ \A k \in 1..L : h[k] \in I /\ r[k] = s[h[k]]
          /\ \A j, k \in 1..L : j < k => h[j] < h[k]
          /\ \A i \in I \cap (1..n) : \E k \in 1..L : h[k] = i
      BY <2>2, <3>2 DEF Places
    <3> HIDE DEF L
    <3>4. g \in [1..L + 1 -> 1..n + 1]
      BY <3>2, <3>3
    <3>5. \A k \in 1..L + 1 : g[k] \in I /\ r[k] = s[g[k]]
      BY <2>4, <3>2, <3>3
    <3>6. \A j, k \in 1..L + 1 : j < k => g[j] < g[k]
      BY <3>2, <3>3
    <3>7. \A i \in I \cap (1..n + 1) : \E k \in 1..L + 1 : g[k] = i
      <4> SUFFICES ASSUME NEW i \in I \cap (1..n + 1) PROVE \E k \in 1..L + 1 : g[k] = i
        OBVIOUS
      <4>1. CASE i = n + 1
        BY <3>2, <4>1
      <4>2. CASE i # n + 1
        <5>1. PICK k \in 1..L : h[k] = i
          BY <3>3, <4>2
        <5> QED
          BY <3>2, <5>1
      <4> QED
        BY <4>1, <4>2
    <3> HIDE DEF g
    <3>8. Places(g, r, s, I, n + 1)
      BY <3>2, <3>4, <3>5, <3>6, <3>7 DEF Places
    <3> QED
      BY <3>2, <3>8 DEF r
  <2>5. CASE n + 1 \notin I
    <3>1. f[n + 1] = f[n]
      BY <1>1, <2>3, <2>5 DEF Runs
    <3>2. Places(h, f[n], s, I, n + 1)
      BY <2>2, <2>5 DEF Places
    <3> QED
      BY <2>1, <3>1, <3>2
  <2> QED
    BY <2>4, <2>5
<1>4. Len(s) \in S
  <2> HIDE DEF S
  <2> QED
    BY <1>2, <1>3, Climb
<1> QED
  BY <1>1, <1>4

-----------------------------------------------------------------------------
\* Only elements of the list, and only those at the positions, are selected.
LEMMA SelectedFrom ==
    ASSUME NEW X, NEW s \in Seq(X), NEW I
    PROVE  /\ Selected(s, I) \in Seq(X)
           /\ \A k \in 1..Len(Selected(s, I)) : \E i \in I \cap (1..Len(s)) : Selected(s, I)[k] = s[i]
           /\ \A i \in I \cap (1..Len(s)) : \E k \in 1..Len(Selected(s, I)) : Selected(s, I)[k] = s[i]
<1> DEFINE r == Selected(s, I)
<1>1. r \in Seq(X)
  BY SelectedPlaces
<1>2. PICK h : Places(h, r, s, I, Len(s))
  BY SelectedPlaces
<1> HIDE DEF r
<1>3. \A k \in 1..Len(r) : h[k] \in I \cap (1..Len(s)) /\ r[k] = s[h[k]]
  BY <1>2 DEF Places
<1>4. \A i \in I \cap (1..Len(s)) : \E k \in 1..Len(r) : h[k] = i
  BY <1>2 DEF Places
<1>5. \A i \in I \cap (1..Len(s)) : \E k \in 1..Len(r) : r[k] = s[i]
  BY <1>3, <1>4
<1> QED
  BY <1>1, <1>3, <1>5 DEF r

\* The elements from a position on are the end of the list.
LEMMA SelectedEnd ==
    ASSUME NEW X, NEW s \in Seq(X), NEW m \in Nat
    PROVE  Selected(s, m + 1 .. Len(s)) = SubSeq(s, m + 1, Len(s))
<1> DEFINE I == m + 1 .. Len(s)
<1>1. PICK f : Runs(f, s, I, Len(s)) /\ Selected(s, I) = f[Len(s)]
  BY SelectedRuns
<1> DEFINE S == {n \in Nat : n <= Len(s) => f[n] = SubSeq(s, m + 1, n)}
<1>2. 0 \in S
  <2>1. f[0] = <<>>
    BY <1>1 DEF Runs
  <2>2. SubSeq(s, m + 1, 0) = <<>>
    OBVIOUS
  <2> QED
    BY <2>1, <2>2
<1>3. ASSUME NEW n \in Nat, n \in S
      PROVE  n + 1 \in S
  <2> SUFFICES ASSUME n + 1 <= Len(s) PROVE f[n + 1] = SubSeq(s, m + 1, n + 1)
    OBVIOUS
  <2>1. f[n] = SubSeq(s, m + 1, n)
    BY <1>3
  <2>2. f[n + 1] = IF n + 1 \in I THEN Append(f[n], s[n + 1]) ELSE f[n]
    <3>1. n + 1 \in 1..Len(s) /\ (n + 1) - 1 = n
      OBVIOUS
    <3> QED
      BY <1>1, <3>1 DEF Runs
  <2>3. CASE n + 1 \in I
    <3>1. m <= n
      BY <2>3
    <3> DEFINE r == SubSeq(s, m + 1, n)
               q == SubSeq(s, m + 1, n + 1)
    <3>2. r \in Seq(X) /\ Len(r) = n - m /\ \A k \in 1..n - m : r[k] = s[m + k]
      BY <3>1
    <3>3. q \in Seq(X) /\ Len(q) = n + 1 - m /\ \A k \in 1..n + 1 - m : q[k] = s[m + k]
      BY <3>1
    <3> HIDE DEF r, q
    <3>4. s[n + 1] \in X
      OBVIOUS
    <3>5. Append(r, s[n + 1]) = q
      BY <3>1, <3>2, <3>3, <3>4
    <3> QED
      BY <2>1, <2>2, <2>3, <3>5 DEF r, q
  <2>4. CASE n + 1 \notin I
    <3>1. n < m
      BY <2>4
    <3>2. SubSeq(s, m + 1, n) = <<>> /\ SubSeq(s, m + 1, n + 1) = <<>>
      BY <3>1
    <3> QED
      BY <2>1, <2>2, <2>4, <3>2
  <2> QED
    BY <2>3, <2>4
<1>4. Len(s) \in S
  <2> HIDE DEF S
  <2> QED
    BY <1>2, <1>3, Climb
<1> QED
  BY <1>1, <1>4

-----------------------------------------------------------------------------
(* Sums                                                                    *)

\* A finite set of numbers has a greatest one.
LEMMA HasGreatest ==
    ASSUME NEW S, S \subseteq Nat, IsFiniteSet(S), S # {}
    PROVE  \E m \in S : \A n \in S : n <= m
<1> DEFINE K == {k \in Nat : \A T : /\ T \subseteq Nat /\ T # {} /\ IsFiniteSet(T) /\ Cardinality(T) = k
                                    => \E m \in T : \A n \in T : n <= m}
<1>1. 0 \in K
  BY FS_EmptySet
<1>2. ASSUME NEW k \in Nat, k \in K PROVE k + 1 \in K
  <2> SUFFICES ASSUME NEW T, T \subseteq Nat, T # {}, IsFiniteSet(T), Cardinality(T) = k + 1
               PROVE  \E m \in T : \A n \in T : n <= m
    OBVIOUS
  <2>1. PICK x \in T : TRUE
    OBVIOUS
  <2> DEFINE U == T \ {x}
  <2>2. IsFiniteSet(U) /\ Cardinality(U) = k /\ U \subseteq Nat
    <3>1. IsFiniteSet(U) /\ Cardinality(U) = IF x \in T THEN Cardinality(T) - 1 ELSE Cardinality(T)
      BY FS_RemoveElement, Zenon
    <3>2. Cardinality(U) = (k + 1) - 1
      BY <3>1
    <3> QED
      BY <3>1, <3>2
  <2>3. CASE U = {}
    BY <2>1, <2>3
  <2>4. CASE U # {}
    <3>1. PICK m \in U : \A n \in U : n <= m
      BY <1>2, <2>2, <2>4
    <3>2. m \in T /\ x \in Nat /\ m \in Nat /\ \A n \in T : n = x \/ n <= m
      BY <2>1, <2>2, <3>1
    <3>3. CASE x <= m
      BY <3>2, <3>3
    <3>4. CASE ~(x <= m)
      <4>1. \A n \in T : n <= x
        BY <3>2, <3>4
      <4> QED
        BY <2>1, <4>1
    <3> QED
      BY <3>3, <3>4
  <2> QED
    BY <2>3, <2>4
<1>3. Cardinality(S) \in Nat
  BY FS_CardinalityType
<1> HIDE DEF K
<1>4. Cardinality(S) \in K
  BY <1>1, <1>2, <1>3, Climb
<1> QED
  BY <1>4 DEF K

\* What can be added up, and the sums of its values up to each number.
Summable(f) == IsFiniteSet(DOMAIN f) /\ DOMAIN f \subseteq Nat /\ \A n \in DOMAIN f : f[n] \in Int

Term(f, n) == IF n \in DOMAIN f THEN f[n] ELSE 0

SumsTo(p, f, m) ==
    p \in [0..m -> Int] /\ p[0] = Term(f, 0) /\ \A n \in 1..m : p[n] = p[n - 1] + Term(f, n)

\* There are such sums, as far as one likes.
LEMMA SumsExist ==
    ASSUME NEW f, Summable(f), NEW m \in Nat
    PROVE  \E p : SumsTo(p, f, m)
<1> DEFINE S == {k \in Nat : \E p : SumsTo(p, f, k)}
<1>1. \A n \in Nat : Term(f, n) \in Int
  BY DEF Summable, Term
<1>2. 0 \in S
  <2>1. SumsTo([n \in 0..0 |-> Term(f, 0)], f, 0)
    BY <1>1 DEF SumsTo
  <2> QED
    BY <2>1
<1>3. ASSUME NEW k \in Nat, k \in S PROVE k + 1 \in S
  <2>1. PICK p : SumsTo(p, f, k)
    BY <1>3
  <2> DEFINE q == [n \in 0..k + 1 |-> IF n = k + 1 THEN p[k] + Term(f, k + 1) ELSE p[n]]
  <2>2. q \in [0..k + 1 -> Int]
    BY <1>1, <2>1 DEF SumsTo
  <2>3. q[0] = Term(f, 0)
    BY <2>1 DEF SumsTo
  <2>4. \A n \in 1..k + 1 : q[n] = q[n - 1] + Term(f, n)
    BY <2>1 DEF SumsTo
  <2> HIDE DEF q
  <2>5. SumsTo(q, f, k + 1)
    BY <2>2, <2>3, <2>4 DEF SumsTo
  <2> QED
    BY <2>5
<1> HIDE DEF S
<1>4. m \in S
  BY <1>2, <1>3, Climb
<1> QED
  BY <1>4 DEF S

\* There is one such function: the values are built one from the other.
LEMMA SumsAgree ==
    ASSUME NEW f, Summable(f), NEW m \in Nat, NEW k \in 0..m, NEW p, SumsTo(p, f, m), NEW q, SumsTo(q, f, k)
    PROVE  \A n \in 0..k : p[n] = q[n]
<1> DEFINE S == {n \in Nat : n <= k => p[n] = q[n]}
<1>1. 0 \in S
  BY DEF SumsTo
<1>2. ASSUME NEW n \in Nat, n \in S PROVE n + 1 \in S
  <2> SUFFICES ASSUME n + 1 <= k PROVE p[n + 1] = q[n + 1]
    OBVIOUS
  <2>1. n + 1 \in 1..k /\ n + 1 \in 1..m /\ (n + 1) - 1 = n /\ p[n] = q[n]
    BY <1>2
  <2> QED
    BY <2>1 DEF SumsTo
<1> HIDE DEF S
<1>3. Nat \subseteq S
  BY <1>1, <1>2, Climb
<1> QED
  BY <1>3 DEF S

\* SumOver is where they end.
LEMMA SumIsLast ==
    ASSUME NEW f, Summable(f), NEW m \in Nat, \A n \in DOMAIN f : n <= m, NEW p, SumsTo(p, f, m)
    PROVE  SumOver(f) = p[m]
<1> DEFINE last == Greatest(DOMAIN f)
           Body(g, n) == (IF n = 0 THEN 0 ELSE g[n - 1]) + (IF n \in DOMAIN f THEN f[n] ELSE 0)
           upTo == CHOOSE g : g = [n \in 0..last |-> Body(g, n)]
<1>1. last \in 0..m /\ \A n \in DOMAIN f : n <= last
  <2>1. CASE DOMAIN f = {}
    BY <2>1 DEF Greatest
  <2>2. CASE DOMAIN f # {}
    <3>1. \E l \in DOMAIN f : \A n \in DOMAIN f : n <= l
      BY <2>2, HasGreatest DEF Summable
    <3>2. last \in DOMAIN f /\ \A n \in DOMAIN f : n <= last
      BY <2>2, <3>1 DEF Greatest
    <3> HIDE DEF last
    <3> QED
      BY <3>2 DEF Summable
  <2> QED
    BY <2>1, <2>2
<1>2. SumOver(f) = upTo[last]
  BY DEF SumOver
<1> HIDE DEF last
<1> DEFINE e == [n \in 0..last |-> p[n]]
<1>3. e = [n \in 0..last |-> Body(e, n)]
  <2>1. \A n \in 0..last : e[n] = Body(e, n)
    <3> SUFFICES ASSUME NEW n \in 0..last PROVE p[n] = (IF n = 0 THEN 0 ELSE e[n - 1]) + Term(f, n)
      BY DEF Term
    <3>1. CASE n = 0
      BY <1>1, <3>1 DEF SumsTo, Term, Summable
    <3>2. CASE n # 0
      <4>1. n \in 1..m /\ n - 1 \in 0..last
        BY <1>1, <3>2
      <4> QED
        BY <3>2, <4>1 DEF SumsTo
    <3> QED
      BY <3>1, <3>2
  <2> QED
    BY <2>1
<1>4. upTo = [n \in 0..last |-> Body(upTo, n)]
  <2> HIDE DEF e
  <2> QED
    BY <1>3
<1> HIDE DEF upTo, e
<1>5. \A n \in 0..last : upTo[n] = (IF n = 0 THEN 0 ELSE upTo[n - 1]) + Term(f, n)
  BY <1>4 DEF Term
<1> DEFINE S == {n \in Nat : n <= last => upTo[n] = p[n]}
<1>6. 0 \in S
  BY <1>1, <1>5 DEF SumsTo, Term, Summable
<1>7. ASSUME NEW n \in Nat, n \in S PROVE n + 1 \in S
  <2> SUFFICES ASSUME n + 1 <= last PROVE upTo[n + 1] = p[n + 1]
    OBVIOUS
  <2>1. n + 1 \in 0..last /\ n + 1 # 0 /\ n + 1 \in 1..m /\ (n + 1) - 1 = n /\ upTo[n] = p[n]
    BY <1>1, <1>7
  <2> QED
    BY <1>5, <2>1 DEF SumsTo
<1> DEFINE R == {n \in Nat : n >= last /\ n <= m => p[n] = upTo[last]}
<1>8. Nat \subseteq S
  <2> HIDE DEF S
  <2> QED
    BY <1>6, <1>7, Climb
<1>9. 0 \in R
  BY <1>1, <1>8
<1>10. ASSUME NEW n \in Nat, n \in R PROVE n + 1 \in R
  <2> SUFFICES ASSUME n + 1 >= last, n + 1 <= m PROVE p[n + 1] = upTo[last]
    OBVIOUS
  <2>1. CASE n + 1 = last
    BY <1>8, <2>1
  <2>2. CASE n + 1 # last
    <3>1. n \in 0..m /\ n >= last /\ n + 1 \in 1..m /\ (n + 1) - 1 = n /\ p[n] = upTo[last]
      BY <1>1, <1>10, <2>2
    <3>2. n + 1 \notin DOMAIN f
      BY <1>1, <3>1 DEF Summable
    <3>3. p[n + 1] = p[n] + 0 /\ p[n] \in Int
      BY <3>1, <3>2 DEF SumsTo, Term
    <3> QED
      BY <3>1, <3>3
  <2> QED
    BY <2>1, <2>2
<1>11. Nat \subseteq R
  <2> HIDE DEF R
  <2> QED
    BY <1>9, <1>10, Climb
<1> QED
  BY <1>1, <1>2, <1>11

LEMMA HasBound ==
    ASSUME NEW S, S \subseteq Nat, IsFiniteSet(S)
    PROVE  \E m \in Nat : \A n \in S : n <= m
<1>1. CASE S = {}
  BY <1>1
<1>2. CASE S # {}
  BY <1>2, HasGreatest
<1> QED
  BY <1>1, <1>2

LEMMA SumAt ==
    ASSUME NEW f, Summable(f), NEW m \in Nat, \A n \in DOMAIN f : n <= m
    PROVE  \E p : SumsTo(p, f, m) /\ SumOver(f) = p[m]
<1>1. PICK p : SumsTo(p, f, m)
  BY SumsExist
<1>2. SumOver(f) = p[m]
  BY <1>1, SumIsLast
<1> QED
  BY <1>1, <1>2

\* The sum is an integer.
LEMMA SumType ==
    ASSUME NEW f, Summable(f)
    PROVE  SumOver(f) \in Int
<1>1. PICK m \in Nat : \A n \in DOMAIN f : n <= m
  BY HasBound DEF Summable
<1>2. PICK p : SumsTo(p, f, m) /\ SumOver(f) = p[m]
  BY <1>1, SumAt
<1> QED
  BY <1>2 DEF SumsTo

\* The sum of sums.
LEMMA SumPlus ==
    ASSUME NEW f, NEW g, NEW e, Summable(f), Summable(g),
           DOMAIN f = DOMAIN g, DOMAIN e = DOMAIN f, \A n \in DOMAIN e : e[n] = f[n] + g[n]
    PROVE  Summable(e) /\ SumOver(e) = SumOver(f) + SumOver(g)
<1>1. Summable(e)
  BY DEF Summable
<1>2. PICK m \in Nat : \A n \in DOMAIN f : n <= m
  BY HasBound DEF Summable
<1>3. PICK p : SumsTo(p, f, m) /\ SumOver(f) = p[m]
  BY <1>2, SumAt
<1>4. PICK q : SumsTo(q, g, m) /\ SumOver(g) = q[m]
  BY <1>2, SumAt
<1>5. PICK r : SumsTo(r, e, m) /\ SumOver(e) = r[m]
  BY <1>1, <1>2, SumAt
<1>6. \A n \in Nat : Term(f, n) \in Int /\ Term(g, n) \in Int /\ Term(e, n) = Term(f, n) + Term(g, n)
  BY DEF Term, Summable
<1> DEFINE S == {n \in Nat : n <= m => r[n] = p[n] + q[n]}
<1>7. 0 \in S
  BY <1>3, <1>4, <1>5, <1>6 DEF SumsTo
<1>8. ASSUME NEW n \in Nat, n \in S PROVE n + 1 \in S
  <2> SUFFICES ASSUME n + 1 <= m PROVE r[n + 1] = p[n + 1] + q[n + 1]
    OBVIOUS
  <2>1. n + 1 \in 1..m /\ (n + 1) - 1 = n /\ n \in 0..m /\ r[n] = p[n] + q[n]
    BY <1>8
  <2>2. /\ p[n + 1] = p[n] + Term(f, n + 1) /\ q[n + 1] = q[n] + Term(g, n + 1)
        /\ r[n + 1] = r[n] + Term(e, n + 1) /\ p[n] \in Int /\ q[n] \in Int
    BY <1>3, <1>4, <1>5, <2>1 DEF SumsTo
  <2> QED
    BY <1>6, <2>1, <2>2
<1> HIDE DEF S
<1>9. m \in S
  BY <1>7, <1>8, Climb
<1> QED
  BY <1>1, <1>3, <1>4, <1>5, <1>9 DEF S

\* Without one of its terms a sum is less by that term.
LEMMA SumWithout ==
    ASSUME NEW f, Summable(f), NEW x \in DOMAIN f,
           NEW g, DOMAIN g = DOMAIN f \ {x}, \A n \in DOMAIN g : g[n] = f[n]
    PROVE  Summable(g) /\ SumOver(f) = SumOver(g) + f[x]
<1>1. Summable(g)
  <2>1. IsFiniteSet(DOMAIN g)
    BY FS_Subset DEF Summable
  <2> QED
    BY <2>1 DEF Summable
<1>2. PICK m \in Nat : \A n \in DOMAIN f : n <= m
  BY HasBound DEF Summable
<1>3. PICK p : SumsTo(p, f, m) /\ SumOver(f) = p[m]
  BY <1>2, SumAt
<1>4. PICK q : SumsTo(q, g, m) /\ SumOver(g) = q[m]
  BY <1>1, <1>2, SumAt
<1>5. /\ \A n \in Nat : n # x => Term(f, n) = Term(g, n)
      /\ Term(f, x) = f[x] /\ Term(g, x) = 0 /\ f[x] \in Int /\ x \in Nat
      /\ \A n \in Nat : Term(g, n) \in Int
  BY <1>1 DEF Term, Summable
<1> DEFINE S == {n \in Nat : n <= m => p[n] = q[n] + (IF x <= n THEN f[x] ELSE 0)}
<1>6. 0 \in S
  <2>1. p[0] = Term(f, 0) /\ q[0] = Term(g, 0)
    BY <1>3, <1>4 DEF SumsTo
  <2>2. CASE x = 0
    BY <1>5, <2>1, <2>2
  <2>3. CASE x # 0
    <3>1. ~(x <= 0) /\ Term(g, 0) \in Int
      BY <1>5, <2>3
    <3> QED
      BY <1>5, <2>1, <2>3, <3>1
  <2> QED
    BY <2>2, <2>3
<1>7. ASSUME NEW n \in Nat, n \in S PROVE n + 1 \in S
  <2> SUFFICES ASSUME n + 1 <= m PROVE p[n + 1] = q[n + 1] + (IF x <= n + 1 THEN f[x] ELSE 0)
    OBVIOUS
  <2>1. n + 1 \in 1..m /\ (n + 1) - 1 = n /\ n \in 0..m /\ p[n] = q[n] + (IF x <= n THEN f[x] ELSE 0)
    BY <1>7
  <2>2. /\ p[n + 1] = p[n] + Term(f, n + 1) /\ q[n + 1] = q[n] + Term(g, n + 1) /\ q[n] \in Int
    BY <1>3, <1>4, <2>1 DEF SumsTo
  <2>3. CASE n + 1 = x
    <3>1. ~(x <= n) /\ x <= n + 1
      BY <2>3
    <3> QED
      BY <1>5, <2>1, <2>2, <2>3, <3>1
  <2>4. CASE n + 1 # x
    <3>1. (x <= n + 1) = (x <= n) /\ Term(f, n + 1) = Term(g, n + 1) /\ Term(g, n + 1) \in Int
      BY <1>5, <2>4
    <3> QED
      BY <1>5, <2>1, <2>2, <3>1
  <2> QED
    BY <2>3, <2>4
<1> HIDE DEF S
<1>8. m \in S
  BY <1>6, <1>7, Climb
<1>9. x <= m
  BY <1>2
<1> QED
  BY <1>1, <1>3, <1>4, <1>8, <1>9 DEF S

LEMMA SumZero ==
    ASSUME NEW f, IsFiniteSet(DOMAIN f), DOMAIN f \subseteq Nat, \A n \in DOMAIN f : f[n] = 0
    PROVE  SumOver(f) = 0
<1>1. Summable(f)
  BY DEF Summable
<1>2. PICK m \in Nat : \A n \in DOMAIN f : n <= m
  BY HasBound
<1> DEFINE p == [n \in 0..m |-> 0]
<1>3. SumsTo(p, f, m)
  BY DEF SumsTo, Term
<1> HIDE DEF p
<1>4. SumOver(f) = p[m]
  BY <1>1, <1>2, <1>3, SumIsLast
<1> QED
  BY <1>4 DEF p

\* w places the terms of u among those of v, and leaves only zeros out.
Moves(u, v, w) ==
    /\ Summable(u) /\ Summable(v) /\ w \in [DOMAIN u -> DOMAIN v]
    /\ \A a \in DOMAIN u : u[a] = v[w[a]]
    /\ \A a, b \in DOMAIN u : w[a] = w[b] => a = b
    /\ \A b \in DOMAIN v : v[b] = 0 \/ \E a \in DOMAIN u : w[a] = b

\* Where the terms are does not matter, nor do terms that are 0.
LEMMA SumMoved ==
    ASSUME NEW f, NEW g, NEW h, Moves(f, g, h)
    PROVE  SumOver(f) = SumOver(g)
<1> DEFINE S == {k \in Nat : \A u, v, w : Moves(u, v, w) /\ Cardinality(DOMAIN u) = k => SumOver(u) = SumOver(v)}
<1>1. 0 \in S
  <2> SUFFICES ASSUME NEW u, NEW v, NEW w, Moves(u, v, w), Cardinality(DOMAIN u) = 0
               PROVE  SumOver(u) = SumOver(v)
    OBVIOUS
  <2>1. DOMAIN u = {}
    BY FS_EmptySet DEF Moves, Summable
  <2>2. \A b \in DOMAIN v : v[b] = 0
    BY <2>1 DEF Moves
  <2>3. SumOver(u) = 0
    BY <2>1, SumZero DEF Moves, Summable
  <2>4. SumOver(v) = 0
    BY <2>2, SumZero DEF Moves, Summable
  <2> QED
    BY <2>3, <2>4
<1>2. ASSUME NEW k \in Nat, k \in S PROVE k + 1 \in S
  <2> SUFFICES ASSUME NEW u, NEW v, NEW w, Moves(u, v, w), Cardinality(DOMAIN u) = k + 1
               PROVE  SumOver(u) = SumOver(v)
    OBVIOUS
  <2>1. PICK x \in DOMAIN u : TRUE
    <3>1. DOMAIN u # {}
      BY FS_EmptySet
    <3> QED
      BY <3>1
  <2>2. PICK y \in DOMAIN v : y = w[x]
    BY DEF Moves
  <2> DEFINE A == DOMAIN u \ {x}
             B == DOMAIN v \ {y}
             uu == [a \in A |-> u[a]]
             vv == [b \in B |-> v[b]]
             ww == [a \in A |-> w[a]]
  <2>3. Summable(u) /\ Summable(v)
    BY DEF Moves
  <2>4. Summable(uu) /\ SumOver(u) = SumOver(uu) + u[x]
    <3>1. DOMAIN uu = DOMAIN u \ {x} /\ \A n \in DOMAIN uu : uu[n] = u[n]
      OBVIOUS
    <3> HIDE DEF uu
    <3> QED
      BY <2>3, <3>1, SumWithout
  <2>5. Summable(vv) /\ SumOver(v) = SumOver(vv) + v[y]
    <3>1. DOMAIN vv = DOMAIN v \ {y} /\ \A n \in DOMAIN vv : vv[n] = v[n]
      OBVIOUS
    <3> HIDE DEF vv
    <3> QED
      BY <2>3, <3>1, SumWithout
  <2>6. Cardinality(DOMAIN uu) = k
    <3>1. Cardinality(A) = IF x \in DOMAIN u THEN Cardinality(DOMAIN u) - 1 ELSE Cardinality(DOMAIN u)
      BY <2>3, FS_RemoveElement, Zenon DEF Summable
    <3>2. Cardinality(A) = (k + 1) - 1
      BY <3>1
    <3> QED
      BY <3>2
  <2>7. Moves(uu, vv, ww)
    <3>1. ww \in [A -> B]
      BY <2>2 DEF Moves
    <3> QED
      BY <2>2, <2>4, <2>5, <3>1 DEF Moves
  <2> HIDE DEF uu, vv, ww
  <2>8. SumOver(uu) = SumOver(vv)
    BY <1>2, <2>6, <2>7
  <2>9. u[x] = v[y]
    BY <2>2 DEF Moves
  <2> QED
    BY <2>4, <2>5, <2>8, <2>9
<1>3. Cardinality(DOMAIN f) \in Nat
  BY FS_CardinalityType DEF Moves, Summable
<1> HIDE DEF S
<1>4. Cardinality(DOMAIN f) \in S
  BY <1>1, <1>2, <1>3, Climb
<1> QED
  BY <1>4 DEF S

\* A sum over two sets of terms.
LEMMA SumParts ==
    ASSUME NEW f, Summable(f), NEW A, NEW B, DOMAIN f = A \cup B, A \cap B = {}
    PROVE  SumOver(f) = SumOver([a \in A |-> f[a]]) + SumOver([b \in B |-> f[b]])
<1> DEFINE u == [a \in A |-> f[a]]
           v == [b \in B |-> f[b]]
           uu == [n \in DOMAIN f |-> IF n \in A THEN f[n] ELSE 0]
           vv == [n \in DOMAIN f |-> IF n \in B THEN f[n] ELSE 0]
<1>1. Summable(u) /\ Summable(v) /\ Summable(uu) /\ Summable(vv)
  <2>1. IsFiniteSet(A) /\ IsFiniteSet(B)
    BY FS_Subset DEF Summable
  <2> QED
    BY <2>1 DEF Summable
<1>2. SumOver(f) = SumOver(uu) + SumOver(vv)
  <2>1. \A n \in DOMAIN f : f[n] = uu[n] + vv[n]
    BY DEF Summable
  <2> HIDE DEF uu, vv
  <2>2. DOMAIN uu = DOMAIN f /\ DOMAIN vv = DOMAIN f
    BY DEF uu, vv
  <2> QED
    BY <1>1, <2>1, <2>2, SumPlus
<1>3. SumOver(u) = SumOver(uu)
  <2> DEFINE h == [a \in A |-> a]
  <2>1. h \in [DOMAIN u -> DOMAIN uu]
    OBVIOUS
  <2>2. \A a \in DOMAIN u : u[a] = uu[h[a]]
    OBVIOUS
  <2>3. \A a, b \in DOMAIN u : h[a] = h[b] => a = b
    OBVIOUS
  <2>4. \A b \in DOMAIN uu : uu[b] = 0 \/ \E a \in DOMAIN u : h[a] = b
    OBVIOUS
  <2> HIDE DEF u, uu, h
  <2>5. Moves(u, uu, h)
    BY <1>1, <2>1, <2>2, <2>3, <2>4 DEF Moves
  <2> QED
    BY <2>5, SumMoved
<1>4. SumOver(v) = SumOver(vv)
  <2> DEFINE h == [b \in B |-> b]
  <2>1. h \in [DOMAIN v -> DOMAIN vv]
    OBVIOUS
  <2>2. \A a \in DOMAIN v : v[a] = vv[h[a]]
    OBVIOUS
  <2>3. \A a, b \in DOMAIN v : h[a] = h[b] => a = b
    OBVIOUS
  <2>4. \A b \in DOMAIN vv : vv[b] = 0 \/ \E a \in DOMAIN v : h[a] = b
    OBVIOUS
  <2> HIDE DEF v, vv, h
  <2>5. Moves(v, vv, h)
    BY <1>1, <2>1, <2>2, <2>3, <2>4 DEF Moves
  <2> QED
    BY <2>5, SumMoved
<1> QED
  BY <1>2, <1>3, <1>4
=============================================================================
