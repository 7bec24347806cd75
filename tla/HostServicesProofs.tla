-------------------------- MODULE HostServicesProofs --------------------------
(***************************************************************************)
(* Proofs about TranslationService, for any texts, providers and           *)
(* configurations, and about PushRegistry, for any suites, queue lengths,  *)
(* leases and clocks, and any number of failing writes and crashes.        *)
(***************************************************************************)
EXTENDS HostServices, FiniteSetTheorems, SequenceTheorems, WellFoundedInduction, TLAPS

-----------------------------------------------------------------------------
(***************************************************************************)
(* Numbers and places, in increasing order.                                *)
(***************************************************************************)
\* Of finitely many numbers, each has a rank of its own, and the ranks are the
\* numbers from one on.
LEMMA Ranks ==
  ASSUME NEW S \in SUBSET Nat, IsFiniteSet(S)
  PROVE  /\ Cardinality(S) \in Nat
         /\ \A i \in S : Rank(S, i) \in 1..Cardinality(S)
         /\ \A i, j \in S : i < j => Rank(S, i) < Rank(S, j)
         /\ \A k \in 1..Cardinality(S) : \E i \in S : Rank(S, i) = k
<1>1. Cardinality(S) \in Nat
  BY FS_CardinalityType
<1>2. ASSUME NEW i \in S PROVE Rank(S, i) \in 1..Cardinality(S)
  <2>. DEFINE T == {j \in S : j <= i}
  <2>1. IsFiniteSet(T) /\ Cardinality(T) <= Cardinality(S)
    BY FS_Subset
  <2>2. Cardinality(T) \in Nat
    BY <2>1, FS_CardinalityType
  <2>3. i \in T
    OBVIOUS
  <2>4. Cardinality(T) # 0
    BY <2>1, <2>3, FS_EmptySet
  <2>. QED BY <1>1, <2>1, <2>2, <2>4 DEF Rank
<1>3. ASSUME NEW i \in S, NEW j \in S, i < j PROVE Rank(S, i) < Rank(S, j)
  <2>. DEFINE T == {k \in S : k <= i}
              U == {k \in S : k <= j}
  <2>1. IsFiniteSet(U)
    BY FS_Subset
  <2>a. i \in Nat /\ j \in Nat /\ i < j
    BY <1>3
  <2>b. \A k \in S : k <= i => k <= j
    BY <2>a
  <2>2. T \in SUBSET U
    BY <2>b
  <2>3. T # U
    <3>1. j \in U /\ j \notin T
      BY <2>a
    <3>. QED BY <3>1
  <2>4. IsFiniteSet(T) /\ Cardinality(T) <= Cardinality(U) /\ Cardinality(U) # Cardinality(T)
    BY <2>1, <2>2, <2>3, FS_Subset
  <2>5. Cardinality(T) \in Nat /\ Cardinality(U) \in Nat
    BY <2>1, <2>4, FS_CardinalityType
  <2>. QED BY <2>4, <2>5 DEF Rank
<1>4. ASSUME NEW k \in 1..Cardinality(S) PROVE \E i \in S : Rank(S, i) = k
  <2>. DEFINE r == [i \in S |-> Rank(S, i)]
              N == 1..Cardinality(S)
  <2>1. r \in Injection(S, N)
    <3>1. r \in [S -> N]
      BY <1>2
    <3>2. \A i, j \in S : r[i] = r[j] => i = j
      <4>. SUFFICES ASSUME NEW i \in S, NEW j \in S, r[i] = r[j], i # j PROVE FALSE
        OBVIOUS
      <4>1. i < j \/ j < i
        OBVIOUS
      <4>2. Rank(S, i) \in Nat /\ Rank(S, j) \in Nat /\ Rank(S, i) = Rank(S, j)
        BY <1>1, <1>2
      <4>. QED BY <4>1, <4>2, <1>3
    <3>. QED BY <3>1, <3>2 DEF Injection, IsInjective
  <2>2. IsFiniteSet(N) /\ Cardinality(N) = Cardinality(S)
    BY <1>1, FS_Interval
  <2>3. r \in Surjection(S, N)
    BY <2>1, <2>2, FS_Injection
  <2>. QED BY <2>3 DEF Surjection
<1>. QED BY <1>1, <1>2, <1>3, <1>4
\* Of some numbers one is the least.
LEMMA LeastOf ==
  ASSUME NEW T \in SUBSET Nat, T # {}
  PROVE  \E n \in T : \A k \in T : n <= k
<1>1. PICK n \in T : \A k \in T : <<k, n>> \notin OpToRel(<, Nat)
  BY NatLessThanWellFounded, WFMin
<1>2. \A k \in T : ~(k < n)
  BY <1>1 DEF OpToRel
<1>. QED BY <1>2

-----------------------------------------------------------------------------
(***************************************************************************)
(* The queue of texts.                                                     *)
(***************************************************************************)
Entries == [text : Texts, single : BOOLEAN, prefetch : BOOLEAN]
Distinct(s) == \A i, j \in DOMAIN s : s[i].text = s[j].text => i = j

\* One queue behind another.
LEMMA Joined ==
  ASSUME NEW S, NEW u \in Seq(S), NEW v \in Seq(S), NEW t, t = u \o v,
         NEW a, Len(u) = a, NEW b, Len(v) = b
  PROVE  /\ t \in Seq(S) /\ Len(t) = a + b /\ DOMAIN t = 1..(a + b)
         /\ \A k \in 1..a : t[k] = u[k]
         /\ \A k \in (a + 1)..(a + b) : t[k] = v[k - a]
         /\ \A k \in 1..b : t[a + k] = v[k]
<1>1. a \in Nat /\ b \in Nat
  OBVIOUS
<1>2. /\ t \in Seq(S) /\ Len(t) = a + b
      /\ \A i \in 1..(a + b) : t[i] = IF i <= a THEN u[i] ELSE v[i - a]
  <2>1. /\ t \in Seq(S) /\ Len(t) = Len(u) + Len(v)
        /\ \A i \in 1..(Len(u) + Len(v)) :
             t[i] = IF i <= Len(u) THEN u[i] ELSE v[i - Len(u)]
    BY ConcatProperties
  <2>. QED BY <2>1
<1>3. DOMAIN t = 1..(a + b)
  BY <1>2
<1>4. \A k \in 1..a : t[k] = u[k]
  BY <1>1, <1>2
<1>5. \A k \in (a + 1)..(a + b) : t[k] = v[k - a]
  BY <1>1, <1>2
<1>6. ASSUME NEW k \in 1..b PROVE t[a + k] = v[k]
  <2>1. a + k \in 1..(a + b) /\ ~(a + k <= a) /\ (a + k) - a = k
    BY <1>1
  <2>. QED BY <1>2, <2>1
<1>. QED BY <1>2, <1>3, <1>4, <1>5, <1>6

LEMMA PutFirst ==
  ASSUME NEW S, NEW e \in S, NEW w \in Seq(S), NEW n \in Nat, Len(w) = n - 1,
         NEW t, t = <<e>> \o w
  PROVE  t \in Seq(S) /\ Len(t) = n /\ t[1] = e /\ \A k \in 2..n : t[k] = w[k - 1]
<1>1. <<e>> \in Seq(S) /\ Len(<<e>>) = 1 /\ <<e>>[1] = e
  OBVIOUS
<1>2. /\ t \in Seq(S) /\ Len(t) = 1 + (n - 1)
      /\ \A i \in 1..(1 + (n - 1)) : t[i] = IF i <= 1 THEN <<e>>[i] ELSE w[i - 1]
  BY <1>1, ConcatProperties
<1>. QED BY <1>1, <1>2

LEMMA TextsAppended ==
  ASSUME NEW s \in Seq(Entries), Distinct(s),
         NEW e \in Entries, e.text \notin TextsOf(s)
  PROVE  /\ Append(s, e) \in Seq(Entries) /\ Distinct(Append(s, e))
         /\ TextsOf(Append(s, e)) = TextsOf(s) \cup {e.text}
<1>1. PICK t : t = Append(s, e)
  OBVIOUS
<1>2. t \in Seq(Entries) /\ DOMAIN t = 1..(Len(s) + 1) /\ DOMAIN s = 1..Len(s) /\ Len(s) \in Nat
  BY <1>1
<1>3. t[Len(s) + 1] = e /\ \A i \in 1..Len(s) : t[i] = s[i]
  BY <1>1
<1>4. \A i \in 1..Len(s) : s[i].text # e.text
  BY <1>2 DEF TextsOf
<1>5. Distinct(t)
  BY <1>2, <1>3, <1>4 DEF Distinct
<1>6. TextsOf(t) = TextsOf(s) \cup {e.text}
  BY <1>2, <1>3 DEF TextsOf
<1>. QED BY <1>1, <1>2, <1>5, <1>6

\* Some places of the queue, in order.
LEMMA TextsPicked ==
  ASSUME NEW s \in Seq(Entries), Distinct(s), NEW S \in SUBSET DOMAIN s
  PROVE  /\ IsFiniteSet(S) /\ Cardinality(S) \in Nat
         /\ Pick(s, S) \in Seq(Entries) /\ Distinct(Pick(s, S))
         /\ DOMAIN Pick(s, S) = 1..Cardinality(S)
         /\ TextsOf(Pick(s, S)) = {s[i].text : i \in S}
<1>1. DOMAIN s = 1..Len(s) /\ Len(s) \in Nat /\ S \in SUBSET Nat
  OBVIOUS
<1>2. IsFiniteSet(S)
  <2>1. IsFiniteSet(1..Len(s))
    BY <1>1, FS_Interval
  <2>. QED BY <1>1, <2>1, FS_Subset
<1>3. PICK n : n = Cardinality(S)
  OBVIOUS
<1>4. n \in Nat
  BY <1>2, <1>3, FS_CardinalityType
<1>. DEFINE f == [k \in 1..n |-> CHOOSE i \in S : Rank(S, i) = k]
<1>5. \A k \in 1..n : f[k] \in S /\ Rank(S, f[k]) = k
  BY <1>1, <1>2, <1>3, Ranks
<1>6. PICK t : t = Pick(s, S)
  OBVIOUS
<1>7. t = [k \in 1..n |-> s[f[k]]]
  BY <1>3, <1>6 DEF Pick
<1>8. \A i \in S : \E k \in 1..n : f[k] = i
  <2>. TAKE i \in S
  <2>1. PICK k : k = Rank(S, i)
    OBVIOUS
  <2>2. k \in 1..n
    BY <1>1, <1>2, <1>3, <2>1, Ranks
  <2>3. f[k] \in Nat /\ i \in Nat /\ f[k] \in S
    BY <1>1, <1>5, <2>2
  <2>4. ~(f[k] < i) /\ ~(i < f[k])
    <3>1. Rank(S, f[k]) = k /\ Rank(S, i) = k /\ k \in Nat
      BY <1>5, <1>4, <2>1, <2>2
    <3>2. \A a, b \in S : a < b => Rank(S, a) < Rank(S, b)
      BY <1>1, <1>2, Ranks
    <3>. QED BY <2>3, <3>1, <3>2
  <2>5. f[k] = i
    BY <2>3, <2>4
  <2>. QED BY <2>2, <2>5
<1>. HIDE DEF f
<1>9. t \in Seq(Entries) /\ DOMAIN t = 1..n /\ \A k \in 1..n : t[k] = s[f[k]]
  <2>1. \A k \in 1..n : s[f[k]] \in Entries
    BY <1>1, <1>5
  <2>. QED BY <1>4, <1>7, <2>1
<1>10. Distinct(t)
  <2>1. \A i, j \in 1..n : t[i].text = t[j].text => f[i] = f[j]
    BY <1>5, <1>9 DEF Distinct
  <2>. QED BY <1>5, <1>9, <2>1 DEF Distinct
<1>11. TextsOf(t) = {s[i].text : i \in S}
  BY <1>5, <1>8, <1>9 DEF TextsOf
<1>. QED BY <1>2, <1>3, <1>4, <1>6, <1>9, <1>10, <1>11

LEMMA FirstIsQueued ==
  ASSUME queue \in Seq(Entries), queue # <<>>
  PROVE  First \in DOMAIN queue
<1>1. DOMAIN queue = 1..Len(queue) /\ Len(queue) \in Nat /\ Len(queue) # 0
  OBVIOUS
<1>. DEFINE T == {i \in DOMAIN queue : ~queue[i].prefetch}
<1>2. CASE T # {}
  <2>1. T \in SUBSET Nat
    BY <1>1
  <2>2. PICK n \in T : \A k \in T : n <= k
    BY <1>2, <2>1, LeastOf
  <2>3. \A k \in 1..(n - 1) : k \in DOMAIN queue /\ k \notin T
    BY <1>1, <2>1, <2>2
  <2>4. \A k \in 1..(n - 1) : queue[k].prefetch
    BY <2>3
  <2>5. \E i \in DOMAIN queue : ~queue[i].prefetch
    BY <2>2
  <2>. QED BY <2>2, <2>4, <2>5 DEF First
<1>3. CASE T = {}
  <2>1. \A i \in DOMAIN queue : queue[i].prefetch
    BY <1>3
  <2>2. First = 1
    BY <2>1 DEF First
  <2>. QED BY <1>1, <2>2
<1>. QED BY <1>2, <1>3
\* A prefetch comes first, and is none any more.
LEMMA TextsPromoted ==
  ASSUME NEW s \in Seq(Entries), Distinct(s), NEW i \in DOMAIN s, NEW t,
         t = <<[s[i] EXCEPT !.prefetch = FALSE]>> \o RemoveAt(s, i)
  PROVE  /\ t \in Seq(Entries) /\ Distinct(t)
         /\ TextsOf(t) = TextsOf(s)
<1>. DEFINE n == Len(s)
            e == [s[i] EXCEPT !.prefetch = FALSE]
            g == [k \in 1..n |-> IF k = 1 THEN i ELSE IF k <= i THEN k - 1 ELSE k]
<1>1. n \in Nat /\ DOMAIN s = 1..n /\ i \in 1..n
  OBVIOUS
<1>2. e \in Entries /\ e.text = s[i].text
  <2>1. s[i] \in Entries
    BY <1>1
  <2>. QED BY <2>1 DEF Entries
<1>3. PICK u : u = SubSeq(s, 1, i - 1)
  OBVIOUS
<1>4. PICK v : v = SubSeq(s, i + 1, n)
  OBVIOUS
<1>5. u \in Seq(Entries) /\ Len(u) = i - 1 /\ \A k \in 1..(i - 1) : u[k] = s[k]
  BY <1>1, <1>3
<1>6. v \in Seq(Entries) /\ Len(v) = n - i /\ \A k \in 1..(n - i) : v[k] = s[i + k]
  BY <1>1, <1>4
<1>7. PICK w : w = u \o v
  OBVIOUS
<1>8. /\ w \in Seq(Entries) /\ Len(w) = n - 1
      /\ \A k \in 1..(n - 1) : w[k] = IF k < i THEN s[k] ELSE s[k + 1]
  <2>0. /\ w \in Seq(Entries) /\ Len(w) = (i - 1) + (n - i)
        /\ \A k \in 1..(i - 1) : w[k] = u[k]
        /\ \A k \in ((i - 1) + 1)..((i - 1) + (n - i)) : w[k] = v[k - (i - 1)]
    BY <1>5, <1>6, <1>7, Joined
  <2>1. w \in Seq(Entries) /\ Len(w) = n - 1
    BY <1>1, <2>0
  <2>2. ASSUME NEW k \in 1..(n - 1), k < i PROVE w[k] = s[k]
    <3>0. k \in 1..(i - 1)
      BY <1>1, <2>2
    <3>1. w[k] = u[k]
      BY <2>0, <3>0
    <3>2. u[k] = s[k]
      BY <1>5, <3>0
    <3>. QED BY <3>1, <3>2
  <2>3. ASSUME NEW k \in 1..(n - 1), ~(k < i) PROVE w[k] = s[k + 1]
    <3>0. k \in ((i - 1) + 1)..((i - 1) + (n - i))
      BY <1>1, <2>3
    <3>1. w[k] = v[k - (i - 1)]
      BY <2>0, <3>0
    <3>2. k - (i - 1) \in 1..(n - i) /\ i + (k - (i - 1)) = k + 1
      BY <1>1, <2>3
    <3>. QED BY <1>6, <3>1, <3>2
  <2>. QED BY <2>1, <2>2, <2>3
<1>9. t = <<e>> \o w
  BY <1>3, <1>4, <1>7 DEF RemoveAt
<1>10. t \in Seq(Entries) /\ Len(t) = n /\ t[1] = e /\ \A k \in 2..n : t[k] = w[k - 1]
  <2>2. w \in Seq(Entries) /\ Len(w) = n - 1
    BY <1>8
  <2>. HIDE DEF e, n, g
  <2>3. PICK z : z = <<e>> \o w
    OBVIOUS
  <2>4. z \in Seq(Entries) /\ Len(z) = n /\ z[1] = e /\ \A k \in 2..n : z[k] = w[k - 1]
    <3>1. n \in Nat /\ e \in Entries
      BY <1>1, <1>2
    <3>. QED BY <2>2, <2>3, <3>1, PutFirst
  <2>5. t = z
    BY <1>9, <2>3
  <2>. QED BY <2>4, <2>5
<1>. HIDE DEF e
<1>0. DOMAIN t = 1..n
  BY <1>10
<1>11. \A k \in 1..n : g[k] \in 1..n
  BY <1>1
<1>12. \A j, k \in 1..n : g[j] = g[k] => j = k
  BY <1>1
<1>13. \A k \in 1..n : \E j \in 1..n : g[j] = k
  <2>. TAKE k \in 1..n
  <2>1. CASE k = i
    BY <1>1, <2>1
  <2>2. CASE k < i
    <3>1. k + 1 \in 1..n /\ g[k + 1] = k
      BY <1>1, <2>2
    <3>. QED BY <3>1
  <2>3. CASE k > i
    <3>1. k \in 1..n /\ g[k] = k
      BY <1>1, <2>3
    <3>. QED BY <3>1
  <2>. QED BY <1>1, <2>1, <2>2, <2>3
<1>14. ASSUME NEW k \in 1..n PROVE t[k].text = s[g[k]].text
  <2>1. CASE k = 1
    BY <1>1, <1>2, <1>10, <2>1
  <2>2. CASE k # 1 /\ k <= i
    <3>1. t[k] = w[k - 1] /\ k - 1 \in 1..(n - 1) /\ k - 1 < i
      BY <1>1, <1>10, <2>2
    <3>. QED BY <1>1, <1>8, <2>2, <3>1
  <2>3. CASE k # 1 /\ ~(k <= i)
    <3>1. t[k] = w[k - 1] /\ k - 1 \in 1..(n - 1) /\ ~(k - 1 < i) /\ (k - 1) + 1 = k
      BY <1>1, <1>10, <2>3
    <3>. QED BY <1>1, <1>8, <2>3, <3>1
  <2>. QED BY <2>1, <2>2, <2>3
<1>. HIDE DEF g
<1>15. Distinct(t)
  <2>1. \A j, k \in 1..n : s[g[j]].text = s[g[k]].text => g[j] = g[k]
    BY <1>1, <1>11 DEF Distinct
  <2>2. \A j, k \in 1..n : t[j].text = t[k].text => g[j] = g[k]
    BY <1>14, <2>1
  <2>3. \A j, k \in 1..n : t[j].text = t[k].text => j = k
    BY <1>12, <2>2
  <2>. QED BY <1>0, <2>3 DEF Distinct
<1>16. TextsOf(t) = TextsOf(s)
  <2>1. \A k \in 1..n : t[k].text \in TextsOf(s)
    BY <1>1, <1>11, <1>14 DEF TextsOf
  <2>2. \A k \in 1..n : \E j \in 1..n : t[j].text = s[k].text
    <3>. TAKE k \in 1..n
    <3>1. PICK j \in 1..n : g[j] = k
      BY <1>13
    <3>. QED BY <3>1, <1>14
  <2>3. TextsOf(t) = {t[k].text : k \in 1..n} /\ TextsOf(s) = {s[k].text : k \in 1..n}
    BY <1>0, <1>1 DEF TextsOf
  <2>4. \A x \in TextsOf(t) : x \in TextsOf(s)
    BY <2>1, <2>3
  <2>5. \A x \in TextsOf(s) : x \in TextsOf(t)
    BY <2>2, <2>3
  <2>. QED BY <2>3, <2>4, <2>5
<1>. QED BY <1>10, <1>15, <1>16

\* The texts of a request, each once.
Batch(xs) ==
  /\ xs \in Seq(Texts) /\ xs # <<>>
  /\ \A i, j \in DOMAIN xs : xs[i] = xs[j] => i = j

\* The texts of a failed request come back, one by one.
LEMMA TextsComeBack ==
  ASSUME NEW s \in Seq(Entries), Distinct(s), NEW xs, Batch(xs),
         Range(xs) \cap TextsOf(s) = {}
  PROVE  /\ Singles(xs) \o s \in Seq(Entries) /\ Distinct(Singles(xs) \o s)
         /\ TextsOf(Singles(xs) \o s) = Range(xs) \cup TextsOf(s)
<1>. DEFINE m == Len(xs)
            n == Len(s)
<1>1. m \in Nat /\ n \in Nat /\ DOMAIN xs = 1..m /\ DOMAIN s = 1..n
  BY DEF Batch
<1>2. PICK u : u = Singles(xs)
  OBVIOUS
<1>3. \A k \in 1..m : u[k] \in Entries /\ u[k].text = xs[k]
  BY <1>1, <1>2 DEF Singles, Entries, Batch
<1>4. u \in Seq(Entries) /\ Len(u) = m
  <2>1. DOMAIN u = 1..m /\ u = [k \in 1..m |-> u[k]]
    BY <1>1, <1>2 DEF Singles
  <2>. QED BY <1>1, <1>3, <2>1
<1>5. PICK t : t = u \o s
  OBVIOUS
<1>6. /\ t \in Seq(Entries) /\ DOMAIN t = 1..(m + n)
      /\ \A k \in 1..m : t[k] = u[k]
  <2>1. Len(s) = n
    OBVIOUS
  <2>. HIDE DEF m, n
  <2>. QED BY <1>4, <1>5, <2>1, Joined
<1>7. \A k \in (m + 1)..(m + n) : t[k] = s[k - m] /\ k - m \in 1..n
  <2>1. \A k \in (m + 1)..(m + n) : t[k] = s[k - m]
    BY <1>4, <1>5, Joined
  <2>. QED BY <1>1, <2>1
<1>8. \A k \in 1..n : t[m + k] = s[k] /\ m + k \in 1..(m + n)
  <2>1. \A k \in 1..n : t[m + k] = s[k]
    BY <1>4, <1>5, Joined
  <2>. QED BY <1>1, <2>1
<1>9. \A k \in 1..(m + n) : k \in 1..m \/ k \in (m + 1)..(m + n)
  BY <1>1
<1>10. \A j \in 1..m, k \in 1..n : xs[j] # s[k].text
  BY <1>1 DEF Range, TextsOf
<1>11. Distinct(t)
  <2>. SUFFICES ASSUME NEW j \in 1..(m + n), NEW k \in 1..(m + n), t[j].text = t[k].text
                PROVE  j = k
    BY <1>6 DEF Distinct
  <2>1. CASE j \in 1..m /\ k \in 1..m
    BY <1>1, <1>3, <1>6, <2>1 DEF Batch
  <2>2. CASE j \in 1..m /\ k \in (m + 1)..(m + n)
    BY <1>3, <1>6, <1>7, <1>10, <2>2
  <2>3. CASE j \in (m + 1)..(m + n) /\ k \in 1..m
    BY <1>3, <1>6, <1>7, <1>10, <2>3
  <2>4. CASE j \in (m + 1)..(m + n) /\ k \in (m + 1)..(m + n)
    <3>1. j - m = k - m
      BY <1>1, <1>7, <2>4 DEF Distinct
    <3>. QED BY <1>1, <3>1
  <2>. QED BY <1>9, <2>1, <2>2, <2>3, <2>4
<1>12. TextsOf(t) = Range(xs) \cup TextsOf(s)
  <2>1. ASSUME NEW k \in 1..(m + n) PROVE t[k].text \in Range(xs) \cup TextsOf(s)
    <3>1. CASE k \in 1..m
      BY <1>1, <1>3, <1>6, <3>1 DEF Range
    <3>2. CASE k \in (m + 1)..(m + n)
      BY <1>1, <1>7, <3>2 DEF TextsOf
    <3>. QED BY <1>9, <3>1, <3>2
  <2>2. ASSUME NEW x \in Range(xs) PROVE \E k \in 1..(m + n) : t[k].text = x
    <3>1. PICK k \in 1..m : xs[k] = x
      BY <1>1 DEF Range
    <3>2. k \in 1..(m + n)
      BY <1>1
    <3>. QED BY <1>3, <1>6, <3>1, <3>2
  <2>3. ASSUME NEW k \in 1..n PROVE \E j \in 1..(m + n) : t[j].text = s[k].text
    BY <1>8
  <2>4. \A x \in TextsOf(s) : \E k \in 1..(m + n) : t[k].text = x
    BY <1>1, <2>3 DEF TextsOf
  <2>5. TextsOf(t) \subseteq Range(xs) \cup TextsOf(s)
    BY <1>6, <2>1 DEF TextsOf
  <2>6. \A x : (\E k \in 1..(m + n) : t[k].text = x) => x \in TextsOf(t)
    BY <1>6 DEF TextsOf
  <2>. QED BY <2>2, <2>4, <2>5, <2>6
<1>. QED BY <1>2, <1>5, <1>6, <1>11, <1>12
\* What a request takes along: its texts, each once.
LEMMA BatchTaken ==
  ASSUME NEW s \in Seq(Entries), Distinct(s), NEW f \in DOMAIN s,
         NEW S \in SUBSET (DOMAIN s \ {f}), NEW xs,
         xs = <<s[f].text>> \o [k \in 1..Cardinality(S) |-> Pick(s, S)[k].text]
  PROVE  /\ Batch(xs)
         /\ Range(xs) = {s[i].text : i \in {f} \cup S}
<1>1. PICK t : t = Pick(s, S)
  OBVIOUS
<1>2. PICK m : m = Cardinality(S)
  OBVIOUS
<1>3. /\ m \in Nat /\ t \in Seq(Entries) /\ Distinct(t)
      /\ DOMAIN t = 1..m /\ TextsOf(t) = {s[i].text : i \in S}
  BY <1>1, <1>2, TextsPicked
<1>4. s[f].text \in Texts
  <2>1. s[f] \in Entries
    OBVIOUS
  <2>. QED BY <2>1 DEF Entries
<1>5. PICK w : w = [k \in 1..m |-> t[k].text]
  OBVIOUS
<1>6. w \in Seq(Texts) /\ Len(w) = m /\ \A k \in 1..m : w[k] = t[k].text
  <2>0. \A k \in 1..m : t[k] \in Entries
    BY <1>3
  <2>1. \A k \in 1..m : t[k].text \in Texts
    BY <2>0 DEF Entries
  <2>. QED BY <1>3, <1>5, <2>1
<1>7. PICK z : z = <<s[f].text>> \o w
  OBVIOUS
<1>8. z = xs
  BY <1>1, <1>2, <1>5, <1>7
<1>9. z \in Seq(Texts) /\ Len(z) = m + 1 /\ z[1] = s[f].text /\ \A k \in 2..(m + 1) : z[k] = w[k - 1]
  <2>1. Len(w) = (m + 1) - 1 /\ m + 1 \in Nat
    BY <1>3, <1>6
  <2>. QED BY <1>4, <1>6, <1>7, <2>1, PutFirst
<1>10. DOMAIN z = 1..(m + 1)
  BY <1>9
<1>11. \A k \in 2..(m + 1) : k - 1 \in 1..m /\ z[k] = t[k - 1].text
  BY <1>3, <1>6, <1>9
<1>12. \A k \in 1..m : t[k].text # s[f].text
  <2>. TAKE k \in 1..m
  <2>1. t[k].text \in {s[i].text : i \in S}
    BY <1>3 DEF TextsOf
  <2>2. PICK i \in S : t[k].text = s[i].text
    BY <2>1
  <2>. QED BY <2>2 DEF Distinct
<1>13. ASSUME NEW i \in 1..(m + 1), NEW j \in 1..(m + 1), z[i] = z[j] PROVE i = j
  <2>1. CASE i = 1 /\ j = 1
    BY <2>1
  <2>2. CASE i = 1 /\ j # 1
    <3>1. j \in 2..(m + 1)
      BY <1>3, <2>2
    <3>. QED BY <1>9, <1>11, <1>12, <1>13, <2>2, <3>1
  <2>3. CASE i # 1 /\ j = 1
    <3>1. i \in 2..(m + 1)
      BY <1>3, <2>3
    <3>. QED BY <1>9, <1>11, <1>12, <1>13, <2>3, <3>1
  <2>4. CASE i # 1 /\ j # 1
    <3>1. i \in 2..(m + 1) /\ j \in 2..(m + 1)
      BY <1>3, <2>4
    <3>2. t[i - 1].text = t[j - 1].text
      BY <1>11, <1>13, <3>1
    <3>3. i - 1 = j - 1
      BY <1>3, <1>11, <3>1, <3>2 DEF Distinct
    <3>. QED BY <1>3, <3>1, <3>3
  <2>. QED BY <2>1, <2>2, <2>3, <2>4
<1>14. Batch(z)
  BY <1>3, <1>9, <1>10, <1>13 DEF Batch
<1>15. ASSUME NEW k \in 1..(m + 1) PROVE z[k] \in {s[i].text : i \in {f} \cup S}
  <2>1. CASE k = 1
    BY <1>9, <2>1
  <2>2. CASE k # 1
    <3>1. k \in 2..(m + 1)
      BY <1>3, <2>2
    <3>2. z[k] \in TextsOf(t)
      BY <1>3, <1>11, <3>1 DEF TextsOf
    <3>. QED BY <1>3, <3>2
  <2>. QED BY <2>1, <2>2
<1>16. ASSUME NEW i \in {f} \cup S PROVE \E k \in 1..(m + 1) : z[k] = s[i].text
  <2>1. CASE i = f
    <3>1. 1 \in 1..(m + 1)
      BY <1>3
    <3>. QED BY <1>9, <2>1, <3>1
  <2>2. CASE i \in S
    <3>1. s[i].text \in TextsOf(t)
      BY <1>3, <2>2
    <3>2. PICK k \in 1..m : t[k].text = s[i].text
      BY <1>3, <3>1 DEF TextsOf
    <3>3. k + 1 \in 2..(m + 1) /\ k + 1 \in 1..(m + 1) /\ (k + 1) - 1 = k
      BY <1>3
    <3>4. z[k + 1] = t[(k + 1) - 1].text
      BY <1>11, <3>3
    <3>. QED BY <3>2, <3>3, <3>4
  <2>. QED BY <2>1, <2>2
<1>17. Range(z) = {s[i].text : i \in {f} \cup S}
  BY <1>10, <1>15, <1>16 DEF Range
<1>. QED BY <1>8, <1>14, <1>17

-----------------------------------------------------------------------------
(***************************************************************************)
(* The requests under way.                                                 *)
(***************************************************************************)
Underway ==
  [texts : Seq(Texts), place : Places, refresh : BOOLEAN, again : BOOLEAN,
   fallback : BOOLEAN, answer : {"none", "good"}]

QueueInv == queue \in Seq(Entries) /\ Distinct(queue)

RequestsInv ==
  /\ requests \subseteq Underway /\ IsFiniteSet(requests)
  /\ inFlight = Cardinality(requests)
  /\ \A r \in requests : Batch(r.texts)
  /\ \A r, s \in requests : r # s => Range(r.texts) \cap Range(s.texts) = {}

\* That what was drawn is what is scheduled and no prefetch is what makes the
\* generation tell those who have drawn something of a translation.
TextsInv ==
  /\ configuration \in Configurations /\ stopped \in BOOLEAN /\ generation \in {0, 1}
  /\ cache \subseteq Texts /\ scheduled \subseteq Texts
  /\ TextsOf(queue) \cap InRequests = {}
  /\ scheduled = TextsOf(queue) \cup (IF stopped THEN {} ELSE InRequests)
  /\ stopped => queue = <<>>
  /\ prefetched \subseteq scheduled /\ waiters \subseteq scheduled
  /\ drawn = scheduled \ prefetched
  /\ scheduled \cap (cache \cup retry) = {}

TranslationInv == QueueInv /\ RequestsInv /\ TextsInv

LEMMA RequestTexts ==
  ASSUME RequestsInv, NEW r \in requests
  PROVE  /\ Range(r.texts) # {} /\ Range(r.texts) \subseteq Texts
         /\ Range(r.texts) \subseteq InRequests
<1>1. r.texts \in Seq(Texts) /\ r.texts # <<>>
  BY DEF RequestsInv, Batch
<1>2. 1 \in DOMAIN r.texts
  BY <1>1
<1>3. Range(r.texts) # {}
  BY <1>2 DEF Range
<1>4. \A i \in DOMAIN r.texts : r.texts[i] \in Texts
  BY <1>1
<1>5. Range(r.texts) \subseteq Texts
  BY <1>4 DEF Range
<1>. QED BY <1>3, <1>5 DEF InRequests

\* A request goes on with the same texts.
LEMMA RequestTurns ==
  ASSUME RequestsInv, NEW r \in requests, NEW s \in Underway, s.texts = r.texts,
         requests' = (requests \ {r}) \cup {s}, inFlight' = inFlight
  PROVE  RequestsInv' /\ InRequests' = InRequests
<1>1. s \notin requests \ {r}
  <2>. SUFFICES ASSUME s \in requests, s # r PROVE FALSE
    OBVIOUS
  <2>1. Range(r.texts) \cap Range(s.texts) = {}
    BY DEF RequestsInv
  <2>. QED BY <2>1, RequestTexts
<1>2. IsFiniteSet(requests') /\ inFlight' = Cardinality(requests')
  <2>1. IsFiniteSet(requests) /\ inFlight = Cardinality(requests)
    BY DEF RequestsInv
  <2>2. IsFiniteSet(requests \ {r}) /\ Cardinality(requests \ {r}) = Cardinality(requests) - 1
    BY <2>1, FS_RemoveElement
  <2>3. /\ IsFiniteSet((requests \ {r}) \cup {s})
        /\ Cardinality((requests \ {r}) \cup {s}) = Cardinality(requests \ {r}) + 1
    BY <1>1, <2>2, FS_AddElement
  <2>4. Cardinality(requests) \in Nat
    BY <2>1, FS_CardinalityType
  <2>. QED BY <2>1, <2>2, <2>3, <2>4
<1>3. InRequests' = InRequests
  BY DEF InRequests
<1>4. requests' \subseteq Underway /\ \A q \in requests' : Batch(q.texts)
  BY DEF RequestsInv
<1>5. \A q, p \in requests' : q # p => Range(q.texts) \cap Range(p.texts) = {}
  BY DEF RequestsInv
<1>. QED BY <1>2, <1>3, <1>4, <1>5 DEF RequestsInv

\* A request ends.
LEMMA RequestEnds ==
  ASSUME RequestsInv, NEW r \in requests, requests' = requests \ {r},
         inFlight' = IF inFlight > 0 THEN inFlight - 1 ELSE 0
  PROVE  RequestsInv' /\ InRequests' = InRequests \ Range(r.texts)
<1>1. IsFiniteSet(requests) /\ inFlight = Cardinality(requests)
  BY DEF RequestsInv
<1>2. IsFiniteSet(requests \ {r}) /\ Cardinality(requests \ {r}) = Cardinality(requests) - 1
  BY <1>1, FS_RemoveElement
<1>3. Cardinality(requests) \in Nat /\ Cardinality(requests \ {r}) \in Nat
  BY <1>1, <1>2, FS_CardinalityType
<1>4. IsFiniteSet(requests') /\ inFlight' = Cardinality(requests')
  BY <1>1, <1>2, <1>3
<1>5. InRequests' = InRequests \ Range(r.texts)
  <2>1. \A q \in requests : q # r => Range(q.texts) \cap Range(r.texts) = {}
    BY DEF RequestsInv
  <2>. QED BY <2>1 DEF InRequests
<1>. QED BY <1>4, <1>5 DEF RequestsInv

\* A request starts.
LEMMA RequestStarts ==
  ASSUME RequestsInv, NEW s \in Underway, Batch(s.texts),
         Range(s.texts) \cap InRequests = {},
         requests' = requests \cup {s}, inFlight' = inFlight + 1
  PROVE  RequestsInv' /\ InRequests' = InRequests \cup Range(s.texts)
<1>1. IsFiniteSet(requests) /\ inFlight = Cardinality(requests)
  BY DEF RequestsInv
<1>2. s \notin requests
  <2>1. s.texts \in Seq(Texts) /\ s.texts # <<>>
    BY DEF Batch
  <2>2. 1 \in DOMAIN s.texts
    BY <2>1
  <2>. QED BY <2>2 DEF InRequests, Range
<1>3. IsFiniteSet(requests') /\ inFlight' = Cardinality(requests')
  BY <1>1, <1>2, FS_AddElement
<1>4. InRequests' = InRequests \cup Range(s.texts)
  BY DEF InRequests
<1>5. \A q, p \in requests' : q # p => Range(q.texts) \cap Range(p.texts) = {}
  <2>1. \A q \in requests : Range(q.texts) \subseteq InRequests
    BY DEF InRequests
  <2>. QED BY <2>1 DEF RequestsInv
<1>. QED BY <1>3, <1>4, <1>5 DEF RequestsInv
-----------------------------------------------------------------------------
(***************************************************************************)
(* Each step keeps the account, and is one of TextTranslations.            *)
(***************************************************************************)
Status == [x \in Texts |-> IF x \in cache THEN "known"
                           ELSE IF x \in scheduled THEN "requested" ELSE "unknown"]
Seen == <<Status, drawn, generation>>
Kept == TranslationInv' /\ (Promise!Next \/ Seen' = Seen)

\* A step that leaves the texts to themselves.
LEMMA TextsUntouched ==
  ASSUME TranslationInv, RequestsInv', InRequests' = InRequests,
         UNCHANGED <<cache, scheduled, prefetched, waiters, queue, stopped, configuration,
                     drawn, generation>>,
         retry' \subseteq retry
  PROVE  Kept
<1>1. QueueInv' /\ TextsOf(queue)' = TextsOf(queue)
  BY DEF TranslationInv, QueueInv, Distinct, TextsOf
<1>2. TextsInv'
  BY <1>1 DEF TranslationInv, TextsInv
<1>. QED BY <1>1, <1>2 DEF Kept, TranslationInv, Seen, Status

\* A text is asked for.
LEMMA TextAsked ==
  ASSUME TranslationInv, NEW x \in Texts, NEW early \in BOOLEAN,
         x \notin cache \cup scheduled \cup retry, ~stopped,
         AppendEntry(x, early),
         prefetched' = IF early THEN prefetched \cup {x} ELSE prefetched,
         drawn' = IF early THEN drawn ELSE drawn \cup {x},
         waiters' \subseteq waiters \cup {x},
         UNCHANGED <<cache, retry, requestVars, stopped, configuration, generation>>
  PROVE  Kept
<1>1. queue \in Seq(Entries) /\ Distinct(queue)
  BY DEF TranslationInv, QueueInv
<1>2. Entry(x, early) \in Entries /\ Entry(x, early).text = x
  BY DEF Entry, Entries
<1>3. x \notin TextsOf(queue) /\ x \notin InRequests
  BY DEF TranslationInv, TextsInv
<1>4. queue' = Append(queue, Entry(x, early)) /\ scheduled' = scheduled \cup {x}
  BY DEF AppendEntry
<1>5. queue' \in Seq(Entries) /\ Distinct(queue') /\ TextsOf(queue') = TextsOf(queue) \cup {x}
  BY <1>1, <1>2, <1>3, <1>4, TextsAppended
<1>6. RequestsInv' /\ InRequests' = InRequests
  BY DEF TranslationInv, RequestsInv, requestVars, InRequests
<1>7. TextsOf(queue)' = TextsOf(queue')
  BY DEF TextsOf
<1>8. TextsInv'
  BY <1>3, <1>4, <1>5, <1>6, <1>7 DEF TranslationInv, TextsInv
<1>9. QueueInv'
  BY <1>5 DEF QueueInv, Distinct
<1>10. Promise!Request(x)
  <2>1. Status[x] = "unknown"
    BY DEF Status
  <2>2. Status' = [Status EXCEPT ![x] = "requested"]
    BY <1>4 DEF Status
  <2>3. drawn' \in {drawn, drawn \cup {x}}
    OBVIOUS
  <2>. QED BY <2>1, <2>2, <2>3 DEF Promise!Request, Status
<1>. QED BY <1>6, <1>8, <1>9, <1>10 DEF Kept, TranslationInv, Promise!Next

LEMMA LookUpStep ==
  ASSUME TranslationInv, NEW x \in Texts, LookUp(x)
  PROVE  Kept
<1>1. /\ ~stopped /\ x \notin cache \cup retry
      /\ waiters' = waiters \cup {x} /\ drawn' = drawn \cup {x}
      /\ UNCHANGED <<cache, retry, requestVars, stopped, configuration, generation>>
  BY DEF LookUp, Called
<1>2. CASE x \notin scheduled
  <2>1. AppendEntry(x, FALSE) /\ UNCHANGED prefetched
    BY <1>2 DEF LookUp
  <2>. QED BY <1>1, <1>2, <2>1, TextAsked
<1>3. CASE x \in scheduled
  <2>1. Promoted(x) /\ UNCHANGED scheduled
    BY <1>3 DEF LookUp
  <2>2. prefetched' = prefetched \ {x}
    BY <2>1 DEF Promoted
  <2>3. QueueInv' /\ TextsOf(queue)' = TextsOf(queue) /\ (queue = <<>> => queue' = <<>>)
    <3>1. CASE UNCHANGED queue
      BY <3>1 DEF TranslationInv, QueueInv, Distinct, TextsOf
    <3>2. CASE \E i \in DOMAIN queue :
                 queue' = <<[queue[i] EXCEPT !.prefetch = FALSE]>> \o RemoveAt(queue, i)
      <4>1. PICK i \in DOMAIN queue :
              queue' = <<[queue[i] EXCEPT !.prefetch = FALSE]>> \o RemoveAt(queue, i)
        BY <3>2
      <4>2. queue \in Seq(Entries) /\ Distinct(queue)
        BY DEF TranslationInv, QueueInv
      <4>3. queue' \in Seq(Entries) /\ Distinct(queue') /\ TextsOf(queue') = TextsOf(queue)
        BY <4>1, <4>2, TextsPromoted
      <4>4. queue # <<>>
        BY <4>1
      <4>. QED BY <4>3, <4>4 DEF QueueInv, Distinct, TextsOf
    <3>. QED BY <2>1, <3>1, <3>2 DEF Promoted
  <2>4. RequestsInv' /\ InRequests' = InRequests
    BY <1>1 DEF TranslationInv, RequestsInv, requestVars, InRequests
  <2>5. TextsInv'
    BY <1>1, <1>3, <2>1, <2>2, <2>3, <2>4 DEF TranslationInv, TextsInv
  <2>6. Promise!Draw(x)
    <3>1. Status[x] = "requested" /\ Status' = Status
      BY <1>1, <1>3, <2>1 DEF Status
    <3>. QED BY <1>1, <3>1 DEF Promise!Draw, Status
  <2>. QED BY <2>3, <2>4, <2>5, <2>6 DEF Kept, TranslationInv, Promise!Next
<1>. QED BY <1>2, <1>3

LEMMA RefusedStep ==
  ASSUME TranslationInv, NEW x \in Texts, Refused(x)
  PROVE  Kept
<1>1. /\ waiters' = waiters \ {x}
      /\ UNCHANGED <<cache, scheduled, prefetched, retry, queue, requestVars, stopped,
                     configuration, drawn, generation>>
  BY DEF Refused, Called
<1>2. RequestsInv' /\ InRequests' = InRequests
  BY <1>1 DEF TranslationInv, RequestsInv, requestVars, InRequests
<1>3. QueueInv' /\ TextsOf(queue)' = TextsOf(queue)
  BY <1>1 DEF TranslationInv, QueueInv, Distinct, TextsOf
<1>4. TextsInv'
  BY <1>1, <1>2, <1>3 DEF TranslationInv, TextsInv
<1>. QED BY <1>1, <1>2, <1>3, <1>4 DEF Kept, TranslationInv, Seen, Status

LEMMA PrefetchStep ==
  ASSUME TranslationInv, NEW x \in Texts, Prefetch(x)
  PROVE  Kept
<1>1. /\ ~stopped /\ x \notin cache \cup scheduled \cup retry
      /\ AppendEntry(x, TRUE) /\ prefetched' = prefetched \cup {x}
      /\ UNCHANGED <<cache, waiters, retry, requestVars, stopped, configuration, drawn,
                     generation>>
  BY DEF Prefetch, Called
<1>. QED BY <1>1, TextAsked

LEMMA DestroyStep ==
  ASSUME TranslationInv, Destroy
  PROVE  Kept
<1>1. /\ stopped' = TRUE /\ queue' = <<>>
      /\ scheduled' = {} /\ prefetched' = {} /\ waiters' = {} /\ drawn' = {}
      /\ UNCHANGED <<cache, retry, requestVars, configuration, generation>>
  BY DEF Destroy
<1>2. RequestsInv' /\ InRequests' = InRequests
  BY <1>1 DEF TranslationInv, RequestsInv, requestVars, InRequests
<1>3. QueueInv' /\ TextsOf(queue)' = {}
  BY <1>1 DEF QueueInv, Distinct, TextsOf
<1>4. TextsInv'
  BY <1>1, <1>2, <1>3 DEF TranslationInv, TextsInv
<1>5. CASE scheduled = {}
  <2>1. drawn = {}
    BY <1>5 DEF TranslationInv, TextsInv
  <2>. QED BY <1>1, <1>2, <1>3, <1>4, <1>5, <2>1 DEF Kept, TranslationInv, Seen, Status
<1>6. CASE scheduled # {}
  <2>1. scheduled \subseteq Texts /\ scheduled \cap cache = {} /\ drawn \subseteq scheduled
    BY DEF TranslationInv, TextsInv
  <2>2. scheduled \subseteq {x \in Texts : Status[x] = "requested"}
    BY <2>1 DEF Status
  <2>3. Status' = [x \in Texts |-> IF x \in scheduled THEN "unknown" ELSE Status[x]]
    BY <1>1, <2>1 DEF Status
  <2>5. \E x \in Texts : Promise!Settle(x)
    <3>1. PICK x \in scheduled : x \in Texts
      BY <1>6, <2>1
    <3>2. scheduled \in SUBSET Texts
      BY <2>1
    <3>3. PICK xs : xs = scheduled
      OBVIOUS
    <3>4. Promise!Fail(xs)
      BY <1>1, <1>6, <2>1, <2>2, <2>3, <3>3 DEF Promise!Fail, Promise!End, Promise!Of, Status
    <3>5. Promise!Settle(x)
      BY <3>1, <3>2, <3>3, <3>4 DEF Promise!Settle
    <3>. QED BY <3>1, <3>5
  <2>. QED BY <1>2, <1>3, <1>4, <2>5 DEF Kept, TranslationInv, Promise!Next
<1>. QED BY <1>5, <1>6
LEMMA StartStep ==
  ASSUME TranslationInv, ~stopped, queue # <<>>, NEW p, StartRequest(p),
         UNCHANGED <<cache, scheduled, prefetched, waiters, retry, stopped, configuration,
                     drawn, generation>>
  PROVE  Kept
<1>0. queue \in Seq(Entries) /\ Distinct(queue) /\ RequestsInv /\ TextsInv
  BY DEF TranslationInv, QueueInv
<1>1. First \in DOMAIN queue
  BY <1>0, FirstIsQueued
<1>2. PICK along, xs :
        /\ along \in SUBSET Companions
        /\ xs = <<queue[First].text>>
                  \o [k \in 1..Cardinality(along) |-> Pick(queue, along)[k].text]
        /\ queue' = Pick(queue, DOMAIN queue \ ({First} \cup along))
        /\ inFlight' = inFlight + 1
        /\ requests' = requests \cup
             {[texts |-> xs, place |-> IF p = "bing" THEN "bingStart" ELSE "google",
               refresh |-> FALSE, again |-> TRUE, fallback |-> configuration.automatic,
               answer |-> "none"]}
  BY DEF StartRequest
<1>3. PICK S : S = DOMAIN queue \ ({First} \cup along)
  OBVIOUS
<1>4. along \in SUBSET (DOMAIN queue \ {First})
  BY <1>2 DEF Companions
<1>5. Batch(xs) /\ Range(xs) = {queue[i].text : i \in {First} \cup along}
  BY <1>0, <1>1, <1>2, <1>4, BatchTaken
<1>6. /\ queue' \in Seq(Entries) /\ Distinct(queue')
      /\ TextsOf(queue') = {queue[i].text : i \in S}
  BY <1>0, <1>2, <1>3, TextsPicked
<1>7. TextsOf(queue) = Range(xs) \cup TextsOf(queue')
  BY <1>1, <1>3, <1>4, <1>5, <1>6 DEF TextsOf
<1>8. Range(xs) \cap TextsOf(queue') = {}
  <2>1. \A i \in {First} \cup along, j \in S : queue[i].text # queue[j].text
    BY <1>0, <1>1, <1>3, <1>4 DEF Distinct
  <2>. QED BY <1>5, <1>6, <2>1
<1>9. PICK s : s = [texts |-> xs, place |-> IF p = "bing" THEN "bingStart" ELSE "google",
                    refresh |-> FALSE, again |-> TRUE, fallback |-> configuration.automatic,
                    answer |-> "none"]
  OBVIOUS
<1>10. s \in Underway /\ s.texts = xs
  <2>1. configuration.automatic \in BOOLEAN
    BY <1>0, TranslationAssumption DEF TextsInv
  <2>2. xs \in Seq(Texts)
    BY <1>5 DEF Batch
  <2>. QED BY <1>9, <2>1, <2>2 DEF Underway, Places
<1>11. Range(s.texts) \cap InRequests = {}
  BY <1>0, <1>7, <1>10 DEF TextsInv
<1>12. RequestsInv' /\ InRequests' = InRequests \cup Range(xs)
  <2>1. requests' = requests \cup {s} /\ inFlight' = inFlight + 1
    BY <1>2, <1>9
  <2>2. Batch(s.texts)
    BY <1>5, <1>10
  <2>. QED BY <1>0, <1>10, <1>11, <2>1, <2>2, RequestStarts
<1>13. QueueInv' /\ TextsOf(queue)' = TextsOf(queue')
  BY <1>6 DEF QueueInv, Distinct, TextsOf
<1>14. TextsInv'
  BY <1>0, <1>7, <1>8, <1>12, <1>13 DEF TextsInv
<1>. QED BY <1>12, <1>13, <1>14 DEF Kept, TranslationInv, Seen, Status

LEMMA PumpStep ==
  ASSUME TranslationInv, Pump
  PROVE  Kept
<1>1. UNCHANGED <<cache, scheduled, prefetched, waiters, retry, stopped, configuration,
                  drawn, generation>>
  BY DEF Pump, callerVars
<1>2. CASE UNCHANGED <<queue, requestVars>>
  <2>1. RequestsInv' /\ InRequests' = InRequests
    BY <1>2 DEF TranslationInv, RequestsInv, requestVars, InRequests
  <2>. QED BY <1>1, <1>2, <2>1, TextsUntouched
<1>3. CASE ~stopped /\ queue # <<>> /\ \E p \in Chosen : StartRequest(p)
  BY <1>1, <1>3, StartStep
<1>. QED BY <1>2, <1>3 DEF Pump, PumpReturns, PumpLater

\* The steps of a request before its last.
LEMMA TurnStep ==
  ASSUME TranslationInv, NEW r \in requests, NEW s, s \in Underway, s.texts = r.texts,
         Turns(r, s),
         UNCHANGED <<textVars, inFlight, callerVars, stopped>>
  PROVE  Kept
<1>1. RequestsInv /\ requests' = (requests \ {r}) \cup {s} /\ inFlight' = inFlight
  BY DEF TranslationInv, Turns
<1>2. RequestsInv' /\ InRequests' = InRequests
  BY <1>1, RequestTurns
<1>. QED BY <1>2, TextsUntouched DEF textVars, callerVars

Turned(r) == \E s \in Underway : s.texts = r.texts /\ Turns(r, s)

LEMMA ProvidersTurn ==
  ASSUME NEW r \in Underway, NEW p \in Providers
  PROVE  /\ GoesOn(r, p) => Turned(r)
         /\ Answered(r, p) => Turned(r)
<1>1. ASSUME GoesOn(r, p) PROVE Turned(r)
  <2>1. PICK place \in {"google", "bingStart"} :
          \/ Turns(r, [r EXCEPT !.place = place, !.refresh = FALSE, !.again = TRUE,
                                !.fallback = FALSE])
          \/ Turns(r, [r EXCEPT !.place = "finish"])
    BY <1>1 DEF GoesOn
  <2>2. /\ [r EXCEPT !.place = place, !.refresh = FALSE, !.again = TRUE, !.fallback = FALSE]
             \in Underway
        /\ [r EXCEPT !.place = place, !.refresh = FALSE, !.again = TRUE,
                     !.fallback = FALSE].texts = r.texts
    BY DEF Underway, Places
  <2>3. [r EXCEPT !.place = "finish"] \in Underway /\ [r EXCEPT !.place = "finish"].texts = r.texts
    BY DEF Underway, Places
  <2>. QED BY <2>1, <2>2, <2>3 DEF Turned
<1>2. ASSUME Answered(r, p) PROVE Turned(r)
  <2>1. PICK useful \in BOOLEAN :
          Turns(r, [r EXCEPT !.place = "finish",
                             !.answer = IF useful THEN "good" ELSE "none"])
    BY <1>2 DEF Answered
  <2>2. /\ [r EXCEPT !.place = "finish", !.answer = IF useful THEN "good" ELSE "none"]
             \in Underway
        /\ [r EXCEPT !.place = "finish",
                     !.answer = IF useful THEN "good" ELSE "none"].texts = r.texts
    BY DEF Underway, Places
  <2>. QED BY <2>1, <2>2 DEF Turned
<1>. QED BY <1>1, <1>2

LEMMA NetworkTurns ==
  ASSUME NEW r \in Underway,
         GoogleAnswers(r) \/ BingStarts(r) \/ HomeAnswers(r) \/ BingSends(r) \/ BingAnswers(r)
  PROVE  Turned(r)
<1>0. "google" \in Providers /\ "bing" \in Providers
  BY DEF Providers
<1>1. ASSUME NEW place \in {"bingSend", "home", "bing", "unsent"},
             Turns(r, [r EXCEPT !.place = place])
      PROVE  Turned(r)
  <2>1. [r EXCEPT !.place = place] \in Underway /\ [r EXCEPT !.place = place].texts = r.texts
    BY DEF Underway, Places
  <2>. QED BY <1>1, <2>1 DEF Turned
<1>2. CASE GoogleAnswers(r)
  BY <1>0, <1>2, ProvidersTurn DEF GoogleAnswers
<1>3. CASE BingStarts(r)
  BY <1>1, <1>3 DEF BingStarts
<1>4. CASE HomeAnswers(r)
  BY <1>0, <1>1, <1>4, ProvidersTurn DEF HomeAnswers
<1>5. CASE BingSends(r)
  BY <1>1, <1>5 DEF BingSends
<1>6. CASE BingAnswers(r)
  <2>1. CASE Turns(r, [r EXCEPT !.place = "bingStart", !.refresh = TRUE, !.again = FALSE])
    <3>1. /\ [r EXCEPT !.place = "bingStart", !.refresh = TRUE, !.again = FALSE] \in Underway
          /\ [r EXCEPT !.place = "bingStart", !.refresh = TRUE, !.again = FALSE].texts = r.texts
      BY DEF Underway, Places
    <3>. QED BY <2>1, <3>1 DEF Turned
  <2>. QED BY <1>0, <1>6, <2>1, ProvidersTurn DEF BingAnswers
<1>. QED BY <1>2, <1>3, <1>4, <1>5, <1>6
\* The last step of a request: the translation, a failure, or texts that come back.
LEMMA FinishStep ==
  ASSUME TranslationInv, NEW r \in requests, Finishes(r), UNCHANGED stopped
  PROVE  Kept
<1>. DEFINE xs == Range(r.texts)
<1>0. QueueInv /\ RequestsInv /\ TextsInv
  BY DEF TranslationInv
<1>1. /\ requests' = requests \ {r}
      /\ inFlight' = IF inFlight > 0 THEN inFlight - 1 ELSE 0
      /\ UNCHANGED configuration
  BY DEF Finishes
<1>2. RequestsInv' /\ InRequests' = InRequests \ xs
  BY <1>0, <1>1, RequestEnds
<1>3. xs # {} /\ xs \subseteq Texts /\ xs \subseteq InRequests /\ xs \cap TextsOf(queue) = {}
  BY <1>0, RequestTexts DEF TextsInv
<1>4. Batch(r.texts)
  BY <1>0 DEF RequestsInv
<1>. HIDE DEF xs
<1>5. CASE Forget(xs) /\ UNCHANGED queue /\ xs \cap cache' = xs /\ ~stopped
           /\ cache' = cache \cup xs /\ retry' = retry \ xs
           /\ generation' = IF xs \subseteq prefetched THEN generation ELSE 1 - generation
  <2>1. QueueInv' /\ TextsOf(queue)' = TextsOf(queue)
    BY <1>0, <1>5 DEF QueueInv, Distinct, TextsOf
  <2>2. /\ scheduled' = scheduled \ xs /\ prefetched' = prefetched \ xs
        /\ waiters' = waiters \ xs /\ drawn' = drawn \ xs
    BY <1>5 DEF Forget, Unscheduled
  <2>3. generation' \in {0, 1}
    BY <1>0, <1>5 DEF TextsInv
  <2>4. TextsInv'
    BY <1>0, <1>1, <1>2, <1>3, <1>5, <2>1, <2>2, <2>3 DEF TextsInv
  <2>5. xs \subseteq scheduled
    BY <1>0, <1>3, <1>5 DEF TextsInv
  <2>6. xs \subseteq prefetched <=> drawn \cap xs = {}
    BY <1>0, <2>5 DEF TextsInv
  <2>7. xs \subseteq {x \in Texts : Status[x] = "requested"}
    BY <1>0, <1>3, <2>5 DEF Status, TextsInv
  <2>8. Status' = [x \in Texts |-> IF x \in xs THEN "known" ELSE Status[x]]
    BY <1>5, <2>2 DEF Status
  <2>9. Promise!Arrive(xs)
    BY <1>3, <1>5, <2>2, <2>6, <2>7, <2>8
       DEF Promise!Arrive, Promise!End, Promise!Of, Status
  <2>10. PICK x \in xs : x \in Texts
    BY <1>3
  <2>11. Promise!Settle(x)
    BY <1>3, <2>9, <2>10 DEF Promise!Settle
  <2>. QED BY <1>2, <2>1, <2>4, <2>10, <2>11 DEF Kept, TranslationInv, Promise!Next
<1>6. CASE queue' = Singles(r.texts) \o queue /\ ~stopped
           /\ UNCHANGED <<scheduled, prefetched, waiters, drawn, cache, retry, generation>>
  <2>1. PICK q : q = Singles(r.texts) \o queue
    OBVIOUS
  <2>2. q \in Seq(Entries) /\ Distinct(q) /\ TextsOf(q) = xs \cup TextsOf(queue)
    BY <1>0, <1>3, <1>4, <2>1, TextsComeBack DEF QueueInv, xs
  <2>a. queue' = q
    BY <1>6, <2>1
  <2>b. QueueInv'
    BY <2>a, <2>2 DEF QueueInv, Distinct
  <2>c. TextsOf(queue)' = TextsOf(q)
    BY <2>a DEF TextsOf
  <2>3. QueueInv' /\ TextsOf(queue)' = xs \cup TextsOf(queue)
    BY <2>b, <2>c, <2>2
  <2>4. TextsInv'
    BY <1>0, <1>1, <1>2, <1>3, <1>6, <2>3 DEF TextsInv
  <2>. QED BY <1>2, <1>6, <2>3, <2>4 DEF Kept, TranslationInv, Seen, Status
<1>7. CASE Forget(xs) /\ UNCHANGED <<queue, cache, generation>>
           /\ retry' \subseteq retry \cup xs
  <2>1. QueueInv' /\ TextsOf(queue)' = TextsOf(queue)
    BY <1>0, <1>7 DEF QueueInv, Distinct, TextsOf
  <2>2. /\ scheduled' = scheduled \ xs /\ prefetched' = prefetched \ xs
        /\ waiters' = waiters \ xs /\ drawn' = drawn \ xs
    BY <1>7 DEF Forget, Unscheduled
  <2>3. TextsInv'
    BY <1>0, <1>1, <1>2, <1>3, <1>7, <2>1, <2>2 DEF TextsInv
  <2>4. CASE stopped
    <3>1. scheduled = {} /\ drawn = {}
      BY <1>0, <2>4 DEF TextsInv, TextsOf
    <3>. QED BY <1>2, <1>7, <2>1, <2>2, <2>3, <3>1 DEF Kept, TranslationInv, Seen, Status
  <2>5. CASE ~stopped
    <3>1. xs \subseteq scheduled
      BY <1>0, <1>3, <2>5 DEF TextsInv
    <3>2. xs \subseteq {x \in Texts : Status[x] = "requested"}
      BY <1>0, <1>3, <3>1 DEF Status, TextsInv
    <3>3. Status' = [x \in Texts |-> IF x \in xs THEN "unknown" ELSE Status[x]]
      BY <1>0, <1>7, <2>2, <3>1 DEF Status, TextsInv
    <3>4. Promise!Fail(xs)
      BY <1>3, <1>7, <2>2, <3>2, <3>3 DEF Promise!Fail, Promise!End, Promise!Of, Status
    <3>5. PICK x \in xs : x \in Texts
      BY <1>3
    <3>6. Promise!Settle(x)
      BY <1>3, <3>4, <3>5 DEF Promise!Settle
    <3>. QED BY <1>2, <2>1, <2>3, <3>5, <3>6 DEF Kept, TranslationInv, Promise!Next
  <2>. QED BY <2>4, <2>5
<1>8. \/ /\ r.answer = "good" /\ ~stopped
         /\ Forget(xs) /\ cache' = cache \cup xs /\ retry' = retry \ xs
         /\ generation' = IF xs \subseteq prefetched THEN generation ELSE 1 - generation
         /\ UNCHANGED queue
      \/ /\ ~stopped /\ queue' = Singles(r.texts) \o queue
         /\ UNCHANGED <<scheduled, prefetched, waiters, drawn, cache, retry, generation>>
      \/ Forget(xs) /\ UNCHANGED <<queue, cache, retry, generation>>
      \/ Forget(xs) /\ retry' = retry \cup xs /\ UNCHANGED <<queue, cache, generation>>
  BY DEF Finishes, xs
<1>. QED BY <1>5, <1>6, <1>7, <1>8

LEMMA RequestStepKeeps ==
  ASSUME TranslationInv, NEW r \in requests, RequestStep(r)
  PROVE  Kept
<1>1. CASE Finishes(r)
  BY <1>1, FinishStep DEF RequestStep
<1>2. CASE /\ GoogleAnswers(r) \/ BingStarts(r) \/ HomeAnswers(r) \/ BingSends(r) \/ BingAnswers(r)
           /\ UNCHANGED <<textVars, inFlight, pace, scheduling, pumping, callerVars>>
  <2>1. r \in Underway
    BY DEF TranslationInv, RequestsInv
  <2>2. PICK s \in Underway : s.texts = r.texts /\ Turns(r, s)
    BY <1>2, <2>1, NetworkTurns DEF Turned
  <2>3. UNCHANGED stopped
    BY DEF RequestStep
  <2>. QED BY <1>2, <2>2, <2>3, TurnStep
<1>. QED BY <1>1, <1>2 DEF RequestStep

LEMMA TranslationStep ==
  ASSUME TranslationInv, [TranslationNext]_translationVars
  PROVE  Kept
<1>. DEFINE Quiet == /\ UNCHANGED <<cache, scheduled, prefetched, waiters, queue, requestVars,
                                    configuration, drawn, generation, stopped>>
                     /\ retry' \subseteq retry
<1>1. ASSUME Quiet PROVE Kept
  <2>1. RequestsInv' /\ InRequests' = InRequests
    BY <1>1 DEF TranslationInv, RequestsInv, requestVars, InRequests
  <2>. QED BY <1>1, <2>1, TextsUntouched
<1>2. CASE UNCHANGED translationVars
  BY <1>1, <1>2 DEF translationVars, textVars, callerVars
<1>3. ASSUME NEW x \in Texts, Program(x) PROVE Kept
  BY <1>3, LookUpStep, RefusedStep, PrefetchStep DEF Program
<1>4. ASSUME NEW x \in Texts, RetryPasses(x) PROVE Kept
  BY <1>1, <1>4 DEF RetryPasses, callerVars
<1>5. CASE SchedulePump
  BY <1>1, <1>5 DEF SchedulePump, textVars, callerVars
<1>6. CASE TimeToPump
  BY <1>1, <1>6 DEF TimeToPump, textVars, callerVars
<1>7. ASSUME NEW p \in Providers, ProviderReady(p) PROVE Kept
  BY <1>1, <1>7 DEF ProviderReady, textVars, callerVars
<1>8. CASE RequestTime
  BY <1>1, <1>8 DEF RequestTime, textVars, callerVars
<1>. QED BY <1>2, <1>3, <1>4, <1>5, <1>6, <1>7, <1>8, DestroyStep, PumpStep, RequestStepKeeps
         DEF TranslationNext, ServiceStep
LEMMA TranslationStarts ==
  ASSUME TranslationInit
  PROVE  TranslationInv /\ Promise!Init
<1>1. QueueInv /\ TextsOf(queue) = {}
  BY DEF TranslationInit, QueueInv, Distinct, TextsOf
<1>2. RequestsInv /\ InRequests = {}
  BY FS_EmptySet DEF TranslationInit, RequestsInv, InRequests
<1>3. TextsInv
  BY <1>1, <1>2 DEF TranslationInit, TextsInv
<1>4. Promise!Init
  BY DEF TranslationInit, Promise!Init
<1>. QED BY <1>1, <1>2, <1>3, <1>4 DEF TranslationInv

\* What the queue, the requests and the maps of the service have to do with each
\* other, for any texts and any configuration.
THEOREM TranslationInductive == TranslationSpec => []TranslationInv
<1>1. TranslationInit => TranslationInv
  BY TranslationStarts
<1>2. TranslationInv /\ [TranslationNext]_translationVars => TranslationInv'
  BY TranslationStep DEF Kept
<1>. QED BY <1>1, <1>2, PTL DEF TranslationSpec

LEMMA EachTextOnce ==
  ASSUME QueueInv
  PROVE  Cardinality(TextsOf(queue)) = Len(queue)
<1>. DEFINE n == Len(queue)
            f == [i \in 1..n |-> queue[i].text]
<1>1. n \in Nat /\ DOMAIN queue = 1..n /\ IsFiniteSet(1..n) /\ Cardinality(1..n) = n
  <2>1. n \in Nat /\ DOMAIN queue = 1..n
    BY DEF QueueInv
  <2>. HIDE DEF n
  <2>2. IsFiniteSet(1..n) /\ Cardinality(1..n) = n
    BY <2>1, FS_Interval
  <2>. QED BY <2>1, <2>2
<1>2. f \in [1..n -> TextsOf(queue)]
  BY <1>1 DEF TextsOf
<1>3. \A x \in TextsOf(queue) : \E i \in 1..n : f[i] = x
  BY <1>1 DEF TextsOf
<1>4. \A i, j \in 1..n : f[i] = f[j] => i = j
  BY <1>1 DEF QueueInv, Distinct
<1>5. ExistsBijection(1..n, TextsOf(queue))
  <2>. HIDE DEF f
  <2>1. f \in Bijection(1..n, TextsOf(queue))
    BY <1>2, <1>3, <1>4 DEF Bijection, Injection, Surjection, IsInjective
  <2>. QED BY <2>1 DEF ExistsBijection
<1>. QED BY <1>1, <1>5, FS_Bijection

\* A scheduled text is in the queue or in one request, and once; whoever waits,
\* waits for one of those: however batches are made, fail and come back, and
\* prefetches are promoted.
THEOREM RequestsAreAccounted == TranslationSpec => []RequestsAccounted
<1>1. TranslationInv => RequestsAccounted
  <2>. SUFFICES ASSUME TranslationInv PROVE RequestsAccounted
    OBVIOUS
  <2>1. Cardinality(TextsOf(queue)) = Len(queue)
    BY EachTextOnce DEF TranslationInv
  <2>2. prefetched \cup waiters \cup drawn \subseteq scheduled
    BY DEF TranslationInv, TextsInv
  <2>. QED BY <2>1, <2>2 DEF TranslationInv, RequestsInv, TextsInv, RequestsAccounted
<1>. QED BY <1>1, TranslationInductive, PTL

\* The service does what TextTranslations allows: a text is asked for once, and
\* when it arrives, the generation changes if and only if somebody has drawn the
\* text as it was.
THEOREM TextsImplement == TranslationSpec => Promise!Spec
<1>1. TranslationInit => Promise!Init
  BY TranslationStarts
<1>2. TranslationInv /\ [TranslationNext]_translationVars => [Promise!Next]_(Promise!vars)
  <2>. SUFFICES ASSUME TranslationInv, [TranslationNext]_translationVars
                PROVE  [Promise!Next]_(Promise!vars)
    OBVIOUS
  <2>1. Promise!Next \/ Seen' = Seen
    BY TranslationStep DEF Kept
  <2>. QED BY <2>1 DEF Promise!vars, Seen, Status
<1>. QED BY <1>1, <1>2, TranslationInductive, PTL DEF TranslationSpec, Promise!Spec
-----------------------------------------------------------------------------
(***************************************************************************)
(* The state of a suite.                                                   *)
(***************************************************************************)
\* A request for a connection is of a suite that has it, and requests have
\* numbers of their own, all of them given out.
Sound(st) ==
  /\ \A r \in st.requests : r.target \in Connections => r.target \in st.connections
  /\ \A r \in st.requests : r.id < st.next
  /\ \A r, q \in st.requests : r.id = q.id => r = q

\* What the alarms that are due make of a state.
Grown(a, b) ==
  /\ b \in States /\ Sound(b)
  /\ b.connections = a.connections /\ a.next <= b.next /\ a.requests \subseteq b.requests
  /\ \A r \in b.requests \ a.requests : a.next <= r.id /\ (now < MaxTime => ~Over(r))
  /\ \A m \in Midlets : b.alarms[m] = a.alarms[m] \/ Asked(b, m)

LEMMA AfterInTime ==
  ASSUME now \in Times, NEW d \in Nat
  PROVE  After(now, d) \in Times /\ now <= After(now, d)
         /\ (d # 0 /\ now < MaxTime => now < After(now, d))
BY NumbersAssumption DEF After, Times

LEMMA RequestAdded ==
  ASSUME now \in Times, NEW a \in States, Sound(a), CanQueue(a),
         NEW x \in Connections \cup Midlets, x \in Connections => x \in a.connections
  PROVE  Grown(a, Queued(a, x)) /\ Asked(Queued(a, x), x)
         /\ Queued(a, x).alarms = a.alarms
<1>1. PICK r : r = Request(a.next, x)
  OBVIOUS
<1>2. PICK b : b = Queued(a, x)
  OBVIOUS
<1>3. a.next \in 1..MaxId /\ MaxId \in Nat /\ MaxAttempts \in Nat \ {0} /\ Lifetime \in Nat \ {0}
      /\ MaxTime \in Nat
  BY NumbersAssumption DEF CanQueue, States
<1>4. r \in Requests /\ r.id = a.next /\ r.target = x /\ r.attempts = 0
      /\ r.expires = After(now, Lifetime)
  BY <1>1, <1>3, AfterInTime DEF Request, Requests, Times
<1>5. /\ b \in States /\ b.connections = a.connections /\ b.alarms = a.alarms
      /\ b.requests = a.requests \cup {r} /\ b.next = a.next + 1
  <2>1. b = [connections |-> a.connections, alarms |-> a.alarms,
             requests |-> a.requests \cup {r}, next |-> a.next + 1]
    BY <1>1, <1>2 DEF Queued, States
  <2>2. a.requests \cup {r} \subseteq Requests /\ a.next + 1 \in 1..(MaxId + 1)
    BY <1>3, <1>4 DEF States
  <2>3. a.connections \subseteq Connections /\ a.alarms \in [Midlets -> Times]
    BY DEF States
  <2>. QED BY <2>1, <2>2, <2>3 DEF States
<1>6. Sound(b)
  <2>1. \A q \in a.requests : q.id \in Nat /\ q.id < a.next
    BY DEF Sound, States, Requests
  <2>2. \A q \in b.requests : q.id < b.next
    BY <1>3, <1>4, <1>5, <2>1
  <2>3. \A q, p \in b.requests : q.id = p.id => q = p
    BY <1>3, <1>4, <1>5, <2>1 DEF Sound
  <2>4. \A q \in b.requests : q.target \in Connections => q.target \in b.connections
    BY <1>4, <1>5 DEF Sound
  <2>. QED BY <2>2, <2>3, <2>4 DEF Sound
<1>7. now < MaxTime => ~Over(r)
  <2>1. now < MaxTime => now < r.expires
    BY <1>3, <1>4, AfterInTime
  <2>. QED BY <1>3, <1>4, <2>1, AfterInTime DEF Over, Times
<1>8. Asked(b, x)
  BY <1>4, <1>5 DEF Asked
<1>9. Grown(a, b)
  BY <1>3, <1>4, <1>5, <1>6, <1>7 DEF Grown
<1>. QED BY <1>2, <1>5, <1>8, <1>9

LEMMA GrowsOn ==
  ASSUME NEW a \in States, NEW b, NEW c, Grown(a, b), Grown(b, c)
  PROVE  Grown(a, c)
<1>1. a.next \in Nat /\ b.next \in Nat /\ c.next \in Nat
  BY NumbersAssumption DEF Grown, States
<1>2. a.next <= c.next /\ a.requests \subseteq c.requests
  BY <1>1 DEF Grown
<1>3. \A r \in c.requests : r.id \in Nat
  BY DEF Grown, States, Requests
<1>4. ASSUME NEW r \in c.requests \ a.requests PROVE a.next <= r.id /\ (now < MaxTime => ~Over(r))
  <2>1. CASE r \in b.requests
    BY <1>4, <2>1 DEF Grown
  <2>2. CASE r \notin b.requests
    <3>1. b.next <= r.id /\ (now < MaxTime => ~Over(r)) /\ a.next <= b.next
      BY <1>4, <2>2 DEF Grown
    <3>. QED BY <1>1, <1>3, <3>1
  <2>. QED BY <2>1, <2>2
<1>5. ASSUME NEW m \in Midlets PROVE c.alarms[m] = a.alarms[m] \/ Asked(c, m)
  <2>1. Asked(b, m) => Asked(c, m)
    BY DEF Asked, Grown
  <2>. QED BY <2>1 DEF Grown
<1>. QED BY <1>2, <1>4, <1>5 DEF Grown

LEMMA AlarmGrows ==
  ASSUME now \in Times, NEW a \in States, Sound(a), NEW m \in Midlets
  PROVE  Grown(a, AlarmQueued(a, m))
<1>0. a.next \in Nat /\ MaxTime \in Nat
  BY NumbersAssumption DEF States
<1>1. ASSUME NEW b, Grown(a, b), b.alarms = a.alarms, Asked(b, m)
      PROVE  Grown(a, [b EXCEPT !.alarms[m] = 0])
  <2>1. PICK c : c = [b EXCEPT !.alarms[m] = 0]
    OBVIOUS
  <2>2. b \in States
    BY <1>1 DEF Grown
  <2>3. /\ c.connections = b.connections /\ c.requests = b.requests /\ c.next = b.next
        /\ c.alarms = [b.alarms EXCEPT ![m] = 0] /\ c \in States
    BY <1>0, <2>1, <2>2 DEF States, Times
  <2>4. Sound(c)
    BY <1>1, <2>3 DEF Grown, Sound
  <2>5. \A k \in Midlets : c.alarms[k] = a.alarms[k] \/ Asked(c, k)
    <3>. TAKE k \in Midlets
    <3>1. CASE k = m
      BY <1>1, <2>3, <3>1 DEF Asked
    <3>2. CASE k # m
      <4>1. b.alarms \in [Midlets -> Times]
        BY <2>2 DEF States
      <4>. QED BY <1>1, <2>3, <3>2, <4>1
    <3>. QED BY <3>1, <3>2
  <2>6. Grown(a, c)
    BY <1>1, <2>3, <2>4, <2>5 DEF Grown
  <2>. QED BY <2>1, <2>6
<1>2. Grown(a, a)
  BY <1>0 DEF Grown
<1>3. CASE Asked(a, m)
  BY <1>1, <1>2, <1>3 DEF AlarmQueued
<1>4. CASE ~Asked(a, m) /\ CanQueue(a)
  <2>1. m \notin Connections
    BY NamesAssumption
  <2>2. Grown(a, Queued(a, m)) /\ Asked(Queued(a, m), m) /\ Queued(a, m).alarms = a.alarms
    BY <1>4, <2>1, RequestAdded
  <2>. QED BY <1>1, <1>4, <2>2 DEF AlarmQueued
<1>5. CASE ~Asked(a, m) /\ ~CanQueue(a)
  BY <1>2, <1>5 DEF AlarmQueued
<1>. QED BY <1>3, <1>4, <1>5

-----------------------------------------------------------------------------
(***************************************************************************)
(* The alarms that are due, one after the other.                           *)
(***************************************************************************)
OneOf(M) == CHOOSE m \in M : TRUE
AlarmAfter(st, f, M) ==
  IF M = {} THEN st ELSE AlarmQueued(f[M \ {OneOf(M)}], OneOf(M))

LEMMA FewerMidlets ==
  ASSUME NEW M \in SUBSET Midlets
  PROVE  /\ IsFiniteSet(M) /\ Cardinality(M) \in Nat
         /\ M = {} \/ (OneOf(M) \in M /\ M \ {OneOf(M)} \in SUBSET Midlets
                       /\ Cardinality(M \ {OneOf(M)}) = Cardinality(M) - 1)
<1>1. IsFiniteSet(M)
  BY FS_Subset, NamesAssumption
<1>2. M # {} => OneOf(M) \in M
  BY DEF OneOf
<1>. QED BY <1>1, <1>2, FS_CardinalityType, FS_RemoveElement

\* The function that AlarmsQueued is defined with exists.
LEMMA AlarmsInTurn ==
  ASSUME NEW st
  PROVE  \E f : /\ \A M \in SUBSET Midlets : f[M] = AlarmAfter(st, f, M)
                /\ AlarmsQueued(st) = f[Due(st)]
<1>. DEFINE Upto(h, n) == \A M \in SUBSET Midlets : Cardinality(M) <= n => h[M] = AlarmAfter(st, h, M)
            Bad == {n \in Nat : ~\E h : Upto(h, n)}
<1>1. Bad = {}
  <2>. SUFFICES ASSUME Bad # {} PROVE FALSE
    OBVIOUS
  <2>1. PICK n \in Bad : \A k \in Bad : n <= k
    BY LeastOf
  <2>2. n \in Nat /\ ~\E h : Upto(h, n)
    BY <2>1
  <2>3. CASE n = 0
    <3>. DEFINE h == [M \in SUBSET Midlets |-> st]
    <3>1. ASSUME NEW M \in SUBSET Midlets, Cardinality(M) <= n PROVE h[M] = AlarmAfter(st, h, M)
      <4>1. IsFiniteSet(M) /\ Cardinality(M) \in Nat
        BY FewerMidlets
      <4>2. Cardinality(M) = 0
        BY <2>3, <3>1, <4>1
      <4>3. M = {}
        BY <4>1, <4>2, FS_EmptySet
      <4>. QED BY <4>3 DEF AlarmAfter
    <3>. QED BY <2>2, <3>1
  <2>4. CASE n # 0
    <3>1. n - 1 \in Nat /\ n - 1 \notin Bad
      BY <2>1, <2>2, <2>4
    <3>2. PICK g : Upto(g, n - 1)
      BY <3>1
    <3>3. PICK h : h = [M \in SUBSET Midlets |->
                          IF Cardinality(M) <= n - 1 THEN g[M] ELSE AlarmAfter(st, g, M)]
      OBVIOUS
    <3>4. ASSUME NEW M \in SUBSET Midlets, Cardinality(M) <= n PROVE h[M] = AlarmAfter(st, h, M)
      <4>1. h[M] = AlarmAfter(st, g, M)
        BY <3>2, <3>3
      <4>2. CASE M = {}
        BY <4>1, <4>2 DEF AlarmAfter
      <4>3. CASE M # {}
        <5>. DEFINE L == M \ {OneOf(M)}
        <5>1. L \in SUBSET Midlets /\ Cardinality(L) = Cardinality(M) - 1 /\ Cardinality(M) \in Nat
          BY <4>3, FewerMidlets
        <5>2. Cardinality(L) <= n - 1
          BY <2>2, <3>4, <5>1
        <5>3. h[L] = g[L]
          BY <3>3, <5>1, <5>2
        <5>. QED BY <4>1, <4>3, <5>3 DEF AlarmAfter
      <4>. QED BY <4>2, <4>3
    <3>. QED BY <2>2, <3>4
  <2>. QED BY <2>3, <2>4
<1>2. PICK g : Upto(g, Cardinality(Midlets))
  BY <1>1, FewerMidlets
<1>3. PICK f : f = [M \in SUBSET Midlets |-> g[M]]
  OBVIOUS
<1>4. ASSUME NEW M \in SUBSET Midlets PROVE f[M] = AlarmAfter(st, f, M)
  <2>1. IsFiniteSet(Midlets) /\ Cardinality(M) <= Cardinality(Midlets)
    BY NamesAssumption, FS_Subset
  <2>2. f[M] = AlarmAfter(st, g, M)
    BY <1>2, <1>3, <2>1
  <2>3. M # {} => f[M \ {OneOf(M)}] = g[M \ {OneOf(M)}]
    BY <1>3
  <2>. QED BY <2>2, <2>3 DEF AlarmAfter
<1>. DEFINE Turn(a) == [M \in SUBSET Midlets |->
                           IF M = {} THEN st
                           ELSE LET m == CHOOSE m \in M : TRUE IN AlarmQueued(a[M \ {m}], m)]
            e == CHOOSE a : a = Turn(a)
<1>5. f = Turn(f)
  <2>1. f = [M \in SUBSET Midlets |-> AlarmAfter(st, f, M)]
    BY <1>3, <1>4
  <2>. QED BY <2>1 DEF AlarmAfter, OneOf
<1>6. e = Turn(e)
  BY <1>5
<1>7. \A M \in SUBSET Midlets : e[M] = AlarmAfter(st, e, M)
  <2>. HIDE DEF e
  <2>. QED BY <1>6 DEF AlarmAfter, OneOf
<1>8. AlarmsQueued(st) = e[Due(st)]
  BY DEF AlarmsQueued
<1>. QED BY <1>7, <1>8

\* Whichever alarms are due, and however many requests there is room for.
LEMMA AlarmsGrow ==
  ASSUME now \in Times, NEW st \in States, Sound(st)
  PROVE  Grown(st, AlarmsQueued(st))
<1>1. PICK f : /\ \A M \in SUBSET Midlets : f[M] = AlarmAfter(st, f, M)
               /\ AlarmsQueued(st) = f[Due(st)]
  BY AlarmsInTurn
<1>2. Grown(st, st)
  <2>1. st.next \in Nat
    BY NumbersAssumption DEF States
  <2>. QED BY <2>1 DEF Grown
<1>. DEFINE Bad == {n \in Nat : \E M \in SUBSET Midlets : Cardinality(M) = n /\ ~Grown(st, f[M])}
<1>3. Bad = {}
  <2>. SUFFICES ASSUME Bad # {} PROVE FALSE
    OBVIOUS
  <2>1. PICK n \in Bad : \A k \in Bad : n <= k
    BY LeastOf
  <2>2. PICK M \in SUBSET Midlets : Cardinality(M) = n /\ ~Grown(st, f[M])
    BY <2>1
  <2>3. f[M] = AlarmAfter(st, f, M)
    BY <1>1
  <2>4. M # {}
    BY <1>2, <2>2, <2>3 DEF AlarmAfter
  <2>5. PICK L \in SUBSET Midlets : L = M \ {OneOf(M)} /\ Cardinality(L) = n - 1
    BY <2>2, <2>4, FewerMidlets
  <2>6. n \in Nat /\ OneOf(M) \in Midlets /\ Cardinality(L) \in Nat
    BY <2>1, <2>4, FewerMidlets
  <2>7. n - 1 \notin Bad
    BY <2>1, <2>6
  <2>8. Grown(st, f[L])
    BY <2>5, <2>6, <2>7
  <2>9. Grown(f[L], AlarmQueued(f[L], OneOf(M)))
    BY <2>6, <2>8, AlarmGrows DEF Grown
  <2>10. f[M] = AlarmQueued(f[L], OneOf(M))
    BY <2>3, <2>4, <2>5 DEF AlarmAfter
  <2>11. Grown(st, f[M])
    BY <2>8, <2>9, <2>10, GrowsOn
  <2>. QED BY <2>2, <2>11
<1>4. Due(st) \in SUBSET Midlets
  BY DEF Due
<1>5. Cardinality(Due(st)) \in Nat
  BY <1>4, FewerMidlets
<1>. QED BY <1>1, <1>3, <1>4, <1>5

-----------------------------------------------------------------------------
(***************************************************************************)
(* What the other calls make of a state.                                   *)
(***************************************************************************)
\* A request of b is one of a, or one of a whose launch is over.
Kin(a, b) ==
  /\ b \in States /\ Sound(b)
  /\ b.connections = a.connections /\ b.next = a.next /\ b.alarms = a.alarms
  /\ \A r \in b.requests : r \in a.requests \/ \E q \in a.requests : LeaseOver(q) /\ r = Retried(q)

LEMMA RetriedIsRequest ==
  ASSUME now \in Times, NEW r \in Requests
  PROVE  /\ Retried(r) \in Requests
         /\ Retried(r).id = r.id /\ Retried(r).target = r.target /\ Retried(r).attempts = r.attempts
         /\ Retried(r).launching = FALSE /\ Retried(r).expires = r.expires
<1>1. After(now, RetryDelay) \in Times /\ 0 \in Times
  BY NumbersAssumption, AfterInTime DEF Times
<1>2. PICK q : q = Retried(r)
  OBVIOUS
<1>3. q = [id |-> r.id, target |-> r.target, launching |-> FALSE, attempts |-> r.attempts,
           due |-> After(now, RetryDelay), lease |-> 0, expires |-> r.expires]
  BY <1>2 DEF Retried, Requests
<1>4. /\ r.id \in 1..MaxId /\ r.target \in Connections \cup Midlets
      /\ r.attempts \in 0..MaxAttempts /\ r.expires \in Times
  BY DEF Requests
<1>5. q \in Requests
  BY <1>1, <1>3, <1>4 DEF Requests
<1>. QED BY <1>2, <1>3, <1>5

\* Launches that are over are tried again; requests that are over are dropped.
LEMMA Recovers ==
  ASSUME now \in Times, NEW a \in States, Sound(a)
  PROVE  /\ Kin(a, Recovered(a))
         /\ \A r \in Recovered(a).requests : ~Over(r)
         /\ \A r \in a.requests : ~Over(r) => \E q \in Recovered(a).requests : q.target = r.target
<1>. DEFINE New(r) == IF LeaseOver(r) THEN Retried(r) ELSE r
            R == {New(r) : r \in {q \in a.requests : ~Over(q)}}
<1>1. PICK b : b = Recovered(a)
  OBVIOUS
<1>2. ASSUME NEW r \in a.requests
      PROVE  /\ New(r) \in Requests /\ New(r).id = r.id /\ New(r).target = r.target
             /\ (~Over(r) => ~Over(New(r)))
  <2>1. r \in Requests
    BY DEF States
  <2>. QED BY <2>1, RetriedIsRequest DEF Over
<1>3. b = [connections |-> a.connections, alarms |-> a.alarms, requests |-> R, next |-> a.next]
  BY <1>1 DEF Recovered, States
<1>4. R \subseteq Requests
  BY <1>2
<1>. HIDE DEF New
<1>5. b \in States
  <2>1. /\ a.connections \subseteq Connections /\ a.alarms \in [Midlets -> Times]
        /\ a.next \in 1..(MaxId + 1)
    BY DEF States
  <2>. QED BY <1>3, <1>4, <2>1 DEF States
<1>6. Sound(b)
  <2>1. ASSUME NEW q \in R
        PROVE  (q.target \in Connections => q.target \in b.connections) /\ q.id < b.next
    BY <1>2, <1>3 DEF Sound
  <2>2. ASSUME NEW q \in R, NEW p \in R, q.id = p.id PROVE q = p
    BY <1>2, <2>2 DEF Sound
  <2>. QED BY <1>3, <2>1, <2>2 DEF Sound
<1>7. \A r \in R : r \in a.requests \/ \E q \in a.requests : LeaseOver(q) /\ r = Retried(q)
  BY DEF New
<1>8. Kin(a, b)
  BY <1>3, <1>5, <1>6, <1>7 DEF Kin
<1>9. \A r \in R : ~Over(r)
  BY <1>2
<1>10. \A r \in a.requests : ~Over(r) => \E q \in R : q.target = r.target
  BY <1>2
<1>11. b.requests = R
  BY <1>3
<1>. HIDE DEF R
<1>. QED BY <1>1, <1>8, <1>9, <1>10, <1>11

-----------------------------------------------------------------------------
(***************************************************************************)
(* What the files, the call under way and the launches have to do with     *)
(* each other.                                                             *)
(***************************************************************************)
Good(st) == st \in States /\ Sound(st)

\* A call that replaces the file of the suite s is under way.
Changes(s) == op.at \in {"sync", "replace"} /\ op.suite = s

CallInv ==
  /\ op = [call |-> op.call, at |-> op.at, suite |-> op.suite,
           state |-> op.state, id |-> op.id]
  /\ op.at \in {"idle", "sync", "replace", "unlink"}
  /\ At("idle") => op = NoCall
  /\ ~At("idle") => op.suite \in Suites
  /\ Good(op.state)
  /\ At("sync") => tmp[op.suite] = Torn
  /\ At("replace") => tmp[op.suite] = op.state
  /\ At("unlink") => files[op.suite] = Absent
  /\ At("unlink") <=> op.call = "remove_suite_state"
  /\ op.call = "mark_launching" =>
       \A r \in op.state.requests : r.id = op.id => r.launching /\ r.attempts >= 1

\* Only a crash leaves a temporary file where there is no other.
DiskInv ==
  /\ DOMAIN files = Suites /\ DOMAIN tmp = Suites
  /\ \A s \in Suites : (Written(files[s]) => Good(files[s])) /\ (Written(tmp[s]) => Good(tmp[s]))
  /\ \A s \in Suites : files[s] = Absent /\ tmp[s] # Absent =>
       s \in revived \/ (~At("idle") /\ op.suite = s)

\* The connections of a suite, and those the call under way will give it.
Claimed(s) ==
  {c \in Connections : \/ Written(files[s]) /\ c \in files[s].connections
                       \/ Changes(s) /\ c \in op.state.connections}
OwnersInv ==
  \A s, t \in Suites \ revived : s # t => Claimed(s) \cap Claimed(t) = {}

\* The state st has the launch l, unless the request is gone.
Holds(st, l) ==
  /\ l.id < st.next
  /\ \A r \in st.requests : r.id = l.id => r.launching /\ r.lease = l.until
Running(l) == InLease(l) /\ <<l.suite, l.id>> \notin disturbed
LeasesInv ==
  \A l \in launchers : Running(l) =>
    /\ Written(files[l.suite]) /\ Holds(files[l.suite], l)
    /\ Changes(l.suite) =>
         Holds(op.state, l) /\ ~(op.call = "mark_launching" /\ op.id = l.id)

\* What a call leaves out of the alarms has a request.
AlarmsKept(a, b, m) ==
  now < MaxTime /\ a.alarms[m] # 0 /\ b.alarms[m] = 0 => Asked(a, m) \/ Asked(b, m)
AlarmsInv ==
  \A s \in Suites : Changes(s) /\ Written(files[s]) /\ op.call # "register_alarm" =>
    \A m \in Midlets : AlarmsKept(files[s], op.state, m)

PushInv ==
  /\ TypeOK /\ CallInv /\ DiskInv /\ OwnersInv /\ LeasesInv /\ LeaseExclusive /\ AlarmsInv

LEMMA FreshIsGood == Good(Fresh)
<1>1. 0 \in Times /\ 1 \in 1..(MaxId + 1)
  BY NumbersAssumption DEF Times
<1>2. Fresh \in States
  BY <1>1 DEF Fresh, States
<1>. QED BY <1>2 DEF Good, Sound, Fresh

LEMMA NoneIsHalfWritten == ASSUME NEW st \in States PROVE Written(st)
BY FilesAssumption DEF Written

\* What a call finds is good.
LEMMA FoundIsGood ==
  ASSUME DiskInv, NEW s \in Suites
  PROVE  /\ Written(Found(s)) => Good(Found(s))
         /\ Readable(s) => Good(State(s))
         /\ Written(files[s]) => Readable(s) /\ Found(s) = files[s] /\ State(s) = files[s]
<1>1. Written(Found(s)) => Good(Found(s))
  BY DEF DiskInv, Found
<1>2. Readable(s) => Good(State(s))
  BY <1>1, FreshIsGood DEF Readable, State, Written
<1>3. Written(files[s]) => Readable(s) /\ Found(s) = files[s] /\ State(s) = files[s]
  BY DEF Readable, State, Written, Found
<1>. QED BY <1>1, <1>2, <1>3

LEMMA FilesTyped ==
  ASSUME DiskInv
  PROVE  \A s \in Suites : IsFile(files[s]) /\ IsFile(tmp[s])
BY DEF DiskInv, IsFile, Written, Good

-----------------------------------------------------------------------------
(***************************************************************************)
(* A call that changes the state of a suite.                               *)
(***************************************************************************)
\* What the state st it writes must be for the invariant to hold.
Fits(call, s, st, id) ==
  /\ Good(st) /\ call # "remove_suite_state"
  /\ call = "mark_launching" =>
       \A r \in st.requests : r.id = id => r.launching /\ r.attempts >= 1
  /\ \A c \in st.connections :
       c \in State(s).connections
         \/ \A t \in Suites \ {s} : Written(files[t]) => c \notin files[t].connections
  /\ call # "register_alarm" => \A m \in Midlets : AlarmsKept(State(s), st, m)
\* And what it leaves of the launches.
Spares(call, s, st, id) ==
  /\ launchers' \subseteq launchers /\ revived' = revived
  /\ disturbed \subseteq disturbed' /\ disturbed' \subseteq Suites \X (1..MaxId)
  /\ \A l \in launchers' :
       l.suite = s /\ InLease(l) /\ <<l.suite, l.id>> \notin disturbed' =>
         Holds(st, l) /\ ~(call = "mark_launching" /\ id = l.id)

LEMMA UpdateKeeps ==
  ASSUME PushInv, NEW call, NEW s \in Suites, NEW st, NEW id,
         Update(call, s, st, id), Fits(call, s, st, id), Spares(call, s, st, id)
  PROVE  PushInv'
<1>1. /\ op = NoCall /\ \A t \in Suites : ~Changes(t)
      /\ op' = [call |-> call, at |-> "sync", suite |-> s, state |-> st, id |-> id]
      /\ At("idle") /\ Readable(s)
  BY DEF PushInv, CallInv, Update, Changes, At, NoCall
<1>2. /\ op'.call = call /\ op'.at = "sync" /\ op'.suite = s /\ op'.state = st /\ op'.id = id
      /\ \A t : Changes(t)' <=> t = s
  BY <1>1 DEF Changes
<1>3. /\ DOMAIN files' = Suites /\ DOMAIN tmp' = Suites
      /\ files'[s] = Found(s) /\ tmp'[s] = Torn
      /\ \A t \in Suites \ {s} : files'[t] = files[t] /\ tmp'[t] = tmp[t]
      /\ now' = now /\ faults' = faults /\ crashes' = crashes
  BY DEF PushInv, DiskInv, Update, bounds
<1>4. st \in States /\ Good(st) /\ Good(State(s))
  BY <1>1, FoundIsGood DEF Fits, Good, PushInv
<1>5. DiskInv'
  <2>1. ASSUME NEW t \in Suites
        PROVE  /\ Written(files'[t]) => Good(files'[t])
               /\ Written(tmp'[t]) => Good(tmp'[t])
    <3>1. CASE t = s
      BY <1>3, <3>1, FoundIsGood DEF PushInv, Written
    <3>2. CASE t # s
      BY <1>3, <3>2 DEF PushInv, DiskInv
    <3>. QED BY <3>1, <3>2
  <2>2. ASSUME NEW t \in Suites, files'[t] = Absent, tmp'[t] # Absent
        PROVE  t \in revived' \/ (~At("idle")' /\ op'.suite = t)
    <3>1. CASE t = s
      BY <1>2, <3>1 DEF At
    <3>2. CASE t # s
      BY <1>1, <1>3, <2>2, <3>2 DEF PushInv, DiskInv, Spares
    <3>. QED BY <3>1, <3>2
  <2>3. \A x : (Good(x) <=> Good(x)') /\ (Written(x) <=> Written(x)')
    BY DEF Good, Written
  <2>. QED BY <1>3, <2>1, <2>2 DEF DiskInv, Good, Sound, Written
<1>6. CallInv'
  BY <1>1, <1>2, <1>3, <1>4 DEF CallInv, At, Fits, Good, Sound
<1>7. TypeOK'
  <2>1. (\A t \in Suites : IsFile(files[t]) /\ IsFile(tmp[t]))'
    BY <1>5 DEF DiskInv, IsFile, Written, Good
  <2>. QED BY <1>2, <1>3, <1>4, <2>1 DEF PushInv, TypeOK, Spares
<1>8. ASSUME NEW t \in Suites, NEW u \in Suites, t \notin revived, u \notin revived, t # u
      PROVE  Claimed(t)' \cap Claimed(u)' = {}
  <2>1. ASSUME NEW v \in Suites \ {s} PROVE Claimed(v)' = Claimed(v)
    BY <1>1, <1>2, <1>3 DEF Claimed, Written
  <2>2. ASSUME s \notin revived
        PROVE  Found(s) = files[s] /\ (\A c \in State(s).connections : c \in Connections => c \in Claimed(s))
    <3>1. Found(s) = files[s]
      BY <1>1, <2>2 DEF PushInv, DiskInv, Found, At
    <3>2. CASE files[s] = Absent
      <4>1. State(s).connections = {}
        BY <3>1, <3>2 DEF State, Fresh
      <4>. QED BY <3>1, <4>1
    <3>3. CASE files[s] # Absent
      <4>1. State(s) = files[s] /\ Written(files[s])
        BY <1>1, <3>1, <3>3 DEF State, Readable, Written
      <4>. QED BY <3>1, <4>1 DEF Claimed
    <3>. QED BY <3>2, <3>3
  <2>3. ASSUME s \notin revived, NEW c \in Claimed(s)', NEW v \in Suites \ {s}, v \notin revived
        PROVE  c \notin Claimed(v)
    <3>1. Claimed(s) \cap Claimed(v) = {}
      BY <2>3 DEF PushInv, OwnersInv
    <3>2. CASE Written(files'[s]) /\ c \in files'[s].connections
      BY <1>3, <2>2, <2>3, <3>1, <3>2 DEF Claimed
    <3>3. CASE c \in st.connections
      <4>1. c \in Claimed(s) \/ (Written(files[v]) => c \notin files[v].connections)
        BY <2>2, <2>3, <3>3 DEF Fits, Claimed
      <4>. QED BY <1>1, <3>1, <4>1 DEF Claimed
    <3>. QED BY <1>2, <2>3, <3>2, <3>3 DEF Claimed, Written
  <2>4. CASE t = s
    BY <1>8, <2>1, <2>3, <2>4
  <2>5. CASE u = s
    BY <1>8, <2>1, <2>3, <2>5
  <2>6. CASE t # s /\ u # s
    BY <1>8, <2>1, <2>6 DEF PushInv, OwnersInv
  <2>. QED BY <2>4, <2>5, <2>6
<1>9. OwnersInv'
  BY <1>8 DEF OwnersInv, Spares
<1>10. LeasesInv'
  <2>. SUFFICES ASSUME NEW l \in launchers', InLease(l), <<l.suite, l.id>> \notin disturbed'
                PROVE  /\ Written(files'[l.suite]) /\ Holds(files'[l.suite], l)
                       /\ l.suite = s => Holds(st, l) /\ ~(call = "mark_launching" /\ id = l.id)
    BY <1>2, <1>3 DEF LeasesInv, Running, InLease, Written, Holds
  <2>1. l \in launchers /\ Running(l) /\ l.suite \in Suites
    BY DEF Spares, Running, PushInv, TypeOK
  <2>2. Written(files[l.suite]) /\ Holds(files[l.suite], l)
    BY <2>1 DEF PushInv, LeasesInv
  <2>3. files'[l.suite] = files[l.suite]
    BY <1>3, <2>1, <2>2, FoundIsGood DEF PushInv
  <2>. QED BY <2>2, <2>3 DEF Spares
<1>11. LeaseExclusive'
  BY <1>3 DEF PushInv, LeaseExclusive, InLease, Spares
<1>12. AlarmsInv'
  <2>. SUFFICES ASSUME Written(files'[s]), call # "register_alarm", NEW m \in Midlets
                PROVE  AlarmsKept(files'[s], st, m)
    BY <1>2, <1>3 DEF AlarmsInv, AlarmsKept, Asked, Written
  <2>1. State(s) = files'[s]
    BY <1>3 DEF State, Written
  <2>. QED BY <2>1 DEF Fits
<1>. QED BY <1>5, <1>6, <1>7, <1>9, <1>10, <1>11, <1>12 DEF PushInv

\* Of the requests of a, those that are being launched are so in b, or are gone.
Leaves(a, b) ==
  /\ a.next <= b.next
  /\ \A r \in b.requests :
       \/ r \in a.requests \/ a.next <= r.id
       \/ \E q \in a.requests : LeaseOver(q) /\ r = Retried(q)

LEMMA LaunchesHold ==
  ASSUME now \in Times, NEW a \in States, NEW b \in States, Leaves(a, b),
         NEW l, l.id \in 1..MaxId, InLease(l), Holds(a, l)
  PROVE  Holds(b, l)
<1>1. a.next \in Nat /\ b.next \in Nat /\ l.id \in Nat /\ now \in Nat
  BY NumbersAssumption DEF States, Times
<1>2. l.id < b.next
  BY <1>1 DEF Holds, Leaves
<1>3. ASSUME NEW r \in b.requests, r.id = l.id PROVE r.launching /\ r.lease = l.until
  <2>1. CASE r \in a.requests
    BY <1>3, <2>1 DEF Holds
  <2>2. CASE a.next <= r.id
    BY <1>1, <1>3, <2>2 DEF Holds
  <2>3. ASSUME NEW q \in a.requests, LeaseOver(q), r = Retried(q) PROVE FALSE
    <3>1. q \in Requests
      BY DEF States
    <3>2. q.id = l.id
      BY <1>3, <2>3, <3>1, RetriedIsRequest
    <3>3. q.lease = l.until /\ q.lease \in Nat
      BY <3>1, <3>2, NumbersAssumption DEF Holds, Requests, Times
    <3>. QED BY <1>1, <2>3, <3>3 DEF LeaseOver, InLease
  <2>. QED BY <2>1, <2>2, <2>3 DEF Leaves
<1>. QED BY <1>2, <1>3 DEF Holds

\* Where nothing is written, what runs has its request in the file.
LEMMA LaunchIsHeld ==
  ASSUME PushInv, NEW l \in launchers, Running(l)
  PROVE  /\ l.suite \in Suites /\ l.id \in 1..MaxId
         /\ Written(files[l.suite]) /\ State(l.suite) = files[l.suite]
         /\ Holds(State(l.suite), l)
<1>1. l.suite \in Suites /\ l.id \in 1..MaxId
  BY DEF PushInv, TypeOK
<1>2. Written(files[l.suite]) /\ Holds(files[l.suite], l)
  BY DEF PushInv, LeasesInv
<1>. QED BY <1>1, <1>2, FoundIsGood DEF PushInv

\* A call that neither begins nor ends a launch, nor registers a connection.
LEMMA RewriteKeeps ==
  ASSUME PushInv, NEW call, call \notin {"mark_launching", "remove_suite_state"},
         NEW s \in Suites, NEW st, NEW id, Update(call, s, st, id),
         UNCHANGED <<launchers, history>>, Good(st), Leaves(State(s), st),
         st.connections \subseteq State(s).connections,
         call # "register_alarm" => \A m \in Midlets : AlarmsKept(State(s), st, m)
  PROVE  PushInv'
<1>1. Fits(call, s, st, id)
  BY DEF Fits
<1>2. now \in Times /\ State(s) \in States /\ st \in States
  BY FoundIsGood DEF PushInv, TypeOK, Update, Good
<1>3. ASSUME NEW l \in launchers, l.suite = s, Running(l) PROVE Holds(st, l)
  BY <1>2, <1>3, LaunchIsHeld, LaunchesHold DEF Running
<1>4. disturbed \subseteq Suites \X (1..MaxId)
  BY DEF PushInv, TypeOK
<1>5. Spares(call, s, st, id)
  BY <1>3, <1>4 DEF Spares, Running, history
<1>. QED BY <1>1, <1>5, UpdateKeeps

LEMMA RegisterConnectionStep ==
  ASSUME PushInv, NEW s \in Suites, NEW c \in Connections, RegisterConnection(s, c)
  PROVE  PushInv'
<1>1. PICK a : a = State(s)
  OBVIOUS
<1>2. PICK st : st = [a EXCEPT !.connections = @ \cup {c}]
  OBVIOUS
<1>3. Update("register_connection", s, st, 0) /\ UNCHANGED <<launchers, history>>
  BY <1>1, <1>2 DEF RegisterConnection
<1>4. Good(a) /\ now \in Times /\ a.next \in Nat
  BY <1>1, <1>3, FoundIsGood, NumbersAssumption DEF Update, PushInv, TypeOK, Good, States
<1>5. /\ st.connections = a.connections \cup {c} /\ st.alarms = a.alarms
      /\ st.requests = a.requests /\ st.next = a.next /\ st \in States
  BY <1>2, <1>4 DEF Good, States
<1>6. Good(st) /\ Leaves(a, st) /\ \A m \in Midlets : AlarmsKept(a, st, m)
  BY <1>4, <1>5 DEF Good, Sound, Leaves, AlarmsKept
<1>7. ASSUME NEW t \in Suites \ {s}, Written(files[t]) PROVE c \notin files[t].connections
  BY <1>7 DEF RegisterConnection, Scanned, StateIn, Written
<1>8. Fits("register_connection", s, st, 0)
  BY <1>1, <1>5, <1>6, <1>7 DEF Fits
<1>9. ASSUME NEW l \in launchers, l.suite = s, Running(l) PROVE Holds(st, l)
  BY <1>1, <1>4, <1>5, <1>6, <1>9, LaunchIsHeld, LaunchesHold DEF Running, Good
<1>10. disturbed \subseteq Suites \X (1..MaxId)
  BY DEF PushInv, TypeOK
<1>11. Spares("register_connection", s, st, 0)
  BY <1>3, <1>9, <1>10 DEF Spares, Running, history
<1>. QED BY <1>3, <1>8, <1>11, UpdateKeeps

LEMMA UnregisterConnectionStep ==
  ASSUME PushInv, NEW s \in Suites, NEW c \in Connections, UnregisterConnection(s, c)
  PROVE  PushInv'
<1>1. PICK a : a = State(s)
  OBVIOUS
<1>2. PICK st : st = [a EXCEPT !.connections = @ \ {c}, !.requests = Without(@, c)]
  OBVIOUS
<1>3. Update("unregister_connection", s, st, 0) /\ UNCHANGED <<launchers, history>>
  BY <1>1, <1>2 DEF UnregisterConnection
<1>4. Good(a) /\ a.next \in Nat
  BY <1>1, <1>3, FoundIsGood, NumbersAssumption DEF Update, PushInv, Good, States
<1>5. /\ st.connections = a.connections \ {c} /\ st.alarms = a.alarms
      /\ st.requests = {r \in a.requests : r.target # c} /\ st.next = a.next /\ st \in States
  BY <1>2, <1>4 DEF Good, States, Without
<1>6. Good(st) /\ Leaves(a, st) /\ \A m \in Midlets : AlarmsKept(a, st, m)
  BY <1>4, <1>5 DEF Good, Sound, Leaves, AlarmsKept
<1>. QED BY <1>1, <1>3, <1>5, <1>6, RewriteKeeps

LEMMA RegisterAlarmStep ==
  ASSUME PushInv, NEW s \in Suites, NEW m \in Midlets, NEW t \in AlarmTimes,
         RegisterAlarm(s, m, t)
  PROVE  PushInv'
<1>1. PICK a : a = State(s)
  OBVIOUS
<1>2. PICK st : st = [a EXCEPT !.alarms[m] = t]
  OBVIOUS
<1>3. Update("register_alarm", s, st, 0) /\ UNCHANGED <<launchers, history>>
  BY <1>1, <1>2 DEF RegisterAlarm
<1>4. Good(a) /\ a.next \in Nat /\ t \in Times
  BY <1>1, <1>3, FoundIsGood, NumbersAssumption DEF Update, PushInv, Good, States, Times
<1>5. /\ st.connections = a.connections /\ st.requests = a.requests /\ st.next = a.next
      /\ st \in States
  BY <1>2, <1>4 DEF Good, States
<1>6. Good(st) /\ Leaves(a, st)
  BY <1>4, <1>5 DEF Good, Sound, Leaves
<1>. QED BY <1>1, <1>3, <1>5, <1>6, RewriteKeeps

LEMMA GrownLeaves ==
  ASSUME NEW a \in States, NEW b, Grown(a, b)
  PROVE  Leaves(a, b) /\ Good(b) /\ \A m \in Midlets : AlarmsKept(a, b, m)
BY DEF Grown, Leaves, Good, AlarmsKept

LEMMA NotifyStep ==
  ASSUME PushInv, NEW s \in Suites, NEW c \in Connections, NotifyConnectionAvailable(s, c)
  PROVE  PushInv'
<1>1. PICK a : a = State(s)
  OBVIOUS
<1>2. PICK st : st = Queued(a, c)
  OBVIOUS
<1>3. /\ Update("notify_connection_available", s, st, 0) /\ UNCHANGED <<launchers, history>>
      /\ c \in a.connections /\ CanQueue(a)
  BY <1>1, <1>2 DEF NotifyConnectionAvailable
<1>4. Good(a) /\ now \in Times
  BY <1>1, <1>3, FoundIsGood DEF Update, PushInv, TypeOK
<1>5. Grown(a, st)
  BY <1>2, <1>3, <1>4, RequestAdded DEF Good
<1>6. Leaves(a, st) /\ Good(st) /\ \A m \in Midlets : AlarmsKept(a, st, m)
  BY <1>4, <1>5, GrownLeaves DEF Good
<1>. QED BY <1>1, <1>3, <1>5, <1>6, RewriteKeeps DEF Grown

LEMMA CollectStep ==
  ASSUME PushInv, NEW s \in Suites, CollectDueAlarms(s)
  PROVE  PushInv'
<1>1. PICK a : a = State(s)
  OBVIOUS
<1>2. PICK st : st = AlarmsQueued(a)
  OBVIOUS
<1>3. Update("collect_due_alarms", s, st, 0) /\ UNCHANGED <<launchers, history>>
  BY <1>1, <1>2 DEF CollectDueAlarms
<1>4. Good(a) /\ now \in Times
  BY <1>1, <1>3, FoundIsGood DEF Update, PushInv, TypeOK
<1>5. Grown(a, st)
  BY <1>2, <1>4, AlarmsGrow DEF Good
<1>6. Leaves(a, st) /\ Good(st) /\ \A m \in Midlets : AlarmsKept(a, st, m)
  BY <1>4, <1>5, GrownLeaves DEF Good
<1>. QED BY <1>1, <1>3, <1>5, <1>6, RewriteKeeps DEF Grown

LEMMA PollStep ==
  ASSUME PushInv, NEW s \in Suites, EligibleLaunchRequests(s)
  PROVE  PushInv'
<1>1. PICK a : a = State(s)
  OBVIOUS
<1>2. PICK b : b = AlarmsQueued(a)
  OBVIOUS
<1>3. PICK st : st = Recovered(b)
  OBVIOUS
<1>4. Update("eligible_launch_requests", s, st, 0) /\ UNCHANGED <<launchers, history>>
  BY <1>1, <1>2, <1>3 DEF EligibleLaunchRequests
<1>5. Good(a) /\ now \in Times
  BY <1>1, <1>4, FoundIsGood DEF Update, PushInv, TypeOK
<1>6. Grown(a, b)
  BY <1>2, <1>5, AlarmsGrow DEF Good
<1>7. /\ Kin(b, st)
      /\ \A r \in b.requests : ~Over(r) => \E q \in st.requests : q.target = r.target
  BY <1>3, <1>5, <1>6, Recovers DEF Grown
<1>8. Leaves(a, st)
  <2>1. ASSUME NEW r \in st.requests
        PROVE  \/ r \in a.requests \/ a.next <= r.id
               \/ \E q \in a.requests : LeaseOver(q) /\ r = Retried(q)
    <3>1. CASE r \in b.requests
      BY <1>6, <3>1 DEF Grown
    <3>2. ASSUME NEW q \in b.requests, LeaseOver(q), r = Retried(q)
          PROVE  q \in a.requests \/ a.next <= r.id
      <4>1. r.id = q.id
        BY <1>5, <1>6, <3>2, RetriedIsRequest DEF Grown, States
      <4>. QED BY <1>6, <4>1 DEF Grown
    <3>. QED BY <1>7, <3>1, <3>2 DEF Kin
  <2>. QED BY <1>6, <1>7, <2>1 DEF Leaves, Grown, Kin
<1>9. ASSUME NEW m \in Midlets PROVE AlarmsKept(a, st, m)
  <2>. SUFFICES ASSUME now < MaxTime, a.alarms[m] # 0, st.alarms[m] = 0
                PROVE  Asked(a, m) \/ Asked(st, m)
    BY DEF AlarmsKept
  <2>1. PICK r \in b.requests : r.target = m
    BY <1>6, <1>7 DEF Grown, Kin, Asked
  <2>. QED BY <1>6, <1>7, <2>1 DEF Grown, Asked
<1>10. Good(st) /\ st.connections \subseteq a.connections
  BY <1>6, <1>7 DEF Grown, Kin, Good
<1>. QED BY <1>1, <1>4, <1>8, <1>9, <1>10, RewriteKeeps

\* What is recovered has its launches, its alarms and its connections.
LEMMA RecoveredLeaves ==
  ASSUME now \in Times, NEW a, Good(a), NEW b, b = Recovered(a)
  PROVE  /\ Good(b) /\ Leaves(a, b) /\ b.connections = a.connections /\ b.next = a.next
         /\ b.alarms = a.alarms /\ \A r \in b.requests : ~Over(r)
<1>1. Kin(a, b) /\ \A r \in b.requests : ~Over(r)
  BY Recovers DEF Good
<1>2. a.next \in Nat
  BY NumbersAssumption DEF Good, States
<1>. QED BY <1>1, <1>2 DEF Kin, Good, Leaves

LEMMA MarkFailsStep ==
  ASSUME PushInv, NEW s \in Suites, NEW id \in 1..MaxId, MarkLaunchingFails(s, id)
  PROVE  PushInv'
<1>1. PICK a : a = State(s)
  OBVIOUS
<1>2. PICK st : st = Recovered(a)
  OBVIOUS
<1>3. Update("recover", s, st, 0) /\ UNCHANGED <<launchers, history>>
  BY <1>1, <1>2 DEF MarkLaunchingFails
<1>4. Good(a) /\ now \in Times
  BY <1>1, <1>3, FoundIsGood DEF Update, PushInv, TypeOK
<1>5. Good(st) /\ Leaves(a, st) /\ st.connections = a.connections /\ st.alarms = a.alarms
  BY <1>2, <1>4, RecoveredLeaves
<1>6. \A m \in Midlets : AlarmsKept(a, st, m)
  BY <1>5 DEF AlarmsKept
<1>. QED BY <1>1, <1>3, <1>5, <1>6, RewriteKeeps

\* Another launch of the request would be within its lease: then it is marked.
LEMMA MarkStep ==
  ASSUME PushInv, NEW s \in Suites, NEW id \in 1..MaxId, MarkLaunching(s, id)
  PROVE  PushInv'
<1>1. PICK a : a = State(s)
  OBVIOUS
<1>2. PICK b : b = Recovered(a)
  OBVIOUS
<1>3. PICK r \in b.requests :
        /\ r.id = id /\ Eligible(r)
        /\ Update("mark_launching", s,
             [b EXCEPT !.requests = (@ \ {r}) \cup
                {[r EXCEPT !.launching = TRUE, !.attempts = @ + 1,
                           !.lease = After(now, Lease)]}], id)
  BY <1>1, <1>2 DEF MarkLaunching
<1>4. PICK q : q = [r EXCEPT !.launching = TRUE, !.attempts = @ + 1, !.lease = After(now, Lease)]
  OBVIOUS
<1>5. PICK st : st = [b EXCEPT !.requests = (@ \ {r}) \cup {q}]
  OBVIOUS
<1>6. Update("mark_launching", s, st, id) /\ UNCHANGED <<launchers, history>>
  BY <1>3, <1>4, <1>5 DEF MarkLaunching
<1>7. Good(a) /\ now \in Times
  BY <1>1, <1>6, FoundIsGood DEF Update, PushInv, TypeOK
<1>8. /\ Good(b) /\ Leaves(a, b) /\ b.connections = a.connections /\ b.next = a.next
      /\ b.alarms = a.alarms /\ ~Over(r)
  BY <1>2, <1>3, <1>7, RecoveredLeaves
<1>9. r \in Requests /\ After(now, Lease) \in Times /\ MaxAttempts \in Nat
  BY <1>3, <1>7, <1>8, AfterInTime, NumbersAssumption DEF Good, States
<1>10. /\ q = [id |-> r.id, target |-> r.target, launching |-> TRUE, attempts |-> r.attempts + 1,
               due |-> r.due, lease |-> After(now, Lease), expires |-> r.expires]
       /\ r.attempts \in 0..MaxAttempts /\ r.attempts < MaxAttempts
  <2>1. r.attempts \in 0..MaxAttempts
    BY <1>9 DEF Requests
  <2>2. r.attempts < MaxAttempts
    BY <1>8, <1>9, <2>1 DEF Over
  <2>3. q = [id |-> r.id, target |-> r.target, launching |-> TRUE, attempts |-> r.attempts + 1,
             due |-> r.due, lease |-> After(now, Lease), expires |-> r.expires]
    BY <1>4, <1>9 DEF Requests
  <2>. QED BY <2>1, <2>2, <2>3
<1>11. q \in Requests /\ q.id = id /\ q.target = r.target /\ q.launching /\ q.attempts >= 1
  BY <1>3, <1>9, <1>10 DEF Requests
<1>12. /\ st.connections = b.connections /\ st.alarms = b.alarms /\ st.next = b.next
       /\ st.requests = (b.requests \ {r}) \cup {q} /\ st \in States
  BY <1>5, <1>8, <1>11 DEF Good, States
<1>13. Good(st)
  BY <1>3, <1>8, <1>11, <1>12 DEF Good, Sound
<1>14. \A p \in st.requests : p.id = id => p = q
  BY <1>3, <1>8, <1>12 DEF Good, Sound
<1>15. \A m \in Midlets : AlarmsKept(a, st, m)
  BY <1>8, <1>12 DEF AlarmsKept
<1>16. Fits("mark_launching", s, st, id)
  BY <1>1, <1>8, <1>11, <1>12, <1>13, <1>14, <1>15 DEF Fits
<1>17. ASSUME NEW l \in launchers, l.suite = s, Running(l)
       PROVE  Holds(st, l) /\ l.id # id
  <2>1. Holds(b, l)
    BY <1>1, <1>7, <1>8, <1>17, LaunchIsHeld, LaunchesHold DEF Running, Good
  <2>2. l.id # id
    BY <1>3, <2>1 DEF Holds, Eligible
  <2>. QED BY <1>11, <1>12, <2>1, <2>2 DEF Holds
<1>18. disturbed \subseteq Suites \X (1..MaxId)
  BY DEF PushInv, TypeOK
<1>19. Spares("mark_launching", s, st, id)
  BY <1>6, <1>17, <1>18 DEF Spares, Running, history
<1>. QED BY <1>6, <1>16, <1>19, UpdateKeeps

\* The launch that fails has the only lease, or it is on record.
LEMMA FailStep ==
  ASSUME PushInv, NEW l \in launchers, FailLaunchRequest(l)
  PROVE  PushInv'
<1>. DEFINE s == l.suite
<1>1. s \in Suites /\ l.id \in 1..MaxId
  BY DEF PushInv, TypeOK
<1>2. PICK a : a = State(s)
  OBVIOUS
<1>3. PICK r \in a.requests :
        /\ r.id = l.id
        /\ Update("fail_launch_request", s,
             [a EXCEPT !.requests = (@ \ {r}) \cup (IF Over(r) THEN {} ELSE {Retried(r)})], 0)
  BY <1>2 DEF FailLaunchRequest
<1>4. PICK st : st = [a EXCEPT !.requests = (@ \ {r}) \cup (IF Over(r) THEN {} ELSE {Retried(r)})]
  OBVIOUS
<1>5. /\ Update("fail_launch_request", s, st, 0) /\ launchers' = launchers \ {l}
      /\ disturbed' = IF InLease(l) THEN disturbed ELSE disturbed \cup {<<s, l.id>>}
      /\ revived' = revived
  BY <1>3, <1>4 DEF FailLaunchRequest
<1>6. Good(a) /\ now \in Times
  BY <1>1, <1>2, <1>5, FoundIsGood DEF Update, PushInv, TypeOK
<1>7. /\ r \in Requests /\ Retried(r) \in Requests
      /\ Retried(r).id = l.id /\ Retried(r).target = r.target
  BY <1>3, <1>6, RetriedIsRequest DEF Good, States
<1>8. PICK rest : rest = (a.requests \ {r}) \cup (IF Over(r) THEN {} ELSE {Retried(r)})
  OBVIOUS
<1>9. /\ st.connections = a.connections /\ st.alarms = a.alarms /\ st.next = a.next
      /\ st.requests = rest
  BY <1>4, <1>6, <1>8 DEF Good, States
<1>10. /\ rest \subseteq Requests /\ \A q \in rest : q \in a.requests \ {r} \/ q = Retried(r)
       /\ \A q \in rest : q.id # l.id => q \in a.requests
  BY <1>6, <1>7, <1>8 DEF Good, States
<1>11. st = [connections |-> a.connections, alarms |-> a.alarms, requests |-> rest, next |-> a.next]
  BY <1>4, <1>6, <1>8 DEF Good, States
<1>12. st \in States
  BY <1>6, <1>10, <1>11 DEF Good, States
<1>13. Sound(st)
  <2>1. ASSUME NEW q \in rest
        PROVE  (q.target \in Connections => q.target \in a.connections) /\ q.id < a.next
    BY <1>3, <1>6, <1>7, <1>10 DEF Good, Sound
  <2>2. ASSUME NEW p \in rest, NEW q \in rest, p.id = q.id PROVE p = q
    BY <1>3, <1>6, <1>7, <1>10, <2>2 DEF Good, Sound
  <2>. QED BY <1>9, <2>1, <2>2 DEF Sound
<1>14. \A m \in Midlets : AlarmsKept(a, st, m)
  BY <1>9 DEF AlarmsKept
<1>15. Fits("fail_launch_request", s, st, 0)
  BY <1>2, <1>9, <1>12, <1>13, <1>14 DEF Fits, Good
<1>16. ASSUME NEW k \in launchers, k # l, k.suite = s, InLease(k), <<k.suite, k.id>> \notin disturbed'
       PROVE  Holds(st, k)
  <2>1. Running(k)
    BY <1>5, <1>16 DEF Running
  <2>2. k.id # l.id
    <3>1. CASE InLease(l)
      BY <1>16, <2>1, <3>1 DEF PushInv, LeaseExclusive, Running
    <3>2. CASE ~InLease(l)
      BY <1>5, <1>16, <3>2
    <3>. QED BY <3>1, <3>2
  <2>3. Holds(a, k)
    BY <1>2, <1>16, <2>1, LaunchIsHeld
  <2>. QED BY <1>9, <1>10, <2>2, <2>3 DEF Holds
<1>17. disturbed \subseteq disturbed' /\ disturbed' \subseteq Suites \X (1..MaxId)
  BY <1>1, <1>5 DEF PushInv, TypeOK
<1>18. Spares("fail_launch_request", s, st, 0)
  BY <1>5, <1>16, <1>17 DEF Spares
<1>. QED BY <1>1, <1>5, <1>15, <1>18, UpdateKeeps

LEMMA AcknowledgeStep ==
  ASSUME PushInv, NEW s \in Suites, NEW id \in 1..MaxId, AcknowledgeLaunchRequest(s, id)
  PROVE  PushInv'
<1>1. PICK a : a = State(s)
  OBVIOUS
<1>2. PICK st : st = [a EXCEPT !.requests = {r \in @ : r.id # id}]
  OBVIOUS
<1>3. /\ Update("acknowledge_launch_request", s, st, 0)
      /\ launchers' \subseteq launchers /\ UNCHANGED history
  BY <1>1, <1>2 DEF AcknowledgeLaunchRequest
<1>4. Good(a) /\ now \in Times /\ a.next \in Nat
  BY <1>1, <1>3, FoundIsGood, NumbersAssumption DEF Update, PushInv, TypeOK, Good, States
<1>5. /\ st.connections = a.connections /\ st.alarms = a.alarms /\ st.next = a.next
      /\ st.requests = {r \in a.requests : r.id # id} /\ st \in States
  BY <1>2, <1>4 DEF Good, States
<1>6. Good(st) /\ Leaves(a, st) /\ \A m \in Midlets : AlarmsKept(a, st, m)
  BY <1>4, <1>5 DEF Good, Sound, Leaves, AlarmsKept
<1>7. Fits("acknowledge_launch_request", s, st, 0)
  BY <1>1, <1>5, <1>6 DEF Fits
<1>8. ASSUME NEW l \in launchers, l.suite = s, Running(l) PROVE Holds(st, l)
  BY <1>1, <1>4, <1>5, <1>6, <1>8, LaunchIsHeld, LaunchesHold DEF Running, Good
<1>9. disturbed \subseteq Suites \X (1..MaxId)
  BY DEF PushInv, TypeOK
<1>10. Spares("acknowledge_launch_request", s, st, 0)
  BY <1>3, <1>8, <1>9 DEF Spares, Running, history
<1>. QED BY <1>3, <1>7, <1>10, UpdateKeeps

-----------------------------------------------------------------------------
(***************************************************************************)
(* The other steps.                                                        *)
(***************************************************************************)
\* Nothing is being written, and what runs keeps its file.
LEMMA QuietKeeps ==
  ASSUME PushInv, op' = NoCall, TypeOK', DiskInv',
         launchers' \subseteq launchers, disturbed \subseteq disturbed',
         now' \in Times, now <= now',
         \A s \in Suites \ revived' : s \in revived => files'[s] = Absent,
         \A s \in Suites \ revived' : files'[s] = files[s] \/ files'[s] = Absent,
         \A l \in launchers' : Running(l)' => files'[l.suite] = files[l.suite]
  PROVE  PushInv'
<1>1. /\ op'.at = "idle" /\ op'.call = "none" /\ op'.state = Fresh /\ \A s : ~Changes(s)'
      /\ op' = [call |-> op'.call, at |-> op'.at, suite |-> op'.suite, state |-> op'.state,
                id |-> op'.id]
  BY DEF NoCall, Changes
<1>2. CallInv'
  BY <1>1, FreshIsGood DEF CallInv, At, Good, Sound, NoCall
<1>3. OwnersInv'
  <2>1. ASSUME NEW s \in Suites, s \notin revived' PROVE Claimed(s)' \subseteq Claimed(s)
                                                         /\ (s \in revived => Claimed(s)' = {})
    BY <1>1, <2>1 DEF Claimed, Written
  <2>. QED BY <2>1 DEF PushInv, OwnersInv
<1>4. now \in Nat /\ now' \in Nat /\ \A l \in launchers : l.until \in Nat
  BY NumbersAssumption DEF PushInv, TypeOK, Times
<1>5. \A l \in launchers' : InLease(l)' => InLease(l)
  BY <1>4 DEF InLease
<1>6. LeasesInv'
  <2>. SUFFICES ASSUME NEW l \in launchers', Running(l)'
                PROVE  Written(files'[l.suite]) /\ Holds(files'[l.suite], l)
    BY <1>1 DEF LeasesInv, Written, Holds
  <2>1. Running(l)
    BY <1>5 DEF Running
  <2>. QED BY <2>1 DEF PushInv, LeasesInv
<1>7. LeaseExclusive'
  BY <1>5 DEF PushInv, LeaseExclusive
<1>8. AlarmsInv'
  BY <1>1 DEF AlarmsInv
<1>. QED BY <1>2, <1>3, <1>6, <1>7, <1>8 DEF PushInv

\* Where no call is under way only what a crash has left is in a temporary file.
LEMMA IdleFiles ==
  ASSUME PushInv, At("idle")
  PROVE  op = NoCall /\ \A s \in Suites \ revived : Found(s) = files[s]
BY DEF PushInv, CallInv, DiskInv, Found

LEMMA ReloadedDisk ==
  ASSUME PushInv, At("idle"), NEW s \in Suites, Reloaded(s), UNCHANGED <<revived, op>>
  PROVE  /\ DiskInv' /\ \A t \in Suites : IsFile(files'[t]) /\ IsFile(tmp'[t])
         /\ DOMAIN files' = Suites /\ DOMAIN tmp' = Suites
         /\ \A t \in Suites \ revived : files'[t] = files[t]
         /\ \A t \in Suites : Written(files[t]) => files'[t] = files[t]
<1>1. /\ DOMAIN files' = Suites /\ DOMAIN tmp' = Suites
      /\ files'[s] = Found(s) /\ tmp'[s] = Absent
      /\ \A t \in Suites \ {s} : files'[t] = files[t] /\ tmp'[t] = tmp[t]
  BY DEF PushInv, DiskInv, Reloaded
<1>2. Written(Found(s)) => Good(Found(s))
  BY FoundIsGood DEF PushInv
<1>3. ASSUME NEW t \in Suites
      PROVE  (Written(files'[t]) => Good(files'[t])) /\ (Written(tmp'[t]) => Good(tmp'[t]))
  BY <1>1, <1>2 DEF PushInv, DiskInv, Written
<1>4. ASSUME NEW t \in Suites, files'[t] = Absent, tmp'[t] # Absent PROVE t \in revived'
  BY <1>1, <1>4 DEF PushInv, DiskInv, At
<1>5. DiskInv'
  BY <1>1, <1>3, <1>4 DEF DiskInv, Good, Sound, Written
<1>6. \A t \in Suites : IsFile(files'[t]) /\ IsFile(tmp'[t])
  BY <1>3 DEF IsFile, Written, Good
<1>. QED BY <1>1, <1>5, <1>6, FoundIsGood, IdleFiles DEF PushInv

LEMMA ReadStep ==
  ASSUME PushInv, NEW s \in Suites, Read(s)
  PROVE  PushInv'
<1>1. /\ DiskInv' /\ \A t \in Suites : IsFile(files'[t]) /\ IsFile(tmp'[t])
      /\ DOMAIN files' = Suites /\ DOMAIN tmp' = Suites
      /\ \A t \in Suites \ revived : files'[t] = files[t]
      /\ \A t \in Suites : Written(files[t]) => files'[t] = files[t]
  BY ReloadedDisk DEF Read, history
<1>2. op' = NoCall /\ UNCHANGED <<op, now, launchers, revived, disturbed, faults, crashes>>
  BY IdleFiles DEF Read, history, bounds
<1>3. TypeOK'
  BY <1>1, <1>2 DEF PushInv, TypeOK
<1>4. now \in Times /\ now <= now
  BY NumbersAssumption DEF PushInv, TypeOK, Times
<1>5. ASSUME NEW l \in launchers, Running(l)' PROVE files'[l.suite] = files[l.suite]
  <2>1. Running(l)
    BY <1>2, <1>5 DEF Running, InLease
  <2>. QED BY <1>1, <2>1, LaunchIsHeld
<1>. QED BY <1>1, <1>2, <1>3, <1>4, <1>5, QuietKeeps

LEMMA VainStep ==
  ASSUME PushInv, NEW k \in launchers, CompleteInVain(k)
  PROVE  PushInv'
<1>0. k.suite \in Suites
  BY DEF PushInv, TypeOK
<1>1. /\ DiskInv' /\ \A t \in Suites : IsFile(files'[t]) /\ IsFile(tmp'[t])
      /\ DOMAIN files' = Suites /\ DOMAIN tmp' = Suites
      /\ \A t \in Suites \ revived : files'[t] = files[t]
      /\ \A t \in Suites : Written(files[t]) => files'[t] = files[t]
  BY <1>0, ReloadedDisk DEF CompleteInVain, history
<1>2. /\ op' = NoCall /\ UNCHANGED <<op, now, revived, disturbed, faults, crashes>>
      /\ launchers' = launchers \ {k}
  BY IdleFiles DEF CompleteInVain, history, bounds
<1>3. TypeOK'
  BY <1>1, <1>2 DEF PushInv, TypeOK
<1>4. now \in Times /\ now <= now
  BY NumbersAssumption DEF PushInv, TypeOK, Times
<1>5. ASSUME NEW l \in launchers', Running(l)' PROVE files'[l.suite] = files[l.suite]
  <2>1. l \in launchers /\ Running(l)
    BY <1>2, <1>5 DEF Running, InLease
  <2>. QED BY <1>1, <2>1, LaunchIsHeld
<1>. QED BY <1>1, <1>2, <1>3, <1>4, <1>5, QuietKeeps

LEMMA TickStep ==
  ASSUME PushInv, Tick
  PROVE  PushInv'
<1>1. /\ op' = NoCall /\ now' = now + 1 /\ now < MaxTime
      /\ UNCHANGED <<files, tmp, op, launchers, revived, disturbed, faults, crashes>>
  BY IdleFiles DEF Tick, history, bounds, disk
<1>2. now' \in Times /\ now <= now'
  BY <1>1, NumbersAssumption DEF PushInv, TypeOK, Times
<1>3. TypeOK'
  BY <1>1, <1>2 DEF PushInv, TypeOK
<1>4. DiskInv'
  BY <1>1 DEF PushInv, DiskInv, Good, Sound, Written, At
<1>. QED BY <1>1, <1>2, <1>3, <1>4, QuietKeeps

LEMMA CrashStep ==
  ASSUME PushInv, Crash
  PROVE  PushInv'
<1>1. /\ op' = NoCall /\ launchers' = {} /\ crashes < MaxCrashes /\ crashes' = crashes + 1
      /\ revived' = revived \cup {s \in Suites : files[s] = Absent /\ tmp[s] # Absent}
      /\ UNCHANGED <<files, tmp, now, disturbed, faults>>
  BY DEF Crash, disk
<1>2. now \in Times /\ now <= now
  BY NumbersAssumption DEF PushInv, TypeOK, Times
<1>3. TypeOK'
  <2>1. NoCall.suite = NoSuite /\ NoCall.state \in States
    BY FreshIsGood DEF NoCall, Good
  <2>2. crashes' \in 0..MaxCrashes
    BY <1>1, NumbersAssumption DEF PushInv, TypeOK
  <2>. QED BY <1>1, <2>1, <2>2 DEF PushInv, TypeOK
<1>4. DiskInv'
  BY <1>1 DEF PushInv, DiskInv, Good, Sound, Written, At
<1>. QED BY <1>1, <1>2, <1>3, <1>4, QuietKeeps

\* The call under way, and what it may have set aside.
LEMMA CallFacts ==
  ASSUME PushInv, ~At("idle")
  PROVE  /\ op.suite \in Suites /\ Good(op.state)
         /\ DOMAIN files = Suites /\ DOMAIN tmp = Suites /\ op.suite # NoSuite
BY NamesAssumption DEF PushInv, CallInv, DiskInv

LEMMA TemporaryDropped ==
  ASSUME PushInv, ~At("idle"), op' = NoCall, files' = files,
         tmp' = [tmp EXCEPT ![op.suite] = Absent],
         \A s \in revived \ revived' : s = op.suite
  PROVE  DiskInv' /\ \A t \in Suites : IsFile(tmp'[t])
<1>1. /\ op.suite \in Suites /\ DOMAIN tmp' = Suites /\ tmp'[op.suite] = Absent
      /\ \A t \in Suites \ {op.suite} : tmp'[t] = tmp[t]
  BY CallFacts
<1>2. ASSUME NEW t \in Suites PROVE Written(tmp'[t]) => Good(tmp'[t])
  BY <1>1 DEF PushInv, DiskInv, Written
<1>3. ASSUME NEW t \in Suites, files'[t] = Absent, tmp'[t] # Absent PROVE t \in revived'
  BY <1>1, <1>3 DEF PushInv, DiskInv
<1>4. DiskInv'
  BY <1>1, <1>2, <1>3 DEF PushInv, DiskInv, Good, Sound, Written
<1>. QED BY <1>2, <1>4 DEF IsFile, Written, Good

LEMMA WriteFailsStep ==
  ASSUME PushInv, WriteFails
  PROVE  PushInv'
<1>1. /\ op' = NoCall /\ files' = files /\ tmp' = [tmp EXCEPT ![op.suite] = Absent]
      /\ faults < MaxFaults /\ faults' = faults + 1 /\ ~At("idle")
      /\ UNCHANGED <<now, launchers, revived, disturbed, crashes>>
  BY DEF WriteFails, history, At
<1>2. DiskInv' /\ \A t \in Suites : IsFile(tmp'[t])
  BY <1>1, TemporaryDropped
<1>3. now \in Times /\ now <= now /\ DOMAIN tmp' = Suites
  BY <1>1, CallFacts, NumbersAssumption DEF PushInv, TypeOK, Times
<1>4. TypeOK'
  <2>1. NoCall.suite = NoSuite /\ NoCall.state \in States
    BY FreshIsGood DEF NoCall, Good
  <2>2. faults' \in 0..MaxFaults
    BY <1>1, NumbersAssumption DEF PushInv, TypeOK
  <2>. QED BY <1>1, <1>2, <1>3, <2>1, <2>2 DEF PushInv, TypeOK
<1>. QED BY <1>1, <1>2, <1>3, <1>4, QuietKeeps

LEMMA RemoveTemporaryStep ==
  ASSUME PushInv, RemoveTemporary
  PROVE  PushInv'
<1>1. /\ op' = NoCall /\ files' = files /\ tmp' = [tmp EXCEPT ![op.suite] = Absent]
      /\ revived' = revived \ {op.suite} /\ ~At("idle") /\ files[op.suite] = Absent
      /\ UNCHANGED <<now, launchers, disturbed, faults, crashes>>
  BY DEF RemoveTemporary, bounds, At, PushInv, CallInv
<1>2. DiskInv' /\ \A t \in Suites : IsFile(tmp'[t])
  BY <1>1, TemporaryDropped
<1>3. now \in Times /\ now <= now /\ DOMAIN tmp' = Suites
  BY <1>1, CallFacts, NumbersAssumption DEF PushInv, TypeOK, Times
<1>4. TypeOK'
  <2>1. NoCall.suite = NoSuite /\ NoCall.state \in States
    BY FreshIsGood DEF NoCall, Good
  <2>. QED BY <1>1, <1>2, <1>3, <2>1 DEF PushInv, TypeOK
<1>. QED BY <1>1, <1>2, <1>3, <1>4, QuietKeeps

LEMMA RemoveStep ==
  ASSUME PushInv, NEW s \in Suites, RemoveSuiteState(s)
  PROVE  PushInv'
<1>1. /\ op' = [call |-> "remove_suite_state", at |-> "unlink", suite |-> s,
                state |-> Fresh, id |-> 0]
      /\ \A t : ~Changes(t)' /\ ~Changes(t)
      /\ op'.suite = s /\ op'.state = Fresh /\ op'.at = "unlink" /\ op'.call = "remove_suite_state"
  BY DEF RemoveSuiteState, NoCall, Changes, At
<1>2. /\ DOMAIN files' = Suites /\ files'[s] = Absent /\ tmp' = tmp
      /\ \A t \in Suites \ {s} : files'[t] = files[t]
      /\ disturbed' = disturbed \cup {<<s, l.id>> : l \in {k \in launchers : k.suite = s}}
      /\ UNCHANGED <<now, launchers, revived, faults, crashes>> /\ At("idle")
  BY DEF RemoveSuiteState, PushInv, DiskInv, bounds
<1>3. CallInv'
  BY <1>1, <1>2, FreshIsGood DEF CallInv, At, Good, Sound
<1>4. DiskInv'
  <2>1. ASSUME NEW t \in Suites
        PROVE  Written(files'[t]) => Good(files'[t])
    BY <1>2 DEF PushInv, DiskInv, Written
  <2>2. ASSUME NEW t \in Suites, files'[t] = Absent, tmp'[t] # Absent
        PROVE  t \in revived \/ t = s
    BY <1>2, <2>2 DEF PushInv, DiskInv
  <2>. QED BY <1>1, <1>2, <2>1, <2>2 DEF PushInv, DiskInv, Good, Sound, Written, At
<1>5. TypeOK'
  <2>1. \A t \in Suites : IsFile(files'[t])
    BY <1>4 DEF DiskInv, IsFile, Written, Good
  <2>2. Fresh \in States
    BY FreshIsGood DEF Good
  <2>3. disturbed' \subseteq Suites \X (1..MaxId)
    BY <1>2 DEF PushInv, TypeOK
  <2>. QED BY <1>1, <1>2, <2>1, <2>2, <2>3 DEF PushInv, TypeOK
<1>6. OwnersInv'
  <2>1. \A t \in Suites : Claimed(t)' \subseteq Claimed(t)
    BY <1>1, <1>2 DEF Claimed, Written
  <2>. QED BY <1>2, <2>1 DEF PushInv, OwnersInv
<1>7. LeasesInv'
  <2>. SUFFICES ASSUME NEW l \in launchers, Running(l)'
                PROVE  Written(files'[l.suite]) /\ Holds(files'[l.suite], l)
    BY <1>1, <1>2 DEF LeasesInv, Written, Holds
  <2>1. Running(l) /\ l.suite # s /\ l.suite \in Suites
    BY <1>2 DEF Running, InLease, PushInv, TypeOK
  <2>. QED BY <1>2, <2>1 DEF PushInv, LeasesInv
<1>8. LeaseExclusive'
  BY <1>2 DEF PushInv, LeaseExclusive, InLease
<1>9. AlarmsInv'
  BY <1>1 DEF AlarmsInv
<1>. QED BY <1>3, <1>4, <1>5, <1>6, <1>7, <1>8, <1>9 DEF PushInv

LEMMA SyncStep ==
  ASSUME PushInv, Sync
  PROVE  PushInv'
<1>1. /\ op' = [call |-> op.call, at |-> "replace", suite |-> op.suite,
                state |-> op.state, id |-> op.id]
      /\ \A t : Changes(t)' <=> Changes(t)
      /\ op'.suite = op.suite /\ op'.state = op.state /\ op'.at = "replace"
      /\ op'.call = op.call /\ op'.id = op.id /\ op.at = "sync"
  BY DEF Sync, Goto, At, Changes, PushInv, CallInv
<1>2. op.suite \in Suites /\ Good(op.state) /\ DOMAIN files = Suites /\ DOMAIN tmp = Suites
  BY <1>1, CallFacts DEF At
<1>3. /\ DOMAIN tmp' = Suites /\ tmp'[op.suite] = op.state
      /\ \A t \in Suites \ {op.suite} : tmp'[t] = tmp[t]
      /\ UNCHANGED <<files, now, launchers, revived, disturbed, faults, crashes>>
  BY <1>2 DEF Sync, history, bounds
<1>4. CallInv'
  BY <1>1, <1>2, <1>3 DEF PushInv, CallInv, At, Good, Sound
<1>5. DiskInv'
  <2>1. ASSUME NEW t \in Suites PROVE Written(tmp'[t]) => Good(tmp'[t])
    BY <1>2, <1>3 DEF PushInv, DiskInv, Written
  <2>2. ASSUME NEW t \in Suites, files'[t] = Absent, tmp'[t] # Absent
        PROVE  t \in revived \/ t = op.suite
    BY <1>3, <2>2 DEF PushInv, DiskInv
  <2>. QED BY <1>1, <1>3, <2>1, <2>2 DEF PushInv, DiskInv, Good, Sound, Written, At
<1>6. TypeOK'
  <2>1. \A t \in Suites : IsFile(tmp'[t])
    BY <1>5 DEF DiskInv, IsFile, Written, Good
  <2>. QED BY <1>1, <1>3, <2>1 DEF PushInv, TypeOK
<1>7. OwnersInv'
  <2>1. \A t \in Suites : Claimed(t)' = Claimed(t)
    BY <1>1, <1>3 DEF Claimed, Written
  <2>. QED BY <1>3, <2>1 DEF PushInv, OwnersInv
<1>8. LeasesInv' /\ LeaseExclusive'
  BY <1>1, <1>3 DEF PushInv, LeasesInv, LeaseExclusive, Running, InLease, Holds, Written
<1>9. AlarmsInv'
  BY <1>1, <1>3 DEF PushInv, AlarmsInv, AlarmsKept, Asked, Written
<1>. QED BY <1>4, <1>5, <1>6, <1>7, <1>8, <1>9 DEF PushInv

\* The file has what the call made of it; a host may have a launch, and then it
\* is the only one of its request within its lease.
LEMMA ReplaceStep ==
  ASSUME PushInv, Replace
  PROVE  PushInv'
<1>1. op.at = "replace" /\ Changes(op.suite) /\ \A t : Changes(t) => t = op.suite
  BY DEF Replace, At, Changes
<1>2. /\ op.suite \in Suites /\ Good(op.state) /\ Written(op.state)
      /\ DOMAIN files = Suites /\ DOMAIN tmp = Suites
  BY <1>1, CallFacts, NoneIsHalfWritten DEF At, Good
<1>3. /\ DOMAIN files' = Suites /\ files'[op.suite] = op.state
      /\ \A t \in Suites \ {op.suite} : files'[t] = files[t]
      /\ DOMAIN tmp' = Suites /\ tmp'[op.suite] = Absent
      /\ \A t \in Suites \ {op.suite} : tmp'[t] = tmp[t]
      /\ launchers' = launchers \cup Begun /\ op' = NoCall
      /\ UNCHANGED <<now, revived, disturbed, faults, crashes>>
  BY <1>2 DEF Replace, history, bounds
<1>4. /\ op'.at = "idle" /\ op'.call = "none" /\ op'.state = Fresh /\ \A s : ~Changes(s)'
      /\ op' = [call |-> op'.call, at |-> op'.at, suite |-> op'.suite, state |-> op'.state,
                id |-> op'.id]
  BY <1>3 DEF NoCall, Changes
<1>5. CallInv'
  BY <1>3, <1>4, FreshIsGood DEF CallInv, At, Good, Sound, NoCall
<1>6. DiskInv'
  <2>1. ASSUME NEW t \in Suites
        PROVE  (Written(files'[t]) => Good(files'[t])) /\ (Written(tmp'[t]) => Good(tmp'[t]))
    BY <1>2, <1>3 DEF PushInv, DiskInv, Written
  <2>2. ASSUME NEW t \in Suites, files'[t] = Absent, tmp'[t] # Absent
        PROVE  t \in revived
    BY <1>2, <1>3, <2>2 DEF PushInv, DiskInv, Written
  <2>. QED BY <1>3, <2>1, <2>2 DEF DiskInv, Good, Sound, Written
<1>7. ASSUME NEW l \in Begun
      PROVE  /\ op.call = "mark_launching" /\ l.suite = op.suite /\ l.id = op.id
             /\ l \in [suite : Suites, id : 1..MaxId, attempt : 1..MaxAttempts, until : Times]
             /\ Holds(op.state, l)
  <2>1. op.call = "mark_launching"
    BY DEF Begun
  <2>2. PICK r \in op.state.requests :
          r.id = op.id /\ l = [suite |-> op.suite, id |-> r.id, attempt |-> r.attempts, until |-> r.lease]
    BY <2>1 DEF Begun
  <2>3. r \in Requests /\ r.attempts >= 1
    BY <1>2, <2>1, <2>2 DEF PushInv, CallInv, Good, States
  <2>4. r.id \in 1..MaxId /\ r.lease \in Times /\ r.attempts \in 1..MaxAttempts
    BY <2>3, NumbersAssumption DEF Requests
  <2>5. \A q \in op.state.requests : q.id = l.id => q.launching /\ q.lease = l.until
    BY <1>2, <2>1, <2>2 DEF PushInv, CallInv, Good, Sound
  <2>6. l.id < op.state.next
    BY <1>2, <2>2 DEF Good, Sound
  <2>. QED BY <1>2, <2>1, <2>2, <2>4, <2>5, <2>6 DEF Holds
<1>8. TypeOK'
  <2>1. \A t \in Suites : IsFile(files'[t]) /\ IsFile(tmp'[t])
    BY <1>6 DEF DiskInv, IsFile, Written, Good
  <2>2. NoCall.suite = NoSuite /\ Fresh \in States
    BY FreshIsGood DEF NoCall, Good
  <2>3. launchers' \subseteq
          [suite : Suites, id : 1..MaxId, attempt : 1..MaxAttempts, until : Times]
    BY <1>3, <1>7 DEF PushInv, TypeOK
  <2>. QED BY <1>3, <1>4, <2>1, <2>2, <2>3 DEF PushInv, TypeOK
<1>9. OwnersInv'
  <2>1. \A t \in Suites : Claimed(t)' \subseteq Claimed(t)
    BY <1>1, <1>3, <1>4 DEF Claimed, Written
  <2>. QED BY <1>3, <2>1 DEF PushInv, OwnersInv
<1>10. ASSUME NEW l \in launchers', Running(l)'
       PROVE  /\ Written(files'[l.suite]) /\ Holds(files'[l.suite], l)
              /\ l \in launchers => Running(l)
                   /\ ~(l.suite = op.suite /\ op.call = "mark_launching" /\ op.id = l.id)
  <2>1. Running(l)
    BY <1>3, <1>10 DEF Running, InLease
  <2>2. CASE l \in Begun
    <3>1. Written(files'[l.suite]) /\ Holds(files'[l.suite], l)
      BY <1>2, <1>3, <1>7, <2>2
    <3>2. l \in launchers => ~(l.suite = op.suite /\ op.call = "mark_launching" /\ op.id = l.id)
      BY <1>1, <2>1 DEF PushInv, LeasesInv
    <3>. QED BY <2>1, <3>1, <3>2
  <2>3. CASE l \in launchers
    <3>1. l.suite \in Suites
      BY <2>3 DEF PushInv, TypeOK
    <3>2. Written(files[l.suite]) /\ Holds(files[l.suite], l)
      BY <2>1, <2>3 DEF PushInv, LeasesInv
    <3>3. Changes(l.suite) =>
            Holds(op.state, l) /\ ~(op.call = "mark_launching" /\ op.id = l.id)
      BY <2>1, <2>3 DEF PushInv, LeasesInv
    <3>4. CASE l.suite = op.suite
      BY <1>1, <1>2, <1>3, <2>1, <3>3, <3>4
    <3>5. CASE l.suite # op.suite
      BY <1>3, <2>1, <3>1, <3>2, <3>5
    <3>. QED BY <3>4, <3>5
  <2>. QED BY <1>3, <1>10, <2>2, <2>3
<1>11. LeasesInv'
  BY <1>4, <1>10 DEF LeasesInv, Written, Holds
<1>12. LeaseExclusive'
  <2>. SUFFICES ASSUME NEW l \in launchers', NEW k \in launchers', l # k, l.suite = k.suite,
                       l.id = k.id, InLease(l)', InLease(k)', <<l.suite, l.id>> \notin disturbed'
                PROVE  FALSE
    BY DEF LeaseExclusive, InLease
  <2>1. Running(l)' /\ Running(k)'
    BY DEF Running
  <2>2. CASE l \in launchers /\ k \in launchers
    BY <1>3, <2>2 DEF PushInv, LeaseExclusive, InLease
  <2>3. CASE l \in Begun /\ k \in Begun
    <3>1. l = k
      BY <1>2, <2>3 DEF Begun, Good, Sound
    <3>. QED BY <3>1
  <2>4. CASE l \in Begun /\ k \in launchers
    BY <1>7, <1>10, <2>1, <2>4
  <2>5. CASE k \in Begun /\ l \in launchers
    BY <1>7, <1>10, <2>1, <2>5
  <2>. QED BY <1>3, <2>2, <2>3, <2>4, <2>5
<1>13. AlarmsInv'
  BY <1>4 DEF AlarmsInv
<1>. QED BY <1>5, <1>6, <1>8, <1>9, <1>11, <1>12, <1>13 DEF PushInv

LEMMA PushUnchanged ==
  ASSUME PushInv, UNCHANGED vars
  PROVE  PushInv'
<1>1. UNCHANGED <<files, tmp, op, now, launchers, revived, disturbed, faults, crashes>>
  BY DEF vars, disk, history, bounds
<1>2. CallInv' /\ DiskInv'
  BY <1>1 DEF PushInv, CallInv, DiskInv, Good, Sound, Written, At
<1>3. TypeOK' /\ OwnersInv'
  BY <1>1 DEF PushInv, TypeOK, OwnersInv, Claimed, Changes, Written
<1>4. LeasesInv' /\ LeaseExclusive'
  BY <1>1 DEF PushInv, LeasesInv, LeaseExclusive, Running, InLease, Holds, Changes, Written
<1>5. AlarmsInv'
  BY <1>1 DEF PushInv, AlarmsInv, AlarmsKept, Asked, Changes, Written
<1>. QED BY <1>2, <1>3, <1>4, <1>5 DEF PushInv

LEMMA PushStep ==
  ASSUME PushInv, [Next]_vars
  PROVE  PushInv'
<1>1. ASSUME NEW s \in Suites, Registration(s) PROVE PushInv'
  BY <1>1, ReadStep, RegisterConnectionStep DEF Registration
<1>2. ASSUME NEW s \in Served, Service(s) PROVE PushInv'
  <2>1. s \in Suites
    BY NamesAssumption
  <2>2. ASSUME NEW c \in Connections,
               UnregisterConnection(s, c) \/ NotifyConnectionAvailable(s, c)
        PROVE  PushInv'
    BY <2>1, <2>2, UnregisterConnectionStep, NotifyStep
  <2>3. ASSUME NEW id \in 1..MaxId,
               MarkLaunching(s, id) \/ MarkLaunchingFails(s, id) \/ AcknowledgeLaunchRequest(s, id)
        PROVE  PushInv'
    BY <2>1, <2>3, MarkStep, MarkFailsStep, AcknowledgeStep
  <2>. QED BY <1>2, <2>1, <2>2, <2>3, RemoveStep, RegisterAlarmStep, CollectStep, PollStep
           DEF Service
<1>3. CASE Completion
  BY <1>3, FailStep, VainStep DEF Completion
<1>4. CASE Return
  BY <1>4, SyncStep, ReplaceStep, WriteFailsStep, RemoveTemporaryStep DEF Return
<1>. QED BY <1>1, <1>2, <1>3, <1>4, TickStep, CrashStep, PushUnchanged DEF Next

LEMMA PushStarts ==
  ASSUME Init
  PROVE  PushInv
<1>1. /\ op.call = "none" /\ op.at = "idle" /\ op.suite = NoSuite /\ op.state = Fresh
      /\ op = [call |-> op.call, at |-> op.at, suite |-> op.suite, state |-> op.state, id |-> op.id]
      /\ \A s : ~Changes(s)
  BY DEF Init, NoCall, Changes
<1>2. /\ DOMAIN files = Suites /\ DOMAIN tmp = Suites /\ launchers = {} /\ revived = {}
      /\ \A s \in Suites : files[s] = Absent /\ tmp[s] = Absent /\ ~Written(files[s])
                           /\ ~Written(tmp[s])
  BY DEF Init, Written
<1>3. CallInv
  BY <1>1, FreshIsGood DEF Init, CallInv, At
<1>4. TypeOK
  <2>1. Fresh \in States /\ 0 \in Times /\ 0 \in 0..MaxFaults /\ 0 \in 0..MaxCrashes
    BY FreshIsGood, NumbersAssumption DEF Good, Times
  <2>. QED BY <1>1, <1>2, <2>1 DEF Init, TypeOK, IsFile
<1>5. OwnersInv /\ AlarmsInv
  BY <1>1, <1>2 DEF OwnersInv, Claimed, AlarmsInv
<1>. QED BY <1>2, <1>3, <1>4, <1>5 DEF PushInv, DiskInv, LeasesInv, LeaseExclusive

\* What the files of the registry, the call under way and the launches have to
\* do with each other: TypeOK is part of it.  For any suites, sizes of a queue,
\* clocks, and numbers of failing writes and crashes.
THEOREM PushInductive == Spec => []PushInv
<1>1. Init => PushInv
  BY PushStarts
<1>2. PushInv /\ [Next]_vars => PushInv'
  BY PushStep
<1>. QED BY <1>1, <1>2, PTL DEF Spec

\* What a suite that no crash has revived has, it has claimed.
LEMMA OwnedIsClaimed ==
  ASSUME PushInv, NEW s \in Suites \ revived, Readable(s), ~At("unlink"),
         NEW c \in State(s).connections
  PROVE  c \in Claimed(s)
<1>1. c \in Connections
  BY FoundIsGood DEF PushInv, Good, States
<1>2. CASE files[s] # Absent
  <2>1. State(s) = files[s] /\ Written(files[s])
    BY <1>2 DEF State, Readable, Found, Written
  <2>. QED BY <1>1, <2>1 DEF Claimed
<1>3. CASE files[s] = Absent
  <2>1. tmp[s] # Absent
    BY <1>3 DEF State, Found, Fresh
  <2>2. tmp[s] # Torn /\ State(s) = tmp[s]
    BY <1>3, <2>1 DEF Readable, State, Found
  <2>3. ~At("idle") /\ op.suite = s
    BY <1>3, <2>1 DEF PushInv, DiskInv
  <2>4. op.at = "replace" /\ tmp[s] = op.state
    BY <2>2, <2>3 DEF PushInv, CallInv, At
  <2>. QED BY <1>1, <2>2, <2>3, <2>4 DEF Claimed, Changes
<1>. QED BY <1>2, <1>3

\* A connection has one owner, and requests for it are the owner's, across calls,
\* failing writes and the death of the process.
THEOREM OwnershipHolds == Spec => []ConnectionsOwned
<1>1. PushInv => ConnectionsOwned
  <2>. SUFFICES ASSUME PushInv, NEW s \in Suites, Readable(s)
                PROVE  /\ \A r \in State(s).requests :
                            r.target \in Connections => r.target \in State(s).connections
                       /\ \A t \in Suites \ {s} :
                            Readable(t) /\ ~At("unlink")
                              /\ State(s).connections \cap State(t).connections # {}
                            => {s, t} \cap revived # {}
    BY DEF ConnectionsOwned
  <2>1. Good(State(s))
    BY FoundIsGood DEF PushInv
  <2>2. ASSUME NEW t \in Suites \ {s}, Readable(t), ~At("unlink"),
               NEW c \in State(s).connections \cap State(t).connections,
               s \notin revived, t \notin revived
        PROVE  FALSE
    <3>1. c \in Claimed(s) \cap Claimed(t)
      BY <2>2, OwnedIsClaimed
    <3>. QED BY <2>2, <3>1 DEF PushInv, OwnersInv
  <2>. QED BY <2>1, <2>2 DEF Good, Sound
<1>. QED BY <1>1, PushInductive, PTL

\* Two hosts that launch one request at once, both in time, means that one of
\* them has reported a failure too late, or that the suite was removed.
THEOREM LeasesExclude == Spec => []LeaseExclusive
<1>1. PushInv => LeaseExclusive
  BY DEF PushInv
<1>. QED BY <1>1, PushInductive, PTL

\* A file is only replaced by the call that has prepared another.
LEMMA FilesStay ==
  ASSUME PushInv, [Next]_vars, NEW s \in Suites, Written(files[s]),
         op'.call # "remove_suite_state"
  PROVE  \/ files'[s] = files[s]
         \/ op.at = "replace" /\ op.suite = s /\ files'[s] = op.state /\ now' = now
<1>1. s \in DOMAIN files /\ Found(s) = files[s]
  BY FoundIsGood DEF PushInv, DiskInv
<1>2. ASSUME NEW call, NEW t \in Suites, NEW st, NEW id, Update(call, t, st, id)
      PROVE  files'[s] = files[s]
  BY <1>1, <1>2 DEF Update
<1>3. ASSUME NEW t \in Suites, Reloaded(t) PROVE files'[s] = files[s]
  BY <1>1, <1>3 DEF Reloaded
<1>4. ASSUME NEW t \in Suites, Registration(t) PROVE files'[s] = files[s]
  BY <1>2, <1>3, <1>4 DEF Registration, Read, RegisterConnection
<1>5. ASSUME NEW t \in Suites, RemoveSuiteState(t) PROVE FALSE
  BY <1>5 DEF RemoveSuiteState, NoCall
<1>6. ASSUME NEW t \in Served, Service(t) PROVE files'[s] = files[s]
  <2>1. t \in Suites
    BY NamesAssumption
  <2>2. ASSUME NEW c \in Connections,
               UnregisterConnection(t, c) \/ NotifyConnectionAvailable(t, c)
        PROVE  files'[s] = files[s]
    BY <1>2, <2>1, <2>2 DEF UnregisterConnection, NotifyConnectionAvailable
  <2>3. ASSUME NEW id \in 1..MaxId,
               MarkLaunching(t, id) \/ MarkLaunchingFails(t, id) \/ AcknowledgeLaunchRequest(t, id)
        PROVE  files'[s] = files[s]
    BY <1>2, <2>1, <2>3 DEF MarkLaunching, MarkLaunchingFails, AcknowledgeLaunchRequest
  <2>4. ASSUME NEW m \in Midlets, NEW w \in AlarmTimes, RegisterAlarm(t, m, w)
        PROVE  files'[s] = files[s]
    BY <1>2, <2>1, <2>4 DEF RegisterAlarm
  <2>5. CASE CollectDueAlarms(t)
    BY <1>2, <2>1, <2>5 DEF CollectDueAlarms
  <2>6. CASE EligibleLaunchRequests(t)
    BY <1>2, <2>1, <2>6 DEF EligibleLaunchRequests
  <2>. QED BY <1>5, <1>6, <2>1, <2>2, <2>3, <2>4, <2>5, <2>6 DEF Service
<1>7. ASSUME NEW l \in launchers, FailLaunchRequest(l) \/ CompleteInVain(l)
      PROVE  files'[s] = files[s]
  <2>1. l.suite \in Suites
    BY DEF PushInv, TypeOK
  <2>. QED BY <1>2, <1>3, <1>7, <2>1 DEF FailLaunchRequest, CompleteInVain
<1>8. CASE Replace
  BY <1>1, <1>8 DEF Replace, At
<1>9. CASE Sync \/ WriteFails \/ RemoveTemporary \/ Tick \/ Crash \/ UNCHANGED vars
  BY <1>9 DEF Sync, WriteFails, RemoveTemporary, Tick, Crash, vars, disk
<1>. QED BY <1>4, <1>6, <1>7, <1>8, <1>9 DEF Next, Completion, Return

\* No alarm is lost, whichever call comes across it: what leaves the alarms is
\* asked for, or set anew by the MIDlet, also in the face of full queues, writes
\* that fail and crashes.
THEOREM AlarmsAreKept == Spec => AlarmsBecomeRequests
<1>1. ASSUME PushInv, [Next]_vars, NEW s \in Suites, NEW m \in Midlets
      PROVE
       /\ Readable(s) /\ files[s] # Absent /\ State(s).alarms[m] # 0
       /\ "remove_suite_state" \notin {op.call, op'.call}
       => /\ Readable(s)'
          /\ now < MaxTime /\ State(s)'.alarms[m] = 0
             => \/ op.call = "register_alarm"
                \/ Asked(State(s), m) \/ Asked(State(s), m)'
  <2>. SUFFICES ASSUME Readable(s), files[s] # Absent, State(s).alarms[m] # 0,
                       op.call # "remove_suite_state", op'.call # "remove_suite_state"
                PROVE  /\ Readable(s)'
                       /\ now < MaxTime /\ State(s)'.alarms[m] = 0
                          => \/ op.call = "register_alarm"
                             \/ Asked(State(s), m) \/ Asked(State(s), m)'
    OBVIOUS
  <2>1. Written(files[s]) /\ State(s) = files[s]
    BY DEF Readable, Found, State, Written
  <2>2. CASE files'[s] = files[s]
    <3>1. Readable(s)' /\ State(s)' = State(s)
      BY <2>1, <2>2 DEF Readable, Found, State, Written
    <3>. QED BY <3>1
  <2>3. CASE op.at = "replace" /\ op.suite = s /\ files'[s] = op.state /\ now' = now
    <3>1. Written(op.state)
      BY <1>1, NoneIsHalfWritten DEF PushInv, CallInv, Good
    <3>2. Readable(s)' /\ State(s)' = op.state
      BY <2>3, <3>1 DEF Readable, Found, State, Written
    <3>3. op.call # "register_alarm" => AlarmsKept(files[s], op.state, m)
      BY <1>1, <2>1, <2>3 DEF PushInv, AlarmsInv, Changes
    <3>. QED BY <2>1, <3>2, <3>3 DEF AlarmsKept, Asked
  <2>. QED BY <1>1, <2>1, <2>2, <2>3, FilesStay
<1>2. PushInv /\ [Next]_vars =>
        [\A s \in Suites, m \in Midlets :
       /\ Readable(s) /\ files[s] # Absent /\ State(s).alarms[m] # 0
       /\ "remove_suite_state" \notin {op.call, op'.call}
       => /\ Readable(s)'
          /\ now < MaxTime /\ State(s)'.alarms[m] = 0
             => \/ op.call = "register_alarm"
                \/ Asked(State(s), m) \/ Asked(State(s), m)']_vars
  BY <1>1
<1>. QED BY <1>2, PushInductive, PTL DEF Spec, AlarmsBecomeRequests

-----------------------------------------------------------------------------
(***************************************************************************)
(* HostServices.                                                           *)
(***************************************************************************)
HostSpec == HostInit /\ [][HostNext]_hostVars

\* A behaviour of the two together is one of each of them.
LEMMA EachIsItself == HostSpec => Spec /\ TranslationSpec
<1>1. HostInit => Init /\ TranslationInit
  BY DEF HostInit
<1>2. [HostNext]_hostVars => [Next]_vars /\ [TranslationNext]_translationVars
  BY DEF HostNext, hostVars
<1>. QED BY <1>1, <1>2, PTL DEF HostSpec, Spec, TranslationSpec

\* The two services of a process: ownership, leases and alarms of the one, the
\* requests of the other and what it promises.
THEOREM ServicesHold ==
  HostSpec => /\ [](ConnectionsOwned /\ LeaseExclusive /\ RequestsAccounted)
              /\ AlarmsBecomeRequests /\ Promise!Spec
BY EachIsItself, OwnershipHolds, LeasesExclude, RequestsAreAccounted, AlarmsAreKept,
   TextsImplement, PTL
=============================================================================
