----------------------------- MODULE ListProofs -----------------------------
(***************************************************************************)
(* Proofs about module List, for any number of entries and items.          *)
(***************************************************************************)
EXTENDS List, SequenceTheorems, FiniteSetTheorems, WellFoundedInduction, TLAPS

----------------------------------------------------------------------------
(* What a walk from a pointer comes to.                                    *)

\* A set of numbers that is not empty has a least one.
LEMMA Least ==
    ASSUME NEW S, S \subseteq Nat, S # {}
    PROVE  \E x \in S : \A y \in S : x <= y
<1>. DEFINE Less == {ss \in Nat \X Nat : ss[1] < ss[2]}
<1>1. IsWellFoundedOn(Less, Nat)
  BY NatLessThanWellFounded DEF OpToRel
<1>2. PICK x \in S : \A y \in S : ~(<<y, x>> \in Less)
  <2>. HIDE DEF Less
  <2>1. \E x \in S : \A y \in S : ~(<<y, x>> \in Less)
    BY <1>1, WFMin
  <2>2. QED
    BY <2>1
<1>3. \A y \in S : ~(y < x)
  BY <1>2
<1>4. QED
  BY <1>3

\* One round of the definition in Walked, from the rounds before.
Round(g, n, nx) ==
    [e \in Pointers |-> IF e = NULL \/ n = 0 THEN <<>> ELSE <<e>> \o g[n - 1][nx[e]]]

\* The function that Walked defines by recursion exists, up to any number.
LEMMA RoundsExist ==
    ASSUME NEW nx, NEW N \in Nat
    PROVE  \E g : g = [n \in 0..N |-> Round(g, n, nx)]
<1>. DEFINE Missing == {m \in Nat : ~\E g : g = [n \in 0..m |-> Round(g, n, nx)]}
<1>1. SUFFICES ASSUME Missing # {} PROVE FALSE
  OBVIOUS
<1>2. PICK m \in Missing : \A y \in Missing : m <= y
  BY <1>1, Least
<1>3. m # 0
  <2>. DEFINE g == [n \in 0..0 |-> [e \in Pointers |-> <<>>]]
  <2>1. \A n \in 0..0 : g[n] = Round(g, n, nx)
    BY DEF Round
  <2>2. g = [n \in 0..0 |-> Round(g, n, nx)]
    BY <2>1
  <2>3. QED
    BY <1>2, <2>2
<1>4. m - 1 \in Nat /\ m - 1 \notin Missing
  BY <1>2, <1>3
<1>5. PICK g : g = [n \in 0..(m - 1) |-> Round(g, n, nx)]
  BY <1>4
<1>. DEFINE f == [n \in 0..m |-> Round(g, n, nx)]
<1>6. \A k \in 0..(m - 1) : f[k] = g[k]
  BY <1>4, <1>5
<1>. HIDE DEF f
<1>7. ASSUME NEW n \in 0..m PROVE Round(f, n, nx) = Round(g, n, nx)
  <2>1. CASE n = 0
    BY <2>1 DEF Round
  <2>2. CASE n # 0
    <3>1. n - 1 \in 0..(m - 1)
      BY <2>2
    <3>2. f[n - 1] = g[n - 1]
      BY <1>6, <3>1
    <3>3. QED
      BY <3>2 DEF Round
  <2>3. QED
    BY <2>1, <2>2
<1>8. f = [n \in 0..m |-> Round(f, n, nx)]
  BY <1>7 DEF f
<1>9. QED
  BY <1>2, <1>8

\* Walked is what the rounds give.
LEMMA WalkedIs ==
    ASSUME NEW h, NEW nx
    PROVE  \E g : /\ Walked(h, nx) = g[Cardinality(Entries)][h]
                  /\ \A n \in 0..Cardinality(Entries) : g[n] = Round(g, n, nx)
<1>. DEFINE N == Cardinality(Entries)
            g == CHOOSE f : f = [n \in 0..N |-> Round(f, n, nx)]
<1>1. N \in Nat
  BY ListAssumption, FS_CardinalityType
<1>2. g = [n \in 0..N |-> Round(g, n, nx)]
  BY <1>1, RoundsExist
<1>3. Walked(h, nx) = g[N][h]
  BY DEF Walked, Round
<1>. HIDE DEF g, N
<1>4. \A n \in 0..N : g[n] = Round(g, n, nx)
  BY <1>2
<1>5. QED
  BY <1>3, <1>4 DEF N

----------------------------------------------------------------------------
(* Chains of entries.                                                      *)

NoDuplicate(s) == \A i, j \in DOMAIN s : s[i] = s[j] => i = j

\* The entry at place i, and none outside of s.
Nth(s, i) == IF i \in 1..Len(s) THEN s[i] ELSE NULL

\* h and the fields nx lead through the entries of r, in order, and end there.
Chain(r, h, nx) ==
    /\ r \in Seq(Entries) /\ NoDuplicate(r)
    /\ h = Nth(r, 1)
    /\ \A i \in 1..Len(r) : nx[r[i]] = Nth(r, i + 1)

\* t and the fields pv lead through the entries of r backwards.
Back(r, t, pv) ==
    /\ t = Nth(r, Len(r))
    /\ \A i \in 1..Len(r) : pv[r[i]] = Nth(r, i - 1)

\* There are no more distinct entries than there are entries.
LEMMA ShortChain ==
    ASSUME NEW r \in Seq(Entries), NoDuplicate(r)
    PROVE  Len(r) <= Cardinality(Entries)
<1>1. r \in [1..Len(r) -> Entries] /\ Len(r) \in Nat
  BY LenProperties
<1>2. r \in Injection(1..Len(r), Entries)
  <2>1. IsInjective(r)
    BY DEF NoDuplicate, IsInjective
  <2>2. QED
    BY <1>1, <2>1 DEF Injection
<1>3. Cardinality(1..Len(r)) <= Cardinality(Entries)
  BY <1>2, ListAssumption, FS_Injection
<1>4. Cardinality(1..Len(r)) = Len(r)
  <2>1. 1 \in Int /\ Len(r) \in Int
    BY <1>1
  <2>2. Cardinality(1..Len(r)) = IF 1 > Len(r) THEN 0 ELSE Len(r) - 1 + 1
    BY <2>1, FS_Interval, Zenon
  <2>3. QED
    BY <1>1, <2>2
<1>5. QED
  BY <1>3, <1>4

\* A walk from the head of a chain comes to its entries in order.
LEMMA ChainWalked ==
    ASSUME NEW r, NEW h, NEW nx, Chain(r, h, nx)
    PROVE  Walked(h, nx) = r
<1>. DEFINE N == Cardinality(Entries)
<1>1. /\ r \in Seq(Entries) /\ NoDuplicate(r) /\ Len(r) \in Nat
      /\ h = Nth(r, 1) /\ \A i \in 1..Len(r) : nx[r[i]] = Nth(r, i + 1) /\ r[i] \in Entries
  BY LenProperties, ElementOfSeq DEF Chain
<1>2. N \in Nat /\ Len(r) <= N
  BY <1>1, ListAssumption, FS_CardinalityType, ShortChain
<1>3. PICK g : /\ Walked(h, nx) = g[N][h]
               /\ \A n \in 0..N : g[n] = Round(g, n, nx)
  BY WalkedIs
<1>. HIDE DEF N
<1>4. ASSUME NEW n \in 0..N PROVE g[n][NULL] = <<>>
  BY <1>3 DEF Round, Pointers
<1>5. ASSUME NEW n \in 1..N, NEW e \in Entries PROVE g[n][e] = <<e>> \o g[n - 1][nx[e]]
  <2>1. g[n] = Round(g, n, nx) /\ ~(n = 0)
    <3>1. n \in 0..N /\ ~(n = 0)
      BY <1>2
    <3>2. QED
      BY <1>3, <3>1
  <2>2. e \in Pointers /\ e # NULL
    BY ListAssumption DEF Pointers
  <2>3. Round(g, n, nx)[e] = <<e>> \o g[n - 1][nx[e]]
    BY <2>1, <2>2, Zenon DEF Round
  <2>4. QED
    BY <2>1, <2>3, Zenon
\* from the place Len(r) - d on, in any number of rounds that is enough
<1>. DEFINE Right(d) == \A n \in 0..N :
                           n > d => g[n][r[Len(r) - d]] = SubSeq(r, Len(r) - d, Len(r))
            Wrong == {d \in Nat : d < Len(r) /\ ~Right(d)}
<1>6. Wrong = {}
  <2>. SUFFICES ASSUME Wrong # {} PROVE FALSE
    OBVIOUS
  <2>1. PICK d \in Wrong : \A y \in Wrong : d <= y
    BY Least
  <2>2. PICK n \in 0..N : n > d /\ g[n][r[Len(r) - d]] # SubSeq(r, Len(r) - d, Len(r))
    BY <2>1
  <2>0. PICK k : k = Len(r) - d
    OBVIOUS
  <2>3. d \in Nat /\ d < Len(r) /\ k \in 1..Len(r) /\ n \in 1..N /\ n - 1 \in 0..N
    BY <1>1, <1>2, <2>1, <2>2, <2>0
  <2>4. SubSeq(r, k, Len(r)) = <<r[k]>> \o SubSeq(r, k + 1, Len(r))
    <3>1. k \in 1..Len(r) /\ Len(r) \in k..Len(r)
      BY <1>1, <2>3
    <3>2. r \in Seq(Entries)
      BY <1>1
    <3>3. QED
      BY <3>1, <3>2, SubSeqRecursiveFirst, Zenon
  <2>5. g[n][r[k]] = <<r[k]>> \o g[n - 1][Nth(r, k + 1)]
    BY <1>1, <1>5, <2>3
  <2>6. g[n - 1][Nth(r, k + 1)] = SubSeq(r, k + 1, Len(r))
    <3>1. CASE d = 0
      <4>1. k + 1 \notin 1..Len(r) /\ Len(r) < k + 1 /\ k + 1 \in Int /\ Len(r) \in Int
        BY <1>1, <3>1, <2>0, <2>3
      <4>2. SubSeq(r, k + 1, Len(r)) = <<>>
        BY <4>1, SubSeqEmpty, Zenon
      <4>3. QED
        BY <1>4, <2>3, <4>1, <4>2 DEF Nth
    <3>2. CASE d # 0
      <4>1. d - 1 \in Nat /\ d - 1 < Len(r) /\ n - 1 > d - 1 /\ Len(r) - (d - 1) = k + 1
            /\ k + 1 \in 1..Len(r)
        BY <1>1, <2>2, <2>3, <3>2, <2>0
      <4>2. d - 1 \notin Wrong
        BY <2>1, <2>3, <4>1
      <4>3. Right(d - 1)
        BY <4>1, <4>2
      <4>4. g[n - 1][r[Len(r) - (d - 1)]] = SubSeq(r, Len(r) - (d - 1), Len(r))
        BY <2>3, <4>1, <4>3
      <4>5. QED
        BY <4>1, <4>4 DEF Nth
    <3>3. QED
      BY <3>1, <3>2
  <2>7. QED
    BY <2>2, <2>4, <2>5, <2>6, <2>0
<1>7. CASE Len(r) = 0
  <2>1. r = <<>> /\ h = NULL
    BY <1>1, <1>7 DEF Nth
  <2>2. QED
    BY <1>2, <1>3, <1>4, <2>1
<1>8. CASE Len(r) > 0
  <2>. DEFINE d == Len(r) - 1
  <2>1. d \in Nat /\ d < Len(r) /\ Len(r) - d = 1 /\ N \in 0..N /\ N > d
    BY <1>1, <1>2, <1>8
  <2>2. Right(d)
    BY <1>6, <2>1
  <2>3. g[N][r[1]] = SubSeq(r, 1, Len(r))
    BY <2>1, <2>2
  <2>4. h = r[1]
    BY <1>1, <1>8 DEF Nth
  <2>5. SubSeq(r, 1, Len(r)) = r
    BY <1>1, SubSeqFull
  <2>6. QED
    BY <1>3, <2>3, <2>4, <2>5
<1>9. QED
  BY <1>1, <1>7, <1>8

----------------------------------------------------------------------------
(* An entry put into a chain or cut out of it.                             *)

\* r with e behind its place k, and r without its place k.
Put(r, k, e) == [i \in 1..Len(r) + 1 |-> IF i <= k THEN r[i]
                                         ELSE IF i = k + 1 THEN e ELSE r[i - 1]]
Cut(r, k) == [i \in 1..Len(r) - 1 |-> IF i < k THEN r[i] ELSE r[i + 1]]

\* What is known of the entries of a chain without a repetition.
LEMMA Distinct ==
    ASSUME NEW r \in Seq(Entries), NoDuplicate(r)
    PROVE  /\ Len(r) \in Nat /\ DOMAIN r = 1..Len(r)
           /\ \A i \in 1..Len(r) : r[i] \in Entries /\ r[i] \in ToSet(r) /\ r[i] # NULL
           /\ \A i, j \in 1..Len(r) : r[i] = r[j] => i = j
           /\ \A x \in ToSet(r) : \E i \in 1..Len(r) : x = r[i]
<1>1. Len(r) \in Nat /\ DOMAIN r = 1..Len(r)
  BY LenProperties
<1>2. \A i \in 1..Len(r) : r[i] \in Entries
  BY ElementOfSeq
<1>3. QED
  BY <1>1, <1>2, ListAssumption DEF ToSet, NoDuplicate

\* A function on an interval from 1 is a sequence.
LEMMA IsSequence ==
    ASSUME NEW S, NEW n \in Nat, NEW f \in [1..n -> S]
    PROVE  f \in Seq(S) /\ Len(f) = n
OBVIOUS

\* An entry of its own, put behind the place k: a sequence without repetition, of
\* one more entry.
LEMMA PutSequence ==
    ASSUME NEW r \in Seq(Entries), NoDuplicate(r), NEW k \in 0..Len(r),
           NEW e \in Entries \ ToSet(r)
    PROVE  /\ Put(r, k, e) \in Seq(Entries) /\ NoDuplicate(Put(r, k, e))
           /\ Len(Put(r, k, e)) = Len(r) + 1
           /\ ToSet(Put(r, k, e)) = ToSet(r) \cup {e}
<1>. DEFINE p == Put(r, k, e)
<1>1. /\ Len(r) \in Nat
      /\ \A i \in 1..Len(r) : r[i] \in Entries /\ r[i] \in ToSet(r)
      /\ \A i, j \in 1..Len(r) : r[i] = r[j] => i = j
      /\ \A x \in ToSet(r) : \E i \in 1..Len(r) : x = r[i]
  BY Distinct
<1>2. /\ DOMAIN p = 1..Len(r) + 1
      /\ \A i \in 1..Len(r) + 1 : p[i] = IF i <= k THEN r[i]
                                         ELSE IF i = k + 1 THEN e ELSE r[i - 1]
  BY DEF Put
<1>3. p = [i \in 1..Len(r) + 1 |-> p[i]]
  BY DEF Put
<1>. HIDE DEF p
<1>4. \A i \in 1..Len(r) + 1 : p[i] \in Entries
  BY <1>1, <1>2
<1>5. p \in Seq(Entries) /\ Len(p) = Len(r) + 1
  BY <1>1, <1>3, <1>4, IsSequence
<1>6. NoDuplicate(p)
  <2>1. ASSUME NEW i \in 1..Len(r) + 1, NEW j \in 1..Len(r) + 1, p[i] = p[j]
        PROVE  i = j
    <3>1. \A n \in 1..Len(r) + 1 : /\ n > k + 1 => p[n] = r[n - 1] /\ n - 1 \in 1..Len(r)
                                   /\ n <= k => p[n] = r[n] /\ n \in 1..Len(r)
                                   /\ n = k + 1 => p[n] = e
      BY <1>1, <1>2
    <3>2. e \notin ToSet(r)
      OBVIOUS
    <3>3. CASE i <= k
      BY <1>1, <2>1, <3>1, <3>2, <3>3
    <3>4. CASE i = k + 1
      BY <1>1, <2>1, <3>1, <3>2, <3>4
    <3>5. CASE i > k + 1
      BY <1>1, <2>1, <3>1, <3>2, <3>5
    <3>6. QED
      BY <1>1, <3>3, <3>4, <3>5
  <2>2. QED
    BY <1>2, <2>1 DEF NoDuplicate
<1>7. ToSet(p) = ToSet(r) \cup {e}
  <2>1. ASSUME NEW i \in 1..Len(r) + 1 PROVE p[i] \in ToSet(r) \cup {e}
    <3>1. CASE i <= k
      BY <1>1, <1>2, <3>1
    <3>2. CASE i = k + 1
      BY <1>1, <1>2, <3>2
    <3>3. CASE i > k + 1
      <4>1. i - 1 \in 1..Len(r) /\ p[i] = r[i - 1]
        BY <1>1, <1>2, <3>3
      <4>2. QED
        BY <1>1, <4>1
    <3>4. QED
      BY <1>1, <3>1, <3>2, <3>3
  <2>2. ASSUME NEW i \in 1..Len(r) PROVE \E j \in 1..Len(r) + 1 : p[j] = r[i]
    <3>1. CASE i <= k
      BY <1>1, <1>2, <3>1
    <3>2. CASE ~(i <= k)
      <4>1. i + 1 \in 1..Len(r) + 1 /\ ~(i + 1 <= k) /\ i + 1 # k + 1 /\ (i + 1) - 1 = i
        BY <1>1, <3>2
      <4>2. p[i + 1] = r[i]
        BY <1>2, <4>1
      <4>3. QED
        BY <4>1, <4>2
    <3>3. QED
      BY <3>1, <3>2
  <2>3. k + 1 \in 1..Len(r) + 1 /\ p[k + 1] = e
    BY <1>1, <1>2
  <2>4. ToSet(p) = {p[j] : j \in 1..Len(r) + 1}
    BY <1>2 DEF ToSet
  <2>5. ASSUME NEW x \in ToSet(r) PROVE x \in ToSet(p)
    BY <1>1, <2>2, <2>4
  <2>6. QED
    BY <2>1, <2>3, <2>4, <2>5
<1>8. QED
  BY <1>5, <1>6, <1>7 DEF p

\* The links that put e behind the place k.
LEMMA PutChain ==
    ASSUME NEW r, NEW h, NEW nx, Chain(r, h, nx),
           NEW k \in 0..Len(r), NEW e \in Entries \ ToSet(r), NEW g, NEW mx,
           g = IF k = 0 THEN e ELSE h,
           mx[e] = Nth(r, k + 1),
           \A i \in 1..Len(r) : mx[r[i]] = IF i = k THEN e ELSE nx[r[i]]
    PROVE  Chain(Put(r, k, e), g, mx)
<1>. DEFINE p == Put(r, k, e)
<1>1. /\ r \in Seq(Entries) /\ NoDuplicate(r) /\ Len(r) \in Nat
      /\ h = Nth(r, 1) /\ \A i \in 1..Len(r) : nx[r[i]] = Nth(r, i + 1)
  BY LenProperties DEF Chain
<1>2. p \in Seq(Entries) /\ NoDuplicate(p) /\ Len(p) = Len(r) + 1
  BY <1>1, PutSequence
<1>3. \A i \in 1..Len(r) + 1 : p[i] = IF i <= k THEN r[i]
                                       ELSE IF i = k + 1 THEN e ELSE r[i - 1]
  BY DEF Put
<1>. HIDE DEF p
<1>4. g = Nth(p, 1)
  BY <1>1, <1>2, <1>3 DEF Nth
<1>5. ASSUME NEW i \in 1..Len(r) + 1 PROVE mx[p[i]] = Nth(p, i + 1)
  <2>1. CASE i < k
    <3>1. p[i] = r[i] /\ i \in 1..Len(r) /\ i # k /\ i + 1 \in 1..Len(r) /\ i + 1 <= k
      BY <1>1, <1>3, <2>1
    <3>2. mx[p[i]] = Nth(r, i + 1)
      BY <1>1, <3>1
    <3>3. Nth(p, i + 1) = Nth(r, i + 1)
      BY <1>1, <1>2, <1>3, <3>1 DEF Nth
    <3>4. QED
      BY <3>2, <3>3
  <2>2. CASE i = k
    BY <1>1, <1>2, <1>3, <2>2 DEF Nth
  <2>3. CASE i = k + 1
    BY <1>1, <1>2, <1>3, <2>3 DEF Nth
  <2>4. CASE i > k + 1
    <3>1. p[i] = r[i - 1] /\ i - 1 \in 1..Len(r) /\ i - 1 # k /\ (i - 1) + 1 = i
      BY <1>1, <1>3, <2>4
    <3>2. mx[p[i]] = Nth(r, i)
      BY <1>1, <3>1
    <3>3. Nth(p, i + 1) = Nth(r, i)
      BY <1>1, <1>2, <1>3, <2>4 DEF Nth
    <3>4. QED
      BY <3>2, <3>3
  <2>5. QED
    BY <1>1, <2>1, <2>2, <2>3, <2>4
<1>6. QED
  BY <1>2, <1>4, <1>5 DEF Chain, p

\* Whoever links the entry with its neighbours in prev, and tail with the last,
\* leaves a list that is told backwards too.
LEMMA PutBack ==
    ASSUME NEW r \in Seq(Entries), NoDuplicate(r), NEW t, NEW pv, Back(r, t, pv),
           NEW k \in 0..Len(r), NEW e \in Entries \ ToSet(r), NEW u, NEW qv,
           u = IF k = Len(r) THEN e ELSE t,
           qv[e] = Nth(r, k),
           \A i \in 1..Len(r) : qv[r[i]] = IF i = k + 1 THEN e ELSE pv[r[i]]
    PROVE  Back(Put(r, k, e), u, qv)
<1>. DEFINE p == Put(r, k, e)
<1>1. /\ Len(r) \in Nat
      /\ t = Nth(r, Len(r)) /\ \A i \in 1..Len(r) : pv[r[i]] = Nth(r, i - 1)
  BY LenProperties DEF Back
<1>2. Len(p) = Len(r) + 1
  BY PutSequence
<1>3. \A i \in 1..Len(r) + 1 : p[i] = IF i <= k THEN r[i]
                                       ELSE IF i = k + 1 THEN e ELSE r[i - 1]
  BY DEF Put
<1>. HIDE DEF p
<1>4. u = Nth(p, Len(p))
  BY <1>1, <1>2, <1>3 DEF Nth
<1>5. ASSUME NEW i \in 1..Len(r) + 1 PROVE qv[p[i]] = Nth(p, i - 1)
  <2>1. CASE i <= k
    BY <1>1, <1>2, <1>3, <2>1 DEF Nth
  <2>2. CASE i = k + 1
    BY <1>1, <1>2, <1>3, <2>2 DEF Nth
  <2>3. CASE i > k + 1
    <3>1. p[i] = r[i - 1] /\ i - 1 \in 1..Len(r)
      BY <1>1, <1>3, <2>3
    <3>2. CASE i - 1 = k + 1
      BY <1>1, <1>2, <1>3, <3>1, <3>2 DEF Nth
    <3>3. CASE i - 1 # k + 1
      <4>1. qv[p[i]] = Nth(r, (i - 1) - 1)
        BY <1>1, <3>1, <3>3
      <4>2. Nth(p, i - 1) = Nth(r, (i - 1) - 1)
        BY <1>1, <1>2, <1>3, <2>3, <3>3 DEF Nth
      <4>3. QED
        BY <4>1, <4>2
    <3>4. QED
      BY <3>2, <3>3
  <2>4. QED
    BY <1>1, <2>1, <2>2, <2>3
<1>6. QED
  BY <1>2, <1>4, <1>5 DEF Back, p

\* Without the entry at place k: a sequence without repetition, of one less.
LEMMA CutSequence ==
    ASSUME NEW r \in Seq(Entries), NoDuplicate(r), NEW k \in 1..Len(r)
    PROVE  /\ Cut(r, k) \in Seq(Entries) /\ NoDuplicate(Cut(r, k))
           /\ Len(Cut(r, k)) = Len(r) - 1
           /\ ToSet(Cut(r, k)) = ToSet(r) \ {r[k]}
<1>. DEFINE c == Cut(r, k)
<1>1. /\ Len(r) \in Nat /\ Len(r) - 1 \in Nat
      /\ \A i \in 1..Len(r) : r[i] \in Entries /\ r[i] \in ToSet(r)
      /\ \A i, j \in 1..Len(r) : r[i] = r[j] => i = j
      /\ \A x \in ToSet(r) : \E i \in 1..Len(r) : x = r[i]
  <2>1. /\ Len(r) \in Nat
        /\ \A i \in 1..Len(r) : r[i] \in Entries /\ r[i] \in ToSet(r)
        /\ \A i, j \in 1..Len(r) : r[i] = r[j] => i = j
        /\ \A x \in ToSet(r) : \E i \in 1..Len(r) : x = r[i]
    BY Distinct
  <2>2. QED
    BY <2>1
<1>2. /\ DOMAIN c = 1..Len(r) - 1
      /\ \A i \in 1..Len(r) - 1 : c[i] = IF i < k THEN r[i] ELSE r[i + 1]
  BY DEF Cut
<1>3. c = [i \in 1..Len(r) - 1 |-> c[i]]
  BY DEF Cut
<1>. HIDE DEF c
<1>4. \A i \in 1..Len(r) - 1 : c[i] \in Entries
  BY <1>1, <1>2
<1>5. c \in Seq(Entries) /\ Len(c) = Len(r) - 1
  BY <1>1, <1>3, <1>4, IsSequence
<1>6. NoDuplicate(c)
  <2>1. ASSUME NEW i \in 1..Len(r) - 1, NEW j \in 1..Len(r) - 1, c[i] = c[j]
        PROVE  i = j
    <3>1. \A n \in 1..Len(r) - 1 : /\ n >= k => c[n] = r[n + 1] /\ n + 1 \in 1..Len(r)
                                   /\ n < k => c[n] = r[n] /\ n \in 1..Len(r)
      BY <1>1, <1>2
    <3>2. CASE i < k
      BY <1>1, <2>1, <3>1, <3>2
    <3>3. CASE i >= k
      BY <1>1, <2>1, <3>1, <3>3
    <3>4. QED
      BY <1>1, <3>2, <3>3
  <2>2. QED
    BY <1>2, <2>1 DEF NoDuplicate
<1>7. ToSet(c) = ToSet(r) \ {r[k]}
  <2>1. ASSUME NEW i \in 1..Len(r) - 1 PROVE c[i] \in ToSet(r) \ {r[k]}
    BY <1>1, <1>2
  <2>2. ASSUME NEW i \in 1..Len(r), i # k PROVE \E j \in 1..Len(r) - 1 : c[j] = r[i]
    <3>1. CASE i < k
      BY <1>1, <1>2, <3>1
    <3>2. CASE i > k
      <4>1. i - 1 \in 1..Len(r) - 1 /\ ~(i - 1 < k) /\ (i - 1) + 1 = i
        BY <1>1, <3>2
      <4>2. c[i - 1] = r[i]
        BY <1>2, <4>1
      <4>3. QED
        BY <4>1, <4>2
    <3>3. QED
      BY <1>1, <2>2, <3>1, <3>2
  <2>3. ToSet(c) = {c[j] : j \in 1..Len(r) - 1}
    BY <1>2 DEF ToSet
  <2>4. ASSUME NEW x \in ToSet(r) \ {r[k]} PROVE x \in ToSet(c)
    BY <1>1, <2>2, <2>3
  <2>5. QED
    BY <2>1, <2>3, <2>4
<1>8. QED
  BY <1>5, <1>6, <1>7 DEF c

\* The links that leave out the place k.
LEMMA CutChain ==
    ASSUME NEW r, NEW h, NEW nx, Chain(r, h, nx), NEW k \in 1..Len(r), NEW g, NEW mx,
           g = IF k = 1 THEN nx[r[k]] ELSE h,
           \A i \in 1..Len(r) : mx[r[i]] = IF i = k - 1 THEN nx[r[k]] ELSE nx[r[i]]
    PROVE  Chain(Cut(r, k), g, mx)
<1>. DEFINE c == Cut(r, k)
<1>1. /\ r \in Seq(Entries) /\ NoDuplicate(r) /\ Len(r) \in Nat
      /\ h = Nth(r, 1) /\ \A i \in 1..Len(r) : nx[r[i]] = Nth(r, i + 1)
  BY LenProperties DEF Chain
<1>2. c \in Seq(Entries) /\ NoDuplicate(c) /\ Len(c) = Len(r) - 1
  BY <1>1, CutSequence
<1>3. \A i \in 1..Len(r) - 1 : c[i] = IF i < k THEN r[i] ELSE r[i + 1]
  BY DEF Cut
<1>. HIDE DEF c
<1>4. g = Nth(c, 1)
  BY <1>1, <1>2, <1>3 DEF Nth
<1>5. ASSUME NEW i \in 1..Len(r) - 1 PROVE mx[c[i]] = Nth(c, i + 1)
  <2>1. CASE i < k - 1
    BY <1>1, <1>2, <1>3, <2>1 DEF Nth
  <2>2. CASE i = k - 1
    BY <1>1, <1>2, <1>3, <2>2 DEF Nth
  <2>3. CASE i > k - 1
    <3>1. c[i] = r[i + 1] /\ i + 1 \in 1..Len(r) /\ i + 1 # k - 1
      BY <1>1, <1>3, <2>3
    <3>2. mx[c[i]] = Nth(r, (i + 1) + 1)
      BY <1>1, <3>1
    <3>3. Nth(c, i + 1) = Nth(r, (i + 1) + 1)
      BY <1>1, <1>2, <1>3, <2>3 DEF Nth
    <3>4. QED
      BY <3>2, <3>3
  <2>4. QED
    BY <1>1, <2>1, <2>2, <2>3
<1>6. QED
  BY <1>2, <1>4, <1>5 DEF Chain, c

\* Whoever passes prev of the entry on to the one behind it, or to tail, leaves a
\* list that is told backwards too.
LEMMA CutBack ==
    ASSUME NEW r \in Seq(Entries), NoDuplicate(r), NEW t, NEW pv, Back(r, t, pv),
           NEW k \in 1..Len(r), NEW u, NEW qv,
           u = IF k = Len(r) THEN pv[r[k]] ELSE t,
           \A i \in 1..Len(r) : qv[r[i]] = IF i = k + 1 THEN pv[r[k]] ELSE pv[r[i]]
    PROVE  Back(Cut(r, k), u, qv)
<1>. DEFINE c == Cut(r, k)
<1>1. /\ Len(r) \in Nat
      /\ t = Nth(r, Len(r)) /\ \A i \in 1..Len(r) : pv[r[i]] = Nth(r, i - 1)
  BY LenProperties DEF Back
<1>2. Len(c) = Len(r) - 1
  BY CutSequence
<1>3. \A i \in 1..Len(r) - 1 : c[i] = IF i < k THEN r[i] ELSE r[i + 1]
  BY DEF Cut
<1>. HIDE DEF c
<1>4. u = Nth(c, Len(c))
  BY <1>1, <1>2, <1>3 DEF Nth
<1>5. ASSUME NEW i \in 1..Len(r) - 1 PROVE qv[c[i]] = Nth(c, i - 1)
  <2>1. CASE i < k
    BY <1>1, <1>2, <1>3, <2>1 DEF Nth
  <2>2. CASE i = k
    <3>1. c[i] = r[i + 1] /\ i + 1 \in 1..Len(r)
      BY <1>1, <1>3, <2>2
    <3>2. qv[c[i]] = Nth(r, k - 1)
      BY <1>1, <2>2, <3>1
    <3>3. Nth(c, i - 1) = Nth(r, k - 1)
      BY <1>1, <1>2, <1>3, <2>2 DEF Nth
    <3>4. QED
      BY <3>2, <3>3
  <2>3. CASE i > k
    <3>1. c[i] = r[i + 1] /\ i + 1 \in 1..Len(r) /\ i + 1 # k + 1 /\ (i + 1) - 1 = i
      BY <1>1, <1>3, <2>3
    <3>2. qv[c[i]] = Nth(r, i)
      BY <1>1, <3>1
    <3>3. Nth(c, i - 1) = Nth(r, i)
      BY <1>1, <1>2, <1>3, <2>3 DEF Nth
    <3>4. QED
      BY <3>2, <3>3
  <2>4. QED
    BY <1>1, <2>1, <2>2, <2>3
<1>6. QED
  BY <1>2, <1>4, <1>5 DEF Back, c

----------------------------------------------------------------------------
(* The inductive invariant. A call that adds takes several steps: s is the *)
(* list that the tail, the count and the fields prev tell of, and what a   *)
(* walk comes to is s or, from the store that links the new entry on, s    *)
(* with the entry behind the place k.                                      *)

Types ==
    /\ {head, tail, at, entry, current} \subseteq Pointers
    /\ data \in [Entries -> 0..MaxItems]
    /\ next \in [Entries -> Pointers] /\ prev \in [Entries -> Pointers]
    /\ allocated \subseteq Entries
    /\ addPc \in {"idle", "link", "head", "tail"}
    /\ walkPc \in {"idle", "more", "body", "next"}
    /\ added \in 0..MaxItems

\* Whether the new entry has not been linked yet.
Unlinked(s) == addPc \in {"idle", "link"} \/ (addPc = "head" /\ s = <<>>)

Now(s, k) == IF Unlinked(s) THEN s ELSE Put(s, k, entry)

\* The entry that a call adds, and where it goes.
Pending(s, k) ==
    /\ entry \in allocated /\ entry \notin ToSet(s)
    /\ at = Nth(s, k) /\ prev[entry] = Nth(s, k) /\ next[entry] = Nth(s, k + 1)
    /\ k = 0 => s = <<>>

Shape(s, k) ==
    /\ s \in Seq(Entries) /\ NoDuplicate(s) /\ k \in 0..Len(s)
    /\ Back(s, tail, prev) /\ count = Len(s)
    /\ addPc = "idle" => entry = NULL /\ at = NULL
    /\ addPc # "idle" => Pending(s, k)
    /\ Chain(Now(s, k), head, next) /\ ToSet(Now(s, k)) \subseteq allocated
    /\ current \in ToSet(Now(s, k)) \cup {NULL}

\* The walk, and the lock of a guarded list.
Walking ==
    /\ walkPc = "idle" => current = NULL
    /\ walkPc = "body" => current # NULL
    /\ kind = "guarded" /\ walkPc # "idle" => addPc = "idle"

ShapeInv == \E s, k : Shape(s, k)

IInv == Types /\ ShapeInv /\ Walking

\* What the walk from the head comes to.
LEMMA ReachIsNow ==
    ASSUME NEW s, NEW k, Shape(s, k)
    PROVE  Reach = Now(s, k)
BY ChainWalked DEF Shape, Reach

\* The empty list satisfies the invariant.
LEMMA InitInv == Init => IInv
<1>. SUFFICES ASSUME Init PROVE IInv
  OBVIOUS
<1>1. Types
  BY ListAssumption DEF Init, Types, Pointers
<1>2. Walking
  BY DEF Init, Walking
<1>3. <<>> \in Seq(Entries) /\ Len(<<>>) = 0 /\ NoDuplicate(<<>>) /\ ToSet(<<>>) = {}
  BY EmptySeq DEF NoDuplicate, ToSet
<1>4. Chain(<<>>, head, next) /\ Back(<<>>, tail, prev)
  BY <1>3 DEF Init, Chain, Back, Nth
<1>5. Shape(<<>>, 0)
  BY <1>3, <1>4 DEF Init, Shape, Now, Unlinked
<1>6. QED
  BY <1>1, <1>2, <1>3, <1>5 DEF IInv, ShapeInv

\* A step at which the new entry joins what a walk comes to.
Joins ==
    \E j \in 0..Len(Reach) :
        /\ Reach' = Put(Reach, j, entry)
        /\ entry \in allocated \ ToSet(Reach) /\ next[entry] = Nth(Reach, j + 1)

\* Between the calls head, next, tail, prev and count all tell of s.
LEMMA Settled ==
    ASSUME NEW s, NEW k, Shape(s, k), addPc = "idle"
    PROVE  /\ Reach = s /\ s \in Seq(Entries) /\ NoDuplicate(s)
           /\ Back(s, tail, prev) /\ Chain(s, head, next)
           /\ head = Nth(s, 1) /\ tail = Nth(s, Len(s)) /\ count = Len(s)
           /\ \A i \in 1..Len(s) : next[s[i]] = Nth(s, i + 1) /\ prev[s[i]] = Nth(s, i - 1)
           /\ ToSet(s) \subseteq allocated /\ current \in ToSet(s) \cup {NULL}
           /\ entry = NULL /\ at = NULL
<1>1. Now(s, k) = s /\ Reach = s
  BY ReachIsNow DEF Now, Unlinked
<1>2. QED
  BY <1>1 DEF Shape, Chain, Back

\* ListInsertAfterCurrent up to the first link.
LEMMA InsertAfterInv ==
    ASSUME IInv, NEW c \in ToSet(Reach) \cup {tail}, InsertAfter(c)
    PROVE  IInv' /\ Reach' = Reach
<1>1. PICK s, k : Shape(s, k)
  BY DEF IInv, ShapeInv
<1>2. addPc = "idle"
  BY DEF InsertAfter, Free
<1>3. /\ Reach = s /\ s \in Seq(Entries) /\ NoDuplicate(s)
      /\ Back(s, tail, prev) /\ Chain(s, head, next) /\ tail = Nth(s, Len(s)) /\ count = Len(s)
      /\ \A i \in 1..Len(s) : next[s[i]] = Nth(s, i + 1)
      /\ ToSet(s) \subseteq allocated /\ current \in ToSet(s) \cup {NULL}
  BY <1>1, <1>2, Settled
<1>4. /\ Len(s) \in Nat
      /\ \A i \in 1..Len(s) : s[i] \in Entries /\ s[i] \in ToSet(s) /\ s[i] # NULL
      /\ \A x \in ToSet(s) : \E i \in 1..Len(s) : x = s[i]
  BY <1>3, Distinct
<1>5. PICK j \in 0..Len(s) : c = Nth(s, j) /\ (j = 0 => s = <<>>)
  <2>1. CASE c = tail
    <3>1. Len(s) \in 0..Len(s) /\ (Len(s) = 0 => s = <<>>)
      BY <1>4, EmptySeq
    <3>2. QED
      BY <1>3, <2>1, <3>1
  <2>2. CASE c \in ToSet(s)
    BY <1>4, <2>2 DEF Nth
  <2>3. QED
    BY <1>3, <2>1, <2>2
<1>6. PICK e \in Entries \ allocated :
        /\ allocated' = allocated \cup {e} /\ entry' = e
        /\ data' = [data EXCEPT ![e] = added + 1]
        /\ next' = [next EXCEPT ![e] = IF c = NULL THEN NULL ELSE next[c]]
        /\ prev' = [prev EXCEPT ![e] = IF c = NULL THEN tail ELSE c]
  BY DEF InsertAfter
<1>7. /\ at' = c /\ addPc' = "link" /\ added' = added + 1 /\ added < MaxItems
      /\ UNCHANGED <<kind, head, tail, count, walkPc, current>>
      /\ kind = "guarded" => walkPc = "idle"
  BY DEF InsertAfter, Free, walk
<1>8. Types
  BY DEF IInv
<1>9. c \in Pointers /\ (c = NULL => s = <<>> /\ tail = NULL)
  BY <1>3, <1>4, <1>5, <1>8 DEF Types, Nth, Pointers
<1>10. e \in Entries /\ e \notin ToSet(s) /\ e \in Pointers
  BY <1>3, <1>6 DEF Pointers
<1>11. next' \in [Entries -> Pointers] /\ prev' \in [Entries -> Pointers]
  <2>1. c # NULL => next[c] \in Pointers
    BY <1>8, <1>9 DEF Types, Pointers
  <2>2. NULL \in Pointers /\ tail \in Pointers
    BY <1>8 DEF Types, Pointers
  <2>3. QED
    BY <1>6, <1>8, <1>9, <2>1, <2>2 DEF Types
<1>12. Types'
  <2>1. data' \in [Entries -> 0..MaxItems] /\ added' \in 0..MaxItems
    BY <1>6, <1>7, <1>8, ListAssumption DEF Types
  <2>2. {head', tail', at', entry', current'} \subseteq Pointers
    BY <1>6, <1>7, <1>8, <1>9, <1>10 DEF Types
  <2>3. QED
    BY <1>6, <1>7, <1>8, <1>11, <2>1, <2>2 DEF Types
<1>13. Walking'
  BY <1>7 DEF IInv, Walking
<1>14. /\ next'[e] = Nth(s, j + 1) /\ prev'[e] = Nth(s, j)
       /\ \A i \in 1..Len(s) : next'[s[i]] = next[s[i]] /\ prev'[s[i]] = prev[s[i]]
  <2>1. /\ next'[e] = IF c = NULL THEN NULL ELSE next[c]
        /\ prev'[e] = IF c = NULL THEN tail ELSE c
        /\ \A i \in 1..Len(s) : next'[s[i]] = next[s[i]] /\ prev'[s[i]] = prev[s[i]]
    BY <1>4, <1>6, <1>8, <1>10 DEF Types
  <2>2. c = NULL => Nth(s, j + 1) = NULL /\ Nth(s, j) = NULL
    BY <1>4, <1>5, <1>9 DEF Nth
  <2>3. c # NULL => j \in 1..Len(s) /\ c = s[j]
    BY <1>5 DEF Nth
  <2>4. QED
    BY <1>3, <1>5, <1>9, <2>1, <2>2, <2>3
<1>15. Chain(s, head', next') /\ Back(s, tail', prev')
  BY <1>3, <1>7, <1>14 DEF Chain, Back
<1>16. Shape(s, j)'
  <2>1. Pending(s, j)'
    BY <1>5, <1>6, <1>7, <1>10, <1>14 DEF Pending
  <2>2. Now(s, j)' = s
    BY <1>7 DEF Now, Unlinked
  <2>3. ToSet(s) \subseteq allocated' /\ current' \in ToSet(s) \cup {NULL} /\ count' = Len(s)
    BY <1>3, <1>6, <1>7
  <2>4. QED
    BY <1>3, <1>7, <1>15, <2>1, <2>2, <2>3 DEF Shape
<1>17. Reach' = Reach
  BY <1>3, <1>15, ChainWalked DEF Reach
<1>18. QED
  BY <1>12, <1>13, <1>16, <1>17 DEF IInv, ShapeInv

\* The store that links the entry, unless the list is empty.
LEMMA LinkInv == IInv /\ Link => IInv' /\ (Reach' = Reach \/ Joins)
<1>. SUFFICES ASSUME IInv, Link PROVE IInv' /\ (Reach' = Reach \/ Joins)
  OBVIOUS
<1>1. PICK s, k : Shape(s, k)
  BY DEF IInv, ShapeInv
<1>2. Types
  BY DEF IInv
<1>3. /\ addPc = "link" /\ addPc' = "head"
      /\ UNCHANGED <<kind, head, tail, count, data, prev, allocated, at, entry, walkPc,
                     current, added>>
  BY DEF Link, walk
<1>4. /\ s \in Seq(Entries) /\ NoDuplicate(s) /\ k \in 0..Len(s)
      /\ Back(s, tail, prev) /\ count = Len(s) /\ Chain(s, head, next)
      /\ ToSet(s) \subseteq allocated /\ current \in ToSet(s) \cup {NULL}
      /\ Pending(s, k)
  BY <1>1, <1>3 DEF Shape, Now, Unlinked
<1>5. /\ Len(s) \in Nat
      /\ \A i \in 1..Len(s) : s[i] \in Entries /\ s[i] \in ToSet(s) /\ s[i] # NULL
      /\ \A i, j \in 1..Len(s) : s[i] = s[j] => i = j
  BY <1>4, Distinct
<1>6. /\ entry \in Entries /\ entry \notin ToSet(s) /\ entry \in allocated
      /\ at = Nth(s, k) /\ prev[entry] = Nth(s, k) /\ next[entry] = Nth(s, k + 1)
      /\ k = 0 => s = <<>>
  BY <1>2, <1>4 DEF Pending, Types
<1>7. next' = IF Nth(s, k) = NULL THEN next ELSE [next EXCEPT ![Nth(s, k)] = entry]
  BY <1>6 DEF Link
<1>8. Types' /\ Walking'
  <2>1. next' \in [Entries -> Pointers]
    BY <1>2, <1>6, <1>7 DEF Types, Pointers
  <2>2. Walking'
    BY <1>3 DEF IInv, Walking
  <2>3. QED
    BY <1>2, <1>3, <2>1, <2>2 DEF Types
<1>9. CASE k = 0
  <2>1. s = <<>> /\ next' = next
    BY <1>6, <1>7, <1>9 DEF Nth
  <2>2. Now(s, k)' = s
    BY <1>3, <2>1 DEF Now, Unlinked
  <2>3. Pending(s, k)'
    BY <1>3, <1>4, <2>1 DEF Pending
  <2>4. Shape(s, k)'
    BY <1>3, <1>4, <2>1, <2>2, <2>3 DEF Shape
  <2>5. Reach' = Reach
    BY <1>3, <2>1 DEF Reach
  <2>6. QED
    BY <1>8, <2>4, <2>5 DEF IInv, ShapeInv
<1>10. CASE k # 0
  <2>1. /\ k \in 1..Len(s) /\ Nth(s, k) = s[k] /\ s # <<>>
        /\ next' = [next EXCEPT ![s[k]] = entry]
    <3>1. k \in 1..Len(s) /\ Nth(s, k) = s[k]
      BY <1>4, <1>5, <1>10 DEF Nth
    <3>2. s # <<>>
      BY <3>1, EmptySeq
    <3>3. QED
      BY <1>5, <1>7, <3>1, <3>2
  <2>2. /\ \A i \in 1..Len(s) : next'[s[i]] = IF i = k THEN entry ELSE next[s[i]]
        /\ next'[entry] = next[entry]
    BY <1>2, <1>5, <1>6, <2>1 DEF Types
  <2>3. Chain(Put(s, k, entry), head, next')
    <3>1. head = IF k = 0 THEN entry ELSE head
      BY <1>10
    <3>2. next'[entry] = Nth(s, k + 1)
      BY <1>6, <2>2
    <3>3. Chain(s, head, next) /\ k \in 0..Len(s) /\ entry \in Entries \ ToSet(s)
      BY <1>4, <1>6
    <3>4. \A i \in 1..Len(s) : next'[s[i]] = IF i = k THEN entry ELSE next[s[i]]
      BY <2>2
    <3>5. QED
      BY <3>1, <3>2, <3>3, <3>4, PutChain, SMTT(30)
  <2>4. ToSet(Put(s, k, entry)) = ToSet(s) \cup {entry}
    BY <1>4, <1>6, PutSequence
  <2>5. Now(s, k)' = Put(s, k, entry)
    BY <1>3, <2>1 DEF Now, Unlinked
  <2>6. Pending(s, k)'
    BY <1>3, <1>6, <2>2 DEF Pending
  <2>7. Shape(s, k)'
    BY <1>3, <1>4, <1>6, <2>3, <2>4, <2>5, <2>6 DEF Shape
  <2>8. Reach = s /\ Reach' = Put(s, k, entry)
    BY <1>3, <1>4, <2>3, ChainWalked DEF Reach
  <2>9. Joins
    BY <1>4, <1>6, <2>8 DEF Joins
  <2>10. QED
    BY <1>8, <2>7, <2>9 DEF IInv, ShapeInv
<1>11. QED
  BY <1>9, <1>10

\* The first entry becomes the head.
LEMMA SetHeadInv == IInv /\ SetHead => IInv' /\ (Reach' = Reach \/ Joins)
<1>. SUFFICES ASSUME IInv, SetHead PROVE IInv' /\ (Reach' = Reach \/ Joins)
  OBVIOUS
<1>1. PICK s, k : Shape(s, k)
  BY DEF IInv, ShapeInv
<1>2. Types
  BY DEF IInv
<1>3. /\ addPc = "head" /\ addPc' = "tail"
      /\ head' = IF head = NULL THEN entry ELSE head
      /\ UNCHANGED <<kind, tail, count, data, next, prev, allocated, at, entry, walkPc,
                     current, added>>
  BY DEF SetHead, walk
<1>4. /\ s \in Seq(Entries) /\ NoDuplicate(s) /\ k \in 0..Len(s)
      /\ Back(s, tail, prev) /\ count = Len(s)
      /\ Chain(Now(s, k), head, next)
      /\ ToSet(Now(s, k)) \subseteq allocated /\ current \in ToSet(Now(s, k)) \cup {NULL}
      /\ Pending(s, k)
  BY <1>1, <1>3 DEF Shape
<1>5. /\ entry \in Entries /\ entry \notin ToSet(s) /\ entry \in allocated
      /\ next[entry] = Nth(s, k + 1)
  BY <1>2, <1>4 DEF Pending, Types
<1>6. /\ Put(s, k, entry) \in Seq(Entries) /\ NoDuplicate(Put(s, k, entry))
      /\ Len(Put(s, k, entry)) = Len(s) + 1 /\ Len(s) \in Nat
      /\ ToSet(Put(s, k, entry)) = ToSet(s) \cup {entry}
  BY <1>4, <1>5, PutSequence, LenProperties
<1>7. Types' /\ Walking'
  BY <1>2, <1>3, <1>5 DEF IInv, Types, Walking
<1>8. Now(s, k)' = Put(s, k, entry)
  BY <1>3 DEF Now, Unlinked
<1>9. Pending(s, k)'
  BY <1>3, <1>4 DEF Pending
<1>10. Chain(Put(s, k, entry), head', next)
  <2>1. CASE s = <<>>
    <3>1. Now(s, k) = s /\ k = 0 /\ head = NULL
      BY <1>3, <1>4, <2>1 DEF Now, Unlinked, Chain, Nth
    <3>2. /\ Chain(s, head, next) /\ k \in 0..Len(s) /\ entry \in Entries \ ToSet(s)
          /\ head' = IF k = 0 THEN entry ELSE head
          /\ \A i \in 1..Len(s) : next[s[i]] = IF i = k THEN entry ELSE next[s[i]]
      BY <1>3, <1>4, <1>5, <3>1
    <3>3. QED
      BY <1>5, <3>2, PutChain, SMTT(30)
  <2>2. CASE s # <<>>
    <3>1. Now(s, k) = Put(s, k, entry)
      BY <1>3, <2>2 DEF Now, Unlinked
    <3>2. head # NULL
      <4>1. head = Put(s, k, entry)[1]
        BY <1>4, <1>6, <3>1 DEF Chain, Nth
      <4>2. Put(s, k, entry)[1] \in Entries
        BY <1>6, ElementOfSeq
      <4>3. QED
        BY <4>1, <4>2, ListAssumption
    <3>3. QED
      BY <1>3, <1>4, <3>1, <3>2
  <2>3. QED
    BY <2>1, <2>2
<1>11. current \in ToSet(Put(s, k, entry)) \cup {NULL} /\ ToSet(Put(s, k, entry)) \subseteq allocated
  <2>1. Now(s, k) = s \/ Now(s, k) = Put(s, k, entry)
    BY DEF Now
  <2>2. ToSet(s) \subseteq ToSet(Put(s, k, entry))
    BY <1>6
  <2>3. ToSet(s) \subseteq allocated
    BY <1>4, <2>1, <2>2
  <2>4. QED
    BY <1>4, <1>5, <1>6, <2>1, <2>2, <2>3
<1>12. Shape(s, k)'
  BY <1>3, <1>4, <1>8, <1>9, <1>10, <1>11 DEF Shape
<1>13. Reach' = Reach \/ Joins
  <2>1. Reach = Now(s, k) /\ Reach' = Put(s, k, entry)
    BY <1>1, <1>3, <1>10, ReachIsNow, ChainWalked DEF Reach
  <2>2. Now(s, k) = s \/ Now(s, k) = Put(s, k, entry)
    BY DEF Now
  <2>3. CASE Now(s, k) = s
    BY <1>4, <1>5, <2>1, <2>3 DEF Joins
  <2>4. QED
    BY <2>1, <2>2, <2>3
<1>14. QED
  BY <1>7, <1>12, <1>13 DEF IInv, ShapeInv

\* The last stores: the next entry's prev, the tail and the count.
LEMMA SetTailInv == IInv /\ SetTail => IInv' /\ Reach' = Reach
<1>. SUFFICES ASSUME IInv, SetTail PROVE IInv' /\ Reach' = Reach
  OBVIOUS
<1>1. PICK s, k : Shape(s, k)
  BY DEF IInv, ShapeInv
<1>2. Types
  BY DEF IInv
<1>3. /\ addPc = "tail" /\ addPc' = "idle" /\ at' = NULL /\ entry' = NULL
      /\ prev' = IF next[entry] = NULL THEN prev ELSE [prev EXCEPT ![next[entry]] = entry]
      /\ tail' = IF next[entry] = NULL THEN entry ELSE tail
      /\ count' = count + 1
      /\ UNCHANGED <<kind, head, data, next, allocated, walkPc, current, added>>
  BY DEF SetTail, walk
<1>4. /\ s \in Seq(Entries) /\ NoDuplicate(s) /\ k \in 0..Len(s)
      /\ Back(s, tail, prev) /\ count = Len(s)
      /\ Chain(Put(s, k, entry), head, next)
      /\ ToSet(Put(s, k, entry)) \subseteq allocated
      /\ current \in ToSet(Put(s, k, entry)) \cup {NULL}
      /\ Pending(s, k)
  BY <1>1, <1>3 DEF Shape, Now, Unlinked
<1>5. /\ Len(s) \in Nat
      /\ \A i \in 1..Len(s) : s[i] \in Entries /\ s[i] \in ToSet(s) /\ s[i] # NULL
      /\ \A i, j \in 1..Len(s) : s[i] = s[j] => i = j
  BY <1>4, Distinct
<1>6. /\ entry \in Entries /\ entry \notin ToSet(s) /\ entry \in allocated
      /\ prev[entry] = Nth(s, k) /\ next[entry] = Nth(s, k + 1)
  BY <1>2, <1>4 DEF Pending, Types
<1>7. /\ Put(s, k, entry) \in Seq(Entries) /\ NoDuplicate(Put(s, k, entry))
      /\ Len(Put(s, k, entry)) = Len(s) + 1
  BY <1>4, <1>6, PutSequence
<1>8. Types' /\ Walking'
  <2>1. prev' \in [Entries -> Pointers]
    BY <1>2, <1>3, <1>6 DEF Types, Pointers
  <2>2. {head', tail', at', entry', current'} \subseteq Pointers
    BY <1>2, <1>3 DEF Types, Pointers
  <2>3. Walking'
    BY <1>3 DEF IInv, Walking
  <2>4. QED
    BY <1>2, <1>3, <2>1, <2>2, <2>3 DEF Types
<1>9. /\ tail' = IF k = Len(s) THEN entry ELSE tail
      /\ prev'[entry] = Nth(s, k)
      /\ \A i \in 1..Len(s) : prev'[s[i]] = IF i = k + 1 THEN entry ELSE prev[s[i]]
  <2>1. CASE k = Len(s)
    <3>1. next[entry] = NULL
      BY <1>5, <1>6, <2>1 DEF Nth
    <3>2. QED
      BY <1>3, <1>5, <1>6, <2>1, <3>1
  <2>2. CASE k # Len(s)
    <3>1. k + 1 \in 1..Len(s) /\ next[entry] = s[k + 1]
      BY <1>4, <1>5, <1>6, <2>2 DEF Nth
    <3>2. prev' = [prev EXCEPT ![s[k + 1]] = entry] /\ tail' = tail
      BY <1>3, <1>5, <3>1
    <3>3. QED
      BY <1>2, <1>5, <1>6, <2>2, <3>1, <3>2 DEF Types
  <2>3. QED
    BY <2>1, <2>2
<1>10. Back(Put(s, k, entry), tail', prev')
  BY <1>4, <1>6, <1>9, PutBack
<1>11. PICK p : p = Put(s, k, entry)
  OBVIOUS
<1>12. Shape(p, 0)'
  <2>1. 0 \in 0..Len(p) /\ count' = Len(p)
    BY <1>3, <1>4, <1>5, <1>7, <1>11
  <2>2. Now(p, 0)' = p
    BY <1>3 DEF Now, Unlinked
  <2>3. QED
    BY <1>3, <1>4, <1>7, <1>10, <1>11, <2>1, <2>2 DEF Shape
<1>13. Reach' = Reach
  BY <1>3 DEF Reach
<1>14. QED
  BY <1>8, <1>12, <1>13 DEF IInv, ShapeInv

\* ListInsertBeforeCurrent links a new entry in at once, and keeps the invariant.
LEMMA InsertBeforeInv ==
    ASSUME IInv, ListInsertBeforeCurrent
    PROVE  /\ IInv'
           /\ \E e \in Entries \ allocated : \E j \in 0..Len(Reach) :
                 /\ allocated' = allocated \cup {e} /\ data' = [data EXCEPT ![e] = added + 1]
                 /\ Reach' = Put(Reach, j, e)
<1>1. PICK s, k : Shape(s, k)
  BY DEF IInv, ShapeInv
<1>2. Types
  BY DEF IInv
<1>3. addPc = "idle" /\ kind = "guarded" /\ walkPc = "idle"
  BY DEF ListInsertBeforeCurrent, Free
<1>4. /\ Reach = s /\ s \in Seq(Entries) /\ NoDuplicate(s)
      /\ Back(s, tail, prev) /\ Chain(s, head, next)
      /\ head = Nth(s, 1) /\ tail = Nth(s, Len(s)) /\ count = Len(s)
      /\ \A i \in 1..Len(s) : prev[s[i]] = Nth(s, i - 1)
      /\ ToSet(s) \subseteq allocated /\ current \in ToSet(s) \cup {NULL}
      /\ entry = NULL /\ at = NULL
  BY <1>1, <1>3, Settled
<1>5. /\ Len(s) \in Nat
      /\ \A i \in 1..Len(s) : s[i] \in Entries /\ s[i] \in ToSet(s) /\ s[i] # NULL
      /\ \A i, j \in 1..Len(s) : s[i] = s[j] => i = j
      /\ \A x \in ToSet(s) : \E i \in 1..Len(s) : x = s[i]
  BY <1>4, Distinct
<1>6. PICK e \in Entries \ allocated, c \in ToSet(s) \cup {NULL} :
        LET p == IF c = NULL THEN tail ELSE prev[c] IN
        /\ allocated' = allocated \cup {e}
        /\ data' = [data EXCEPT ![e] = added + 1]
        /\ next' = [x \in Entries |-> IF x = e THEN c ELSE IF x = p THEN e ELSE next[x]]
        /\ prev' = [x \in Entries |-> IF x = e THEN p ELSE IF x = c THEN e ELSE prev[x]]
        /\ tail' = IF c = NULL THEN e ELSE tail
        /\ head' = IF c = head THEN e ELSE head
  BY <1>4 DEF ListInsertBeforeCurrent
<1>7. /\ count' = count + 1 /\ added' = added + 1 /\ added < MaxItems
      /\ UNCHANGED <<kind, addPc, at, entry, walkPc, current>>
  BY DEF ListInsertBeforeCurrent, add, walk
<1>8. PICK j \in 0..Len(s) : c = Nth(s, j + 1) /\ (j = Len(s) <=> c = NULL)
  <2>1. CASE c = NULL
    <3>1. Len(s) \in 0..Len(s) /\ c = Nth(s, Len(s) + 1)
      BY <1>5, <2>1 DEF Nth
    <3>2. QED
      BY <2>1, <3>1
  <2>2. CASE c \in ToSet(s)
    <3>1. PICK i \in 1..Len(s) : c = s[i]
      BY <1>5, <2>2
    <3>2. i - 1 \in 0..Len(s) /\ c = Nth(s, (i - 1) + 1) /\ i - 1 # Len(s) /\ c # NULL
      BY <1>5, <3>1 DEF Nth
    <3>3. QED
      BY <3>2
  <2>3. QED
    BY <2>1, <2>2
<1>9. PICK p : p = Nth(s, j)
  OBVIOUS
<1>10. p = IF c = NULL THEN tail ELSE prev[c]
  <2>1. c # NULL => prev[c] = Nth(s, j)
    <3>1. c # NULL => j + 1 \in 1..Len(s) /\ c = s[j + 1] /\ (j + 1) - 1 = j
      BY <1>5, <1>8 DEF Nth
    <3>2. QED
      BY <1>4, <3>1
  <2>2. c = NULL => tail = Nth(s, j)
    BY <1>4, <1>8
  <2>3. QED
    BY <1>9, <2>1, <2>2
<1>11. /\ next' = [x \in Entries |-> IF x = e THEN c ELSE IF x = p THEN e ELSE next[x]]
       /\ prev' = [x \in Entries |-> IF x = e THEN p ELSE IF x = c THEN e ELSE prev[x]]
  BY <1>6, <1>10
<1>12. e \in Entries /\ e \notin ToSet(s) /\ c \in Pointers /\ p \in Pointers
  BY <1>4, <1>5, <1>6, <1>9 DEF Nth, Pointers
<1>13. Types' /\ Walking'
  <2>1. next' \in [Entries -> Pointers] /\ prev' \in [Entries -> Pointers]
    BY <1>2, <1>11, <1>12 DEF Types, Pointers
  <2>2. data' \in [Entries -> 0..MaxItems] /\ added' \in 0..MaxItems
    BY <1>2, <1>6, <1>7, ListAssumption DEF Types
  <2>3. {head', tail', at', entry', current'} \subseteq Pointers
    BY <1>2, <1>6, <1>7 DEF Types, Pointers
  <2>4. Walking'
    BY <1>7 DEF IInv, Walking
  <2>5. QED
    BY <1>2, <1>6, <1>7, <2>1, <2>2, <2>3, <2>4 DEF Types
<1>14. /\ next'[e] = Nth(s, j + 1) /\ prev'[e] = Nth(s, j)
       /\ \A i \in 1..Len(s) : next'[s[i]] = IF i = j THEN e ELSE next[s[i]]
       /\ \A i \in 1..Len(s) : prev'[s[i]] = IF i = j + 1 THEN e ELSE prev[s[i]]
  <2>1. next'[e] = Nth(s, j + 1) /\ prev'[e] = Nth(s, j)
    BY <1>8, <1>9, <1>11, <1>12
  <2>2. ASSUME NEW i \in 1..Len(s)
        PROVE  /\ next'[s[i]] = IF i = j THEN e ELSE next[s[i]]
               /\ prev'[s[i]] = IF i = j + 1 THEN e ELSE prev[s[i]]
    <3>1. s[i] \in Entries /\ s[i] # e
      BY <1>5, <1>12
    <3>2. (s[i] = p <=> i = j) /\ (s[i] = c <=> i = j + 1)
      BY <1>5, <1>8, <1>9 DEF Nth
    <3>3. QED
      BY <1>11, <3>1, <3>2
  <2>3. QED
    BY <2>1, <2>2
<1>15. Chain(Put(s, j, e), head', next')
  <2>1. c = head <=> j = 0
    <3>1. CASE s = <<>>
      BY <1>4, <1>8, <3>1 DEF Nth
    <3>2. CASE s # <<>>
      <4>1. 1 \in 1..Len(s) /\ head = s[1]
        BY <1>4, <1>5, <3>2, EmptySeq DEF Nth
      <4>2. QED
        BY <1>5, <1>8, <4>1 DEF Nth
    <3>3. QED
      BY <3>1, <3>2
  <2>2. head' = IF j = 0 THEN e ELSE head
    BY <1>6, <2>1
  <2>3. QED
    BY <1>4, <1>12, <1>14, <2>2, PutChain, SMTT(30)
<1>16. Back(Put(s, j, e), tail', prev')
  <2>1. tail' = IF j = Len(s) THEN e ELSE tail
    BY <1>6, <1>8
  <2>2. QED
    BY <1>4, <1>12, <1>14, <2>1, PutBack, SMTT(30)
<1>17. /\ Put(s, j, e) \in Seq(Entries) /\ NoDuplicate(Put(s, j, e))
       /\ Len(Put(s, j, e)) = Len(s) + 1
       /\ ToSet(Put(s, j, e)) = ToSet(s) \cup {e}
  BY <1>4, <1>12, PutSequence
<1>18. PICK q : q = Put(s, j, e)
  OBVIOUS
<1>19. Shape(q, 0)'
  <2>1. 0 \in 0..Len(q) /\ count' = Len(q)
    BY <1>4, <1>5, <1>7, <1>17, <1>18
  <2>2. Now(q, 0)' = q
    BY <1>3, <1>7 DEF Now, Unlinked
  <2>3. ToSet(q) \subseteq allocated' /\ current' \in ToSet(q) \cup {NULL}
    BY <1>4, <1>6, <1>7, <1>17, <1>18
  <2>4. QED
    BY <1>3, <1>4, <1>7, <1>15, <1>16, <1>17, <1>18, <2>1, <2>2, <2>3 DEF Shape
<1>20. Reach' = Put(Reach, j, e)
  BY <1>4, <1>15, ChainWalked DEF Reach
<1>21. j \in 0..Len(Reach)
  BY <1>4
<1>22. QED
  BY <1>6, <1>13, <1>19, <1>20, <1>21 DEF IInv, ShapeInv

\* ListRemoveCurrent, for ListRemove and for the walk: the iterator is left at
\* any entry but the removed one.
LEMMA UnlinkInv ==
    ASSUME IInv, addPc = "idle", NEW e \in ToSet(Reach), Unlink(e),
           UNCHANGED <<kind, add, added>>, Walking',
           walkPc' \in {"idle", "more", "body", "next"},
           current' \in (ToSet(Reach) \ {e}) \cup {NULL}
    PROVE  IInv' /\ \E j \in 1..Len(Reach) : e = Reach[j] /\ Reach' = Cut(Reach, j)
<1>1. PICK s, k : Shape(s, k)
  BY DEF IInv, ShapeInv
<1>2. Types
  BY DEF IInv
<1>3. /\ Reach = s /\ s \in Seq(Entries) /\ NoDuplicate(s)
      /\ Back(s, tail, prev) /\ Chain(s, head, next)
      /\ head = Nth(s, 1) /\ tail = Nth(s, Len(s)) /\ count = Len(s)
      /\ \A i \in 1..Len(s) : next[s[i]] = Nth(s, i + 1) /\ prev[s[i]] = Nth(s, i - 1)
      /\ ToSet(s) \subseteq allocated
      /\ entry = NULL /\ at = NULL
  BY <1>1, Settled
<1>4. /\ Len(s) \in Nat
      /\ \A i \in 1..Len(s) : s[i] \in Entries /\ s[i] \in ToSet(s) /\ s[i] # NULL
      /\ \A i, j \in 1..Len(s) : s[i] = s[j] => i = j
      /\ \A x \in ToSet(s) : \E i \in 1..Len(s) : x = s[i]
  BY <1>3, Distinct
<1>5. PICK j \in 1..Len(s) : e = s[j]
  BY <1>3, <1>4
<1>6. next[e] = Nth(s, j + 1) /\ prev[e] = Nth(s, j - 1) /\ e \in Entries
  BY <1>3, <1>4, <1>5
<1>7. /\ head' = IF e = head THEN next[e] ELSE head
      /\ tail' = IF e = tail THEN prev[e] ELSE tail
      /\ next' = [x \in Entries |-> IF x = prev[e] THEN next[e] ELSE next[x]]
      /\ prev' = [x \in Entries |-> IF x = next[e] THEN prev[e] ELSE prev[x]]
      /\ allocated' = allocated \ {e}
      /\ count' = count - 1
      /\ UNCHANGED <<data, kind, addPc, at, entry, added>>
  BY DEF Unlink, add
<1>8. Types'
  <2>1. next[e] \in Pointers /\ prev[e] \in Pointers
    BY <1>2, <1>6 DEF Types
  <2>2. next' \in [Entries -> Pointers] /\ prev' \in [Entries -> Pointers]
    BY <1>2, <1>7, <2>1 DEF Types
  <2>3. current' \in Pointers
    BY <1>3, <1>4 DEF Pointers
  <2>4. QED
    BY <1>2, <1>7, <2>1, <2>2, <2>3 DEF Types
<1>9. \A i \in 1..Len(s) : /\ next'[s[i]] = IF i = j - 1 THEN next[s[j]] ELSE next[s[i]]
                           /\ prev'[s[i]] = IF i = j + 1 THEN prev[s[j]] ELSE prev[s[i]]
  <2>1. ASSUME NEW i \in 1..Len(s)
        PROVE  (s[i] = prev[e] <=> i = j - 1) /\ (s[i] = next[e] <=> i = j + 1)
    BY <1>4, <1>5, <1>6 DEF Nth
  <2>2. QED
    BY <1>4, <1>5, <1>7, <2>1
<1>10. Chain(Cut(s, j), head', next')
  <2>1. e = head <=> j = 1
    BY <1>3, <1>4, <1>5 DEF Nth
  <2>2. head' = IF j = 1 THEN next[s[j]] ELSE head
    BY <1>5, <1>7, <2>1
  <2>3. \A i \in 1..Len(s) : next'[s[i]] = IF i = j - 1 THEN next[s[j]] ELSE next[s[i]]
    BY <1>9
  <2>4. Chain(s, head, next)
    BY <1>3
  <2>5. QED
    BY <2>2, <2>3, <2>4, CutChain
<1>11. Back(Cut(s, j), tail', prev')
  <2>1. e = tail <=> j = Len(s)
    <3>1. Len(s) \in 1..Len(s)
      BY <1>4, <1>5
    <3>2. tail = s[Len(s)]
      BY <1>3, <3>1 DEF Nth
    <3>3. QED
      BY <1>4, <1>5, <3>1, <3>2
  <2>2. tail' = IF j = Len(s) THEN prev[s[j]] ELSE tail
    BY <1>5, <1>7, <2>1
  <2>3. \A i \in 1..Len(s) : prev'[s[i]] = IF i = j + 1 THEN prev[s[j]] ELSE prev[s[i]]
    BY <1>9
  <2>4. s \in Seq(Entries) /\ NoDuplicate(s) /\ Back(s, tail, prev)
    BY <1>3
  <2>5. QED
    BY <2>2, <2>3, <2>4, CutBack
<1>12. /\ Cut(s, j) \in Seq(Entries) /\ NoDuplicate(Cut(s, j))
       /\ Len(Cut(s, j)) = Len(s) - 1 /\ ToSet(Cut(s, j)) = ToSet(s) \ {e}
  BY <1>3, <1>5, CutSequence
<1>13. PICK q : q = Cut(s, j)
  OBVIOUS
<1>14. Shape(q, 0)'
  <2>1. 0 \in 0..Len(q) /\ count' = Len(q)
    BY <1>3, <1>4, <1>5, <1>7, <1>12, <1>13
  <2>2. Now(q, 0)' = q
    BY <1>7 DEF Now, Unlinked
  <2>3. ToSet(q) \subseteq allocated' /\ current' \in ToSet(q) \cup {NULL}
    BY <1>3, <1>7, <1>12, <1>13
  <2>4. QED
    BY <1>3, <1>7, <1>10, <1>11, <1>12, <1>13, <2>1, <2>2, <2>3 DEF Shape
<1>15. Reach' = Cut(s, j)
  BY <1>10, ChainWalked DEF Reach
<1>16. QED
  BY <1>3, <1>5, <1>8, <1>14, <1>15 DEF IInv, ShapeInv

\* ListRemove takes one entry out, and keeps the invariant.
LEMMA ListRemoveInv ==
    ASSUME IInv, ListRemove
    PROVE  IInv' /\ \E j \in 1..Len(Reach) : Reach' = Cut(Reach, j)
<1>1. PICK e \in ToSet(Reach) : Unlink(e)
  BY DEF ListRemove
<1>2. /\ addPc = "idle" /\ walkPc = "idle" /\ current = NULL
      /\ UNCHANGED <<kind, add, added, walkPc, current>>
  BY DEF ListRemove, Free, IInv, Walking, walk
<1>3. Walking' /\ walkPc' \in {"idle", "more", "body", "next"} /\ current' = NULL
  BY <1>2 DEF Walking
<1>4. QED
  BY <1>1, <1>2, <1>3, UnlinkInv

\* A walk that removes takes out the entry where it stands, and its pointer leads
\* on to the one behind it.
LEMMA WalkRemoveInv ==
    ASSUME IInv, WalkRemove
    PROVE  IInv' /\ \E j \in 1..Len(Reach) : current = Reach[j] /\ Reach' = Cut(Reach, j)
<1>1. /\ walkPc = "body" /\ kind = "guarded" /\ addPc = "idle" /\ current # NULL
      /\ Unlink(current) /\ current' = next[current] /\ walkPc' = "next"
      /\ UNCHANGED <<kind, add, added>>
  BY DEF WalkRemove, IInv, Walking
<1>2. PICK s, k : Shape(s, k)
  BY DEF IInv, ShapeInv
<1>3. /\ Reach = s /\ s \in Seq(Entries) /\ NoDuplicate(s)
      /\ \A i \in 1..Len(s) : next[s[i]] = Nth(s, i + 1)
      /\ current \in ToSet(s) \cup {NULL}
  BY <1>1, <1>2, Settled
<1>4. /\ Len(s) \in Nat
      /\ \A i \in 1..Len(s) : s[i] \in ToSet(s)
      /\ \A i, j \in 1..Len(s) : s[i] = s[j] => i = j
      /\ \A x \in ToSet(s) : \E i \in 1..Len(s) : x = s[i]
  BY <1>3, Distinct
<1>5. PICK j \in 1..Len(s) : current = s[j]
  BY <1>1, <1>3, <1>4
<1>6. current' \in (ToSet(s) \ {current}) \cup {NULL}
  BY <1>1, <1>3, <1>4, <1>5 DEF Nth
<1>7. Walking'
  BY <1>1 DEF Walking, add
<1>8. QED
  BY <1>1, <1>3, <1>6, <1>7, UnlinkInv

\* ListFree leaves the empty list.
LEMMA ListFreeInv == IInv /\ ListFree => IInv' /\ Reach' = <<>>
<1>. SUFFICES ASSUME IInv, ListFree PROVE IInv' /\ Reach' = <<>>
  OBVIOUS
<1>1. PICK s, k : Shape(s, k)
  BY DEF IInv, ShapeInv
<1>2. Types
  BY DEF IInv
<1>3. /\ addPc = "idle" /\ walkPc = "idle" /\ current = NULL
      /\ head' = NULL /\ tail' = NULL /\ count' = 0
      /\ allocated' = allocated \ ToSet(Reach)
      /\ UNCHANGED <<kind, data, next, prev, addPc, at, entry, walkPc, current, added>>
  BY DEF ListFree, Free, add, walk, IInv, Walking
<1>4. entry = NULL /\ at = NULL
  BY <1>1, <1>3, Settled
<1>5. Types' /\ Walking'
  BY <1>2, <1>3 DEF IInv, Types, Walking, Pointers
<1>6. <<>> \in Seq(Entries) /\ Len(<<>>) = 0 /\ NoDuplicate(<<>>) /\ ToSet(<<>>) = {}
  BY EmptySeq DEF NoDuplicate, ToSet
<1>7. Chain(<<>>, head', next') /\ Back(<<>>, tail', prev')
  BY <1>3, <1>6 DEF Chain, Back, Nth
<1>8. Shape(<<>>, 0)'
  <2>1. Now(<<>>, 0)' = <<>>
    BY <1>3 DEF Now, Unlinked
  <2>2. QED
    BY <1>3, <1>4, <1>6, <1>7, <2>1 DEF Shape
<1>9. Reach' = <<>>
  BY <1>7, ChainWalked DEF Reach
<1>10. QED
  BY <1>5, <1>8, <1>9 DEF IInv, ShapeInv

\* The steps of a walk that change nothing but where it is.
LEMMA WalkerInv ==
    ASSUME IInv, WalkInit \/ WalkEnd \/ WalkVisit \/ WalkKeep \/ WalkNext
    PROVE  IInv' /\ Reach' = Reach
<1>1. PICK s, k : Shape(s, k)
  BY DEF IInv, ShapeInv
<1>2. Types /\ Walking
  BY DEF IInv
<1>3. Chain(Now(s, k), head, next) /\ current \in ToSet(Now(s, k)) \cup {NULL}
  BY <1>1 DEF Shape
<1>4. PICK r : r = Now(s, k)
  OBVIOUS
<1>5. /\ r \in Seq(Entries) /\ NoDuplicate(r) /\ head = Nth(r, 1)
      /\ \A i \in 1..Len(r) : next[r[i]] = Nth(r, i + 1)
  BY <1>3, <1>4 DEF Chain
<1>6. /\ Len(r) \in Nat
      /\ \A i \in 1..Len(r) : r[i] \in Entries /\ r[i] \in ToSet(r)
      /\ \A x \in ToSet(r) : \E i \in 1..Len(r) : x = r[i]
  BY <1>5, Distinct
<1>7. /\ head \in ToSet(r) \cup {NULL}
      /\ current # NULL => next[current] \in ToSet(r) \cup {NULL}
  <2>1. ASSUME NEW i PROVE Nth(r, i) \in ToSet(r) \cup {NULL}
    BY <1>6 DEF Nth
  <2>2. ASSUME current # NULL PROVE next[current] \in ToSet(r) \cup {NULL}
    <3>1. PICK i \in 1..Len(r) : current = r[i]
      BY <1>3, <1>4, <1>6, <2>2
    <3>2. next[current] = Nth(r, i + 1)
      BY <1>5, <3>1
    <3>3. QED
      BY <2>1, <3>2
  <2>3. QED
    BY <1>5, <2>1, <2>2
<1>8. /\ UNCHANGED <<kind, head, tail, count, data, next, prev, allocated, addPc, at, entry,
                     added>>
      /\ current' \in ToSet(r) \cup {NULL}
      /\ walkPc' \in {"idle", "more", "body", "next"} /\ Walking'
  <2>1. CASE WalkInit
    BY <1>2, <1>7, <2>1 DEF WalkInit, list, add, Walking, Free
  <2>2. CASE WalkEnd
    BY <1>2, <2>2 DEF WalkEnd, list, add, Walking
  <2>3. CASE WalkVisit
    BY <1>2, <1>3, <1>4, <2>3 DEF WalkVisit, list, add, Walking
  <2>4. CASE WalkKeep
    BY <1>2, <1>3, <1>4, <2>4 DEF WalkKeep, list, add, Walking
  <2>5. CASE WalkNext
    BY <1>2, <1>7, <2>5 DEF WalkNext, list, add, Walking
  <2>6. QED
    BY <2>1, <2>2, <2>3, <2>4, <2>5
<1>9. Types'
  BY <1>2, <1>6, <1>8 DEF Types, Pointers
<1>10. Shape(s, k)'
  <2>1. Now(s, k)' = Now(s, k)
    BY <1>8 DEF Now, Unlinked
  <2>2. Pending(s, k)' <=> Pending(s, k)
    BY <1>8 DEF Pending
  <2>3. QED
    BY <1>1, <1>4, <1>8, <2>1, <2>2 DEF Shape
<1>11. Reach' = Reach
  BY <1>8 DEF Reach
<1>12. QED
  BY <1>8, <1>9, <1>10, <1>11 DEF IInv, ShapeInv

\* The invariant speaks of the variables of List only.
LEMMA StutterInv == IInv /\ UNCHANGED vars => IInv'
<1>. SUFFICES ASSUME IInv, UNCHANGED vars PROVE IInv'
  OBVIOUS
<1>1. PICK s, k : Shape(s, k)
  BY DEF IInv, ShapeInv
<1>2. Shape(s, k)'
  BY <1>1 DEF vars, list, add, walk, Shape, Now, Unlinked, Pending
<1>3. QED
  BY <1>2 DEF IInv, ShapeInv, Types, Walking, vars, list, add, walk

\* The list and the call under way always fit together: IInv is an invariant.
THEOREM Invariance == Spec => []IInv
<1>1. Init => IInv
  BY InitInv
<1>2. ASSUME IInv, [Next]_vars PROVE IInv'
  <2>1. CASE ListAdd
    BY <1>2, <2>1, InsertAfterInv DEF ListAdd
  <2>2. CASE ListInsertAfterCurrent
    BY <1>2, <2>2, InsertAfterInv DEF ListInsertAfterCurrent
  <2>3. CASE Link
    BY <1>2, <2>3, LinkInv
  <2>4. CASE SetHead
    BY <1>2, <2>4, SetHeadInv
  <2>5. CASE SetTail
    BY <1>2, <2>5, SetTailInv
  <2>6. CASE ListInsertBeforeCurrent
    BY <1>2, <2>6, InsertBeforeInv
  <2>7. CASE ListRemove
    BY <1>2, <2>7, ListRemoveInv
  <2>8. CASE ListFree
    BY <1>2, <2>8, ListFreeInv
  <2>9. CASE WalkRemove
    BY <1>2, <2>9, WalkRemoveInv
  <2>10. CASE WalkInit \/ WalkEnd \/ WalkVisit \/ WalkKeep \/ WalkNext
    BY <1>2, <2>10, WalkerInv
  <2>11. CASE UNCHANGED vars
    BY <1>2, <2>11, StutterInv
  <2>12. QED
    BY <1>2, <2>1, <2>2, <2>3, <2>4, <2>5, <2>6, <2>7, <2>8, <2>9, <2>10, <2>11
       DEF Next, Walker
<1>3. QED
  BY <1>1, <1>2, PTL DEF Spec

----------------------------------------------------------------------------
(* What follows from the invariant.                                        *)

\* The variables keep their types; the count never passes the entries there are.
THEOREM TypeCorrect == Spec => []TypeOK
<1>1. IInv => TypeOK
  <2>. SUFFICES ASSUME IInv PROVE TypeOK
    OBVIOUS
  <2>1. PICK s, k : Shape(s, k)
    BY DEF IInv, ShapeInv
  <2>2. s \in Seq(Entries) /\ NoDuplicate(s) /\ count = Len(s)
    BY <2>1 DEF Shape
  <2>3. Len(s) \in Nat /\ Len(s) <= Cardinality(Entries)
    BY <2>2, ShortChain, LenProperties
  <2>4. Cardinality(Entries) \in Nat
    BY ListAssumption, FS_CardinalityType
  <2>5. count \in 0..Cardinality(Entries)
    BY <2>2, <2>3, <2>4
  <2>6. QED
    BY <2>5 DEF IInv, Types, TypeOK
<1>2. QED
  BY <1>1, Invariance, PTL

\* Between the calls the fields prev, tail and count tell the same list as head
\* and next.
THEOREM BothWaysAgree == Spec => []BothWays
<1>1. IInv => BothWays
  <2>. SUFFICES ASSUME IInv, addPc = "idle"
                PROVE  /\ count = Len(Reach)
                       /\ tail = IF Reach = <<>> THEN NULL ELSE Last(Reach)
                       /\ \A i \in DOMAIN Reach :
                             prev[Reach[i]] = IF i = 1 THEN NULL ELSE Reach[i-1]
    BY DEF BothWays
  <2>1. PICK s, k : Shape(s, k)
    BY DEF IInv, ShapeInv
  <2>2. /\ Reach = s /\ s \in Seq(Entries) /\ NoDuplicate(s)
        /\ tail = Nth(s, Len(s)) /\ count = Len(s)
        /\ \A i \in 1..Len(s) : prev[s[i]] = Nth(s, i - 1)
    BY <2>1, Settled
  <2>3. Len(s) \in Nat /\ DOMAIN s = 1..Len(s) /\ (s = <<>> <=> Len(s) = 0)
    BY <2>2, Distinct, EmptySeq
  <2>4. tail = IF s = <<>> THEN NULL ELSE Last(s)
    BY <2>2, <2>3 DEF Nth, Last
  <2>5. \A i \in DOMAIN s : prev[s[i]] = IF i = 1 THEN NULL ELSE s[i-1]
    BY <2>2, <2>3 DEF Nth
  <2>6. QED
    BY <2>2, <2>4, <2>5
<1>2. QED
  BY <1>1, Invariance, PTL

\* No pointer that a call or a walk follows leads to a freed entry.
THEOREM NothingFreedFollowed == Spec => []NothingFreed
<1>1. IInv => NothingFreed
  <2>. SUFFICES ASSUME IInv PROVE NothingFreed
    OBVIOUS
  <2>1. PICK s, k : Shape(s, k)
    BY DEF IInv, ShapeInv
  <2>2. Reach = Now(s, k)
    BY <2>1, ReachIsNow
  <2>3. ToSet(Reach) \subseteq allocated /\ current \in ToSet(Reach) \cup {NULL}
    BY <2>1, <2>2 DEF Shape
  <2>4. ASSUME addPc # "idle" PROVE {entry, at} \subseteq allocated \cup {NULL}
    <3>1. Pending(s, k) /\ s \in Seq(Entries) /\ NoDuplicate(s) /\ k \in 0..Len(s)
      BY <2>1, <2>4 DEF Shape
    <3>2. entry \in Entries \ ToSet(s)
      BY <3>1 DEF Pending, IInv, Types
    <3>3. ToSet(s) \subseteq allocated
      <4>1. ToSet(Put(s, k, entry)) = ToSet(s) \cup {entry}
        BY <3>1, <3>2, PutSequence
      <4>2. QED
        BY <2>2, <2>3, <4>1 DEF Now
    <3>4. \A i \in 1..Len(s) : s[i] \in ToSet(s)
      BY <3>1, Distinct
    <3>5. QED
      BY <3>1, <3>3, <3>4 DEF Pending, Nth
  <2>5. QED
    BY <2>3, <2>4 DEF NothingFreed
<1>2. QED
  BY <1>1, Invariance, PTL

----------------------------------------------------------------------------
(* The list is a sequence of items.                                        *)

\* a is c with x before the place i, or c without the place i.
With(a, c, i, x) ==
    /\ Len(a) = Len(c) + 1
    /\ \A n \in 1..Len(c) + 1 : a[n] = IF n < i THEN c[n] ELSE IF n = i THEN x ELSE c[n - 1]

Without(a, c, i) ==
    /\ Len(a) = Len(c) - 1
    /\ \A n \in 1..Len(c) - 1 : a[n] = IF n < i THEN c[n] ELSE c[n + 1]

\* What InsertAt and RemoveAt of the community modules give.
LEMMA InsertAtIs ==
    ASSUME NEW S, NEW c \in Seq(S), NEW i \in 1..Len(c), NEW x \in S
    PROVE  InsertAt(c, i, x) \in Seq(S) /\ With(InsertAt(c, i, x), c, i, x)
<1>1. Len(c) \in Nat /\ \A n \in 1..Len(c) : c[n] \in S
  BY LenProperties, ElementOfSeq
<1>2. PICK a : a = SubSeq(c, 1, i - 1)
  OBVIOUS
<1>3. PICK b : b = SubSeq(c, i, Len(c))
  OBVIOUS
<1>4. a \in Seq(S) /\ Len(a) = i - 1 /\ \A n \in 1..i - 1 : a[n] = c[n]
  <2>1. i - 1 \in Int /\ \A n \in 1..i - 1 : c[n] \in S
    BY <1>1
  <2>2. /\ SubSeq(c, 1, i - 1) \in Seq(S) /\ Len(SubSeq(c, 1, i - 1)) = i - 1
        /\ \A n \in 1..i - 1 : SubSeq(c, 1, i - 1)[n] = c[n]
    BY <2>1, SubSeqProperties
  <2>3. QED
    BY <1>2, <2>2
<1>5. b \in Seq(S) /\ Len(b) = Len(c) - i + 1 /\ \A n \in 1..Len(c) - i + 1 : b[n] = c[i + n - 1]
  <2>1. i \in Int /\ Len(c) \in Int /\ \A n \in i..Len(c) : c[n] \in S
    BY <1>1
  <2>2. /\ SubSeq(c, i, Len(c)) \in Seq(S) /\ Len(SubSeq(c, i, Len(c))) = Len(c) - i + 1
        /\ \A n \in 1..Len(c) - i + 1 : SubSeq(c, i, Len(c))[n] = c[i + n - 1]
    BY <2>1, SubSeqProperties
  <2>3. QED
    BY <1>3, <2>2
<1>6. <<x>> \in Seq(S) /\ Len(<<x>>) = 1 /\ <<x>>[1] = x
  OBVIOUS
<1>7. PICK d : d = a \o <<x>>
  OBVIOUS
<1>8. /\ d \in Seq(S) /\ Len(d) = i
      /\ \A n \in 1..i : d[n] = IF n < i THEN c[n] ELSE x
  <2>1. /\ d \in Seq(S) /\ Len(d) = Len(a) + Len(<<x>>)
        /\ \A n \in 1..Len(a) + Len(<<x>>) :
              d[n] = IF n <= Len(a) THEN a[n] ELSE <<x>>[n - Len(a)]
    BY <1>4, <1>6, <1>7, ConcatProperties, Zenon
  <2>2. QED
    BY <1>1, <1>4, <1>6, <2>1
<1>9. /\ InsertAt(c, i, x) \in Seq(S) /\ Len(InsertAt(c, i, x)) = Len(d) + Len(b)
      /\ \A n \in 1..Len(d) + Len(b) :
            InsertAt(c, i, x)[n] = IF n <= Len(d) THEN d[n] ELSE b[n - Len(d)]
  <2>1. InsertAt(c, i, x) = d \o b
    BY <1>2, <1>3, <1>7 DEF InsertAt
  <2>2. /\ d \o b \in Seq(S) /\ Len(d \o b) = Len(d) + Len(b)
        /\ \A n \in 1..Len(d) + Len(b) :
              (d \o b)[n] = IF n <= Len(d) THEN d[n] ELSE b[n - Len(d)]
    BY <1>5, <1>8, ConcatProperties, Zenon
  <2>3. QED
    BY <2>1, <2>2
<1>10. ASSUME NEW n \in 1..Len(c) + 1
       PROVE  InsertAt(c, i, x)[n] = IF n < i THEN c[n] ELSE IF n = i THEN x ELSE c[n - 1]
  <2>1. CASE n <= i
    BY <1>1, <1>5, <1>8, <1>9, <2>1
  <2>2. CASE n > i
    <3>1. n - i \in 1..Len(c) - i + 1 /\ i + (n - i) - 1 = n - 1
      BY <1>1, <2>2
    <3>2. InsertAt(c, i, x)[n] = b[n - i]
      BY <1>1, <1>5, <1>8, <1>9, <2>2
    <3>3. b[n - i] = c[i + (n - i) - 1]
      BY <1>5, <3>1
    <3>4. QED
      BY <2>2, <3>1, <3>2, <3>3
  <2>3. QED
    BY <1>1, <2>1, <2>2
<1>11. QED
  BY <1>1, <1>5, <1>8, <1>9, <1>10 DEF With

\* What the module SequencesExt means by a sequence without its place i.
LEMMA RemoveAtIs ==
    ASSUME NEW S, NEW c \in Seq(S), NEW i \in 1..Len(c)
    PROVE  RemoveAt(c, i) \in Seq(S) /\ Without(RemoveAt(c, i), c, i)
<1>1. Len(c) \in Nat /\ \A n \in 1..Len(c) : c[n] \in S
  BY LenProperties, ElementOfSeq
<1>2. PICK a : a = SubSeq(c, 1, i - 1)
  OBVIOUS
<1>3. PICK b : b = SubSeq(c, i + 1, Len(c))
  OBVIOUS
<1>4. a \in Seq(S) /\ Len(a) = i - 1 /\ \A n \in 1..i - 1 : a[n] = c[n]
  <2>1. i - 1 \in Int /\ \A n \in 1..i - 1 : c[n] \in S
    BY <1>1
  <2>2. /\ SubSeq(c, 1, i - 1) \in Seq(S) /\ Len(SubSeq(c, 1, i - 1)) = i - 1
        /\ \A n \in 1..i - 1 : SubSeq(c, 1, i - 1)[n] = c[n]
    BY <2>1, SubSeqProperties
  <2>3. QED
    BY <1>2, <2>2
<1>5. b \in Seq(S) /\ Len(b) = Len(c) - i /\ \A n \in 1..Len(c) - i : b[n] = c[i + n]
  <2>1. i + 1 \in Int /\ Len(c) \in Int /\ \A n \in i + 1..Len(c) : c[n] \in S
    BY <1>1
  <2>2. /\ SubSeq(c, i + 1, Len(c)) \in Seq(S) /\ Len(SubSeq(c, i + 1, Len(c))) = Len(c) - i
        /\ \A n \in 1..Len(c) - i : SubSeq(c, i + 1, Len(c))[n] = c[i + n]
    BY <2>1, SubSeqProperties
  <2>3. QED
    BY <1>3, <2>2
<1>6. /\ RemoveAt(c, i) \in Seq(S) /\ Len(RemoveAt(c, i)) = Len(c) - 1
      /\ \A n \in 1..Len(c) - 1 :
            RemoveAt(c, i)[n] = IF n < i THEN a[n] ELSE b[n - (i - 1)]
  <2>1. RemoveAt(c, i) = a \o b
    BY <1>2, <1>3 DEF RemoveAt
  <2>2. /\ a \o b \in Seq(S) /\ Len(a \o b) = Len(a) + Len(b)
        /\ \A n \in 1..Len(a) + Len(b) :
              (a \o b)[n] = IF n <= Len(a) THEN a[n] ELSE b[n - Len(a)]
    BY <1>4, <1>5, ConcatProperties, Zenon
  <2>3. Len(a) = i - 1 /\ Len(a) + Len(b) = Len(c) - 1
    BY <1>1, <1>4, <1>5
  <2>4. QED
    BY <1>1, <2>1, <2>2, <2>3
<1>7. ASSUME NEW n \in 1..Len(c) - 1
      PROVE  RemoveAt(c, i)[n] = IF n < i THEN c[n] ELSE c[n + 1]
  <2>1. CASE n < i
    BY <1>1, <1>4, <1>6, <2>1
  <2>2. CASE n >= i
    <3>1. n - (i - 1) \in 1..Len(c) - i /\ i + (n - (i - 1)) = n + 1
      BY <1>1, <2>2
    <3>2. RemoveAt(c, i)[n] = b[n - (i - 1)]
      BY <1>1, <1>6, <2>2
    <3>3. QED
      BY <1>5, <2>2, <3>1, <3>2
  <2>3. QED
    BY <1>1, <2>1, <2>2
<1>8. QED
  BY <1>1, <1>6, <1>7 DEF Without

\* The items of the entries r, when d holds the field data of each entry.
ItemsOf(r, d) == [i \in DOMAIN r |-> d[r[i]]]

\* The items of a list into which an entry was put: one more, at its place.
LEMMA PutItem ==
    ASSUME NEW r \in Seq(Entries), NEW j \in 0..Len(r), NEW e \in Entries,
           NEW S, NEW d \in [Entries -> S], NEW f \in [Entries -> S],
           \A i \in 1..Len(r) : f[r[i]] = d[r[i]]
    PROVE  /\ ItemsOf(r, d) \in Seq(S) /\ Len(ItemsOf(r, d)) = Len(r)
           /\ ItemsOf(Put(r, j, e), f) \in Seq(S)
           /\ With(ItemsOf(Put(r, j, e), f), ItemsOf(r, d), j + 1, f[e])
<1>1. Len(r) \in Nat /\ DOMAIN r = 1..Len(r) /\ \A i \in 1..Len(r) : r[i] \in Entries
  BY LenProperties, ElementOfSeq
<1>2. PICK c : c = ItemsOf(r, d)
  OBVIOUS
<1>3. c \in Seq(S) /\ Len(c) = Len(r) /\ \A i \in 1..Len(r) : c[i] = d[r[i]]
  <2>1. c \in [1..Len(r) -> S] /\ \A i \in 1..Len(r) : c[i] = d[r[i]]
    BY <1>1, <1>2 DEF ItemsOf
  <2>2. QED
    BY <1>1, <2>1, IsSequence
<1>4. PICK p : p = Put(r, j, e)
  OBVIOUS
<1>5. /\ DOMAIN p = 1..Len(r) + 1
      /\ \A i \in 1..Len(r) + 1 : p[i] = IF i <= j THEN r[i]
                                         ELSE IF i = j + 1 THEN e ELSE r[i - 1]
  BY <1>4 DEF Put
<1>6. PICK g : g = ItemsOf(p, f)
  OBVIOUS
<1>7. ASSUME NEW i \in 1..Len(r) + 1
      PROVE  g[i] = (IF i < j + 1 THEN c[i] ELSE IF i = j + 1 THEN f[e] ELSE c[i - 1]) /\ g[i] \in S
  <2>1. g[i] = f[p[i]]
    BY <1>5, <1>6 DEF ItemsOf
  <2>2. CASE i <= j
    <3>1. i \in 1..Len(r) /\ p[i] = r[i] /\ i < j + 1
      BY <1>1, <1>5, <2>2
    <3>2. QED
      BY <1>1, <1>3, <2>1, <3>1
  <2>3. CASE i = j + 1
    BY <1>1, <1>5, <2>1, <2>3
  <2>4. CASE i > j + 1
    <3>1. i - 1 \in 1..Len(r) /\ p[i] = r[i - 1]
      BY <1>1, <1>5, <2>4
    <3>2. QED
      BY <1>1, <1>3, <2>1, <2>4, <3>1
  <2>5. QED
    BY <1>1, <2>2, <2>3, <2>4
<1>8. g \in Seq(S) /\ Len(g) = Len(r) + 1
  <2>1. DOMAIN g = 1..Len(r) + 1 /\ g = [i \in DOMAIN g |-> g[i]]
    BY <1>5, <1>6 DEF ItemsOf
  <2>2. PICK m \in Nat : m = Len(r) + 1
    BY <1>1
  <2>3. g \in [1..m -> S]
    BY <1>7, <2>1, <2>2
  <2>4. QED
    BY <2>2, <2>3, IsSequence
<1>9. With(g, c, j + 1, f[e])
  BY <1>3, <1>7, <1>8 DEF With
<1>10. QED
  BY <1>2, <1>3, <1>4, <1>6, <1>8, <1>9

\* The items of a list from which an entry was cut: all but that one.
LEMMA CutItem ==
    ASSUME NEW r \in Seq(Entries), NEW j \in 1..Len(r), NEW S, NEW d \in [Entries -> S]
    PROVE  /\ ItemsOf(r, d) \in Seq(S) /\ Len(ItemsOf(r, d)) = Len(r)
           /\ ItemsOf(Cut(r, j), d) \in Seq(S)
           /\ Without(ItemsOf(Cut(r, j), d), ItemsOf(r, d), j)
<1>1. Len(r) \in Nat /\ DOMAIN r = 1..Len(r) /\ \A i \in 1..Len(r) : r[i] \in Entries
  BY LenProperties, ElementOfSeq
<1>2. PICK c : c = ItemsOf(r, d)
  OBVIOUS
<1>3. c \in Seq(S) /\ Len(c) = Len(r) /\ \A i \in 1..Len(r) : c[i] = d[r[i]]
  <2>1. c \in [1..Len(r) -> S] /\ \A i \in 1..Len(r) : c[i] = d[r[i]]
    BY <1>1, <1>2 DEF ItemsOf
  <2>2. QED
    BY <1>1, <2>1, IsSequence
<1>4. PICK g : g = ItemsOf(Cut(r, j), d)
  OBVIOUS
<1>5. PICK m \in Nat : m = Len(r) - 1
  <2>1. Len(r) - 1 \in Nat
    BY <1>1
  <2>2. QED
    BY <2>1
<1>6. /\ DOMAIN g = 1..m /\ g = [i \in DOMAIN g |-> g[i]]
      /\ \A i \in 1..m : g[i] = d[IF i < j THEN r[i] ELSE r[i + 1]]
  BY <1>4, <1>5 DEF ItemsOf, Cut
<1>7. \A i \in 1..m : g[i] = (IF i < j THEN c[i] ELSE c[i + 1]) /\ g[i] \in S
  BY <1>1, <1>3, <1>5, <1>6
<1>8. g \in Seq(S) /\ Len(g) = m
  <2>1. g \in [1..m -> S]
    BY <1>6, <1>7
  <2>2. QED
    BY <2>1, IsSequence
<1>9. Without(g, c, j)
  BY <1>3, <1>5, <1>7, <1>8 DEF Without
<1>10. QED
  BY <1>2, <1>3, <1>4, <1>8, <1>9

\* Two sequences with the same items.
LEMMA SameWith ==
    ASSUME NEW S, NEW a \in Seq(S), NEW b \in Seq(S), NEW c, NEW i, NEW x,
           With(a, c, i, x), With(b, c, i, x)
    PROVE  a = b
<1>1. Len(a) = Len(b) /\ \A n \in 1..Len(a) : a[n] = b[n]
  BY DEF With
<1>2. QED
  BY <1>1, SeqEqual

\* There is one sequence only that is c without its place i.
LEMMA SameWithout ==
    ASSUME NEW S, NEW a \in Seq(S), NEW b \in Seq(S), NEW c, NEW i,
           Without(a, c, i), Without(b, c, i)
    PROVE  a = b
<1>1. Len(a) = Len(b) /\ \A n \in 1..Len(a) : a[n] = b[n]
  BY DEF Without
<1>2. QED
  BY <1>1, SeqEqual

\* Behind the last place InsertAt would append.
LEMMA AppendIs ==
    ASSUME NEW S, NEW c \in Seq(S), NEW x \in S
    PROVE  Append(c, x) \in Seq(S) /\ With(Append(c, x), c, Len(c) + 1, x)
<1>1. PICK a : a = Append(c, x)
  OBVIOUS
<1>2. /\ a \in Seq(S) /\ Len(a) = Len(c) + 1 /\ Len(c) \in Nat
      /\ \A n \in 1..Len(c) : a[n] = c[n]
      /\ a[Len(c) + 1] = x
  BY <1>1, AppendProperties, LenProperties
<1>3. With(a, c, Len(c) + 1, x)
  BY <1>2 DEF With
<1>4. QED
  BY <1>1, <1>2, <1>3

\* The items of the entries there are: all different, numbered up to added. An
\* entry added to a list that only grows has none behind it.
Marks ==
    /\ kind \in {"growing", "guarded"}
    /\ \A x \in allocated : data[x] \in 1..added
    /\ \A x, y \in allocated : data[x] = data[y] => x = y
    /\ kind = "growing" /\ addPc # "idle" => next[entry] = NULL

\* What the invariant says of the list that a walk comes to.
LEMMA ReachFacts ==
    ASSUME IInv
    PROVE  /\ Reach \in Seq(Entries) /\ NoDuplicate(Reach) /\ Len(Reach) \in Nat
           /\ DOMAIN Reach = 1..Len(Reach)
           /\ \A i \in 1..Len(Reach) : Reach[i] \in Entries /\ Reach[i] \in allocated
           /\ head = Nth(Reach, 1)
           /\ \A i \in 1..Len(Reach) : next[Reach[i]] = Nth(Reach, i + 1)
           /\ current \in ToSet(Reach) \cup {NULL}
<1>1. PICK s, k : Shape(s, k)
  BY DEF IInv, ShapeInv
<1>2. Reach = Now(s, k)
  BY <1>1, ReachIsNow
<1>3. /\ Chain(Reach, head, next) /\ ToSet(Reach) \subseteq allocated
      /\ current \in ToSet(Reach) \cup {NULL}
  BY <1>1, <1>2 DEF Shape
<1>. HIDE DEF Reach
<1>4. /\ Reach \in Seq(Entries) /\ NoDuplicate(Reach)
      /\ head = Nth(Reach, 1)
      /\ \A i \in 1..Len(Reach) : next[Reach[i]] = Nth(Reach, i + 1)
  BY <1>3 DEF Chain
<1>5. /\ Len(Reach) \in Nat /\ DOMAIN Reach = 1..Len(Reach)
      /\ \A i \in 1..Len(Reach) : Reach[i] \in Entries /\ Reach[i] \in ToSet(Reach)
  BY <1>4, Distinct
<1>6. QED
  BY <1>3, <1>4, <1>5

\* Each step keeps the items apart: an entry gets a number that none has.
LEMMA MarksStep ==
    ASSUME IInv, Marks, [Next]_vars
    PROVE  Marks'
<1>1. Types
  BY DEF IInv
<1>2. added \in Nat
  BY <1>1, ListAssumption DEF Types
<1>3. ASSUME NEW e \in Entries \ allocated,
             allocated' = allocated \cup {e}, data' = [data EXCEPT ![e] = added + 1],
             added' = added + 1
      PROVE  /\ \A x \in allocated' : data'[x] \in 1..added'
             /\ \A x, y \in allocated' : data'[x] = data'[y] => x = y
  <2>1. data'[e] = added + 1 /\ \A x \in allocated : data'[x] = data[x] /\ data[x] \in 1..added
    BY <1>1, <1>3 DEF Types, Marks
  <2>2. QED
    BY <1>2, <1>3, <2>1 DEF Marks
<1>4. ASSUME allocated' \subseteq allocated, UNCHANGED <<data, added>>
      PROVE  /\ \A x \in allocated' : data'[x] \in 1..added'
             /\ \A x, y \in allocated' : data'[x] = data'[y] => x = y
  BY <1>4 DEF Marks
<1>5. ASSUME NEW c, InsertAfter(c), kind = "growing" => c = tail
      PROVE  Marks'
  <2>1. PICK e \in Entries \ allocated :
          /\ allocated' = allocated \cup {e} /\ entry' = e
          /\ data' = [data EXCEPT ![e] = added + 1]
          /\ next' = [next EXCEPT ![e] = IF c = NULL THEN NULL ELSE next[c]]
    BY <1>5 DEF InsertAfter
  <2>2. added' = added + 1 /\ kind' = kind /\ addPc = "idle"
    BY <1>5 DEF InsertAfter, Free
  <2>3. next'[e] = IF c = NULL THEN NULL ELSE next[c]
    BY <1>1, <2>1 DEF Types
  <2>4. c = tail /\ c # NULL => next[c] = NULL
    <3>1. PICK s, k : Shape(s, k)
      BY DEF IInv, ShapeInv
    <3>2. /\ s \in Seq(Entries) /\ tail = Nth(s, Len(s))
          /\ \A i \in 1..Len(s) : next[s[i]] = Nth(s, i + 1)
      BY <2>2, <3>1, Settled
    <3>3. Len(s) \in Nat
      BY <3>2, LenProperties
    <3>4. QED
      BY <3>2, <3>3 DEF Nth
  <2>5. QED
    BY <1>3, <1>5, <2>1, <2>2, <2>3, <2>4 DEF Marks
<1>6. CASE ListAdd
  BY <1>5, <1>6 DEF ListAdd
<1>7. CASE ListInsertAfterCurrent
  BY <1>5, <1>7 DEF ListInsertAfterCurrent
<1>8. CASE Link
  <2>1. next'[entry] = next[entry]
    <3>1. PICK s, k : Shape(s, k)
      BY DEF IInv, ShapeInv
    <3>2. /\ at = Nth(s, k) /\ prev[entry] = Nth(s, k) /\ entry \notin ToSet(s)
          /\ s \in Seq(Entries) /\ NoDuplicate(s)
      BY <1>8, <3>1 DEF Link, Shape, Pending
    <3>3. \A i \in 1..Len(s) : s[i] \in ToSet(s)
      BY <3>2, Distinct
    <3>4. Nth(s, k) # NULL => Nth(s, k) # entry
      BY <3>2, <3>3 DEF Nth
    <3>5. QED
      BY <1>1, <1>8, <3>2, <3>4 DEF Link, Types
  <2>2. UNCHANGED <<kind, allocated, data, added, entry>> /\ addPc = "link"
    BY <1>8 DEF Link
  <2>3. QED
    BY <1>4, <2>1, <2>2 DEF Marks
<1>9. CASE SetHead
  BY <1>4, <1>9 DEF SetHead, Marks
<1>10. CASE SetTail
  BY <1>4, <1>10 DEF SetTail, Marks
<1>11. CASE ListInsertBeforeCurrent
  <2>1. PICK e \in Entries \ allocated :
          allocated' = allocated \cup {e} /\ data' = [data EXCEPT ![e] = added + 1]
    BY <1>11, InsertBeforeInv
  <2>2. added' = added + 1 /\ kind' = kind /\ kind # "growing"
    BY <1>11 DEF ListInsertBeforeCurrent
  <2>3. QED
    BY <1>3, <2>1, <2>2 DEF Marks
<1>12. CASE ListRemove
  <2>1. allocated' \subseteq allocated /\ UNCHANGED <<kind, data, added>> /\ kind # "growing"
    BY <1>12 DEF ListRemove, Unlink
  <2>2. QED
    BY <1>4, <2>1 DEF Marks
<1>13. CASE WalkRemove
  <2>1. allocated' \subseteq allocated /\ UNCHANGED <<kind, data, added>> /\ kind # "growing"
    BY <1>13 DEF WalkRemove, Unlink
  <2>2. QED
    BY <1>4, <2>1 DEF Marks
<1>14. CASE ListFree
  <2>1. allocated' \subseteq allocated /\ UNCHANGED <<kind, data, added>> /\ kind # "growing"
    BY <1>14 DEF ListFree
  <2>2. QED
    BY <1>4, <2>1 DEF Marks
<1>15. CASE WalkInit \/ WalkEnd \/ WalkVisit \/ WalkKeep \/ WalkNext
  <2>1. UNCHANGED <<kind, list, add, added>>
    BY <1>15 DEF WalkInit, WalkEnd, WalkVisit, WalkKeep, WalkNext
  <2>2. QED
    BY <2>1 DEF Marks, list, add
<1>16. CASE UNCHANGED vars
  BY <1>16 DEF Marks, vars, list, add
<1>17. QED
  BY <1>6, <1>7, <1>8, <1>9, <1>10, <1>11, <1>12, <1>13, <1>14, <1>15, <1>16 DEF Next, Walker

\* The items of the entries that are allocated are distinct: each entry in use has
\* a number of its own, whatever was freed and allocated again.
THEOREM Marked == Spec => [](IInv /\ Marks)
<1>1. Init => Marks
  BY DEF Init, Marks
<1>2. IInv /\ Marks /\ [Next]_vars => Marks'
  BY MarksStep
<1>3. QED
  BY <1>1, <1>2, Invariance, PTL DEF Spec

----------------------------------------------------------------------------
(* Every step is a step of the sequence, or changes nothing of it.         *)

\* A step that joins the entry e to the list, with its item.
LEMMA AddsItem ==
    ASSUME IInv, IInv', Marks, Marks', UNCHANGED kind,
           NEW j \in 0..Len(Reach), NEW e \in allocated',
           e \in Entries \ ToSet(Reach), Reach' = Put(Reach, j, e),
           \A x \in ToSet(Reach) : x \in allocated' /\ data'[x] = data[x],
           kind = "growing" => j = Len(Reach)
    PROVE  Items!Next
<1>1. /\ Reach \in Seq(Entries) /\ NoDuplicate(Reach) /\ Len(Reach) \in Nat
      /\ \A i \in 1..Len(Reach) : Reach[i] \in Entries /\ Reach[i] \in allocated
  BY ReachFacts
<1>2. PICK r : r = Reach
  OBVIOUS
<1>3. \A i \in 1..Len(r) : r[i] \in ToSet(r)
  BY <1>1, <1>2, Distinct
<1>4. PICK d, f, S, x : d = data /\ f = data' /\ S = 0..MaxItems /\ x = data'[e]
  OBVIOUS
<1>5. d \in [Entries -> S] /\ f \in [Entries -> S] /\ added' \in 0..MaxItems
  BY <1>4 DEF IInv, Types
<1>6. x \in 1..MaxItems /\ x \in S
  BY <1>4, <1>5, ListAssumption DEF Marks
<1>7. \A i \in 1..Len(r) : f[r[i]] = d[r[i]]
  BY <1>2, <1>3, <1>4
<1>8. PICK c, g : c = ItemsOf(r, d) /\ g = ItemsOf(Put(r, j, e), f)
  OBVIOUS
<1>9. Contents = c /\ Contents' = g
  BY <1>2, <1>4, <1>8 DEF Contents, ItemsOf
<1>10. c \in Seq(S) /\ Len(c) = Len(r) /\ g \in Seq(S) /\ With(g, c, j + 1, x)
  <2>1. r \in Seq(Entries) /\ j \in 0..Len(r) /\ e \in Entries
    BY <1>1, <1>2
  <2>2. /\ ItemsOf(r, d) \in Seq(S) /\ Len(ItemsOf(r, d)) = Len(r)
        /\ ItemsOf(Put(r, j, e), f) \in Seq(S)
        /\ With(ItemsOf(Put(r, j, e), f), ItemsOf(r, d), j + 1, f[e])
    BY <1>5, <1>7, <2>1, PutItem
  <2>3. QED
    BY <1>4, <1>8, <2>2
<1>11. x \in 1..MaxItems \ ToSet(Contents)
  <2>1. ASSUME NEW i \in 1..Len(r) PROVE data[r[i]] # x
    <3>1. r[i] \in allocated' /\ r[i] # e /\ data'[r[i]] = data[r[i]]
      BY <1>2, <1>3
    <3>2. QED
      BY <1>4, <3>1 DEF Marks
  <2>2. DOMAIN Contents = 1..Len(r) /\ \A i \in 1..Len(r) : Contents[i] = data[r[i]]
    BY <1>1, <1>2, Distinct DEF Contents
  <2>3. QED
    BY <1>6, <2>1, <2>2 DEF ToSet
<1>12. UNCHANGED kind
  OBVIOUS
<1>13. CASE j = Len(r)
  <2>1. Append(c, x) \in Seq(S) /\ With(Append(c, x), c, j + 1, x)
    BY <1>6, <1>10, <1>13, AppendIs
  <2>2. g = Append(c, x)
    BY <1>10, <2>1, SameWith
  <2>3. Items!Add
    BY <1>9, <1>11, <2>2 DEF Items!Add, Items!New, ToSet, Items!ToSet
  <2>4. QED
    BY <1>12, <2>3 DEF Items!Next
<1>14. CASE j # Len(r)
  <2>1. j + 1 \in 1..Len(c)
    BY <1>1, <1>2, <1>10, <1>14
  <2>2. InsertAt(c, j + 1, x) \in Seq(S) /\ With(InsertAt(c, j + 1, x), c, j + 1, x)
    BY <1>6, <1>10, <2>1, InsertAtIs
  <2>3. g = InsertAt(c, j + 1, x)
    BY <1>10, <2>2, SameWith
  <2>4. j + 1 \in DOMAIN Contents
    BY <1>9, <1>10, <2>1
  <2>5. Items!Insert
    BY <1>9, <1>11, <2>3, <2>4
       DEF Items!Insert, Items!New, ToSet, Items!ToSet, InsertAt, Items!InsertAt
  <2>6. kind = "guarded"
    BY <1>2, <1>14 DEF Marks
  <2>7. QED
    BY <1>12, <2>5, <2>6 DEF Items!Next
<1>15. QED
  BY <1>13, <1>14

\* A step that takes the entry at the place j out of the list.
LEMMA TakesItem ==
    ASSUME IInv, UNCHANGED <<kind, data>>, kind = "guarded",
           NEW j \in 1..Len(Reach), Reach' = Cut(Reach, j)
    PROVE  Items!Next
<1>1. /\ Reach \in Seq(Entries) /\ Len(Reach) \in Nat
  BY ReachFacts
<1>2. PICK r, d, S : r = Reach /\ d = data /\ S = 0..MaxItems
  OBVIOUS
<1>3. d \in [Entries -> S] /\ r \in Seq(Entries) /\ j \in 1..Len(r)
  BY <1>1, <1>2 DEF IInv, Types
<1>4. PICK c, g : c = ItemsOf(r, d) /\ g = ItemsOf(Cut(r, j), d)
  OBVIOUS
<1>5. Contents = c /\ Contents' = g
  BY <1>2, <1>4 DEF Contents, ItemsOf
<1>6. c \in Seq(S) /\ Len(c) = Len(r) /\ g \in Seq(S) /\ Without(g, c, j)
  <2>1. /\ ItemsOf(r, d) \in Seq(S) /\ Len(ItemsOf(r, d)) = Len(r)
        /\ ItemsOf(Cut(r, j), d) \in Seq(S)
        /\ Without(ItemsOf(Cut(r, j), d), ItemsOf(r, d), j)
    BY <1>3, CutItem
  <2>2. QED
    BY <1>4, <2>1
<1>7. RemoveAt(c, j) \in Seq(S) /\ Without(RemoveAt(c, j), c, j)
  BY <1>3, <1>6, RemoveAtIs
<1>8. g = RemoveAt(c, j)
  BY <1>6, <1>7, SameWithout
<1>9. j \in DOMAIN Contents
  BY <1>3, <1>5, <1>6
<1>10. Items!TakeOut
  BY <1>5, <1>8, <1>9 DEF Items!TakeOut, RemoveAt, Items!RemoveAt
<1>11. QED
  BY <1>10 DEF Items!Next

\* A step that changes no item, or none of the entries of the list.
LEMMA SameItems ==
    ASSUME IInv, Reach' = Reach, kind' = kind,
           \A x \in ToSet(Reach) : data'[x] = data[x]
    PROVE  UNCHANGED Items!vars
<1>1. Reach \in Seq(Entries) /\ NoDuplicate(Reach)
  BY ReachFacts
<1>2. PICK r : r = Reach
  OBVIOUS
<1>3. DOMAIN r = 1..Len(r) /\ \A i \in 1..Len(r) : r[i] \in ToSet(r)
  BY <1>1, <1>2, Distinct
<1>4. Contents' = Contents
  BY <1>2, <1>3 DEF Contents
<1>5. QED
  BY <1>4 DEF Items!vars

\* The entry given out by calloc is none of the list.
LEMMA NewEntry ==
    ASSUME IInv, NEW e \in Entries \ allocated, data' = [data EXCEPT ![e] = added + 1]
    PROVE  e \notin ToSet(Reach) /\ \A x \in ToSet(Reach) : data'[x] = data[x]
<1>1. Reach \in Seq(Entries) /\ NoDuplicate(Reach) /\ \A i \in 1..Len(Reach) : Reach[i] \in allocated
  BY ReachFacts
<1>2. \A x \in ToSet(Reach) : x \in allocated
  BY <1>1, Distinct
<1>3. data \in [Entries -> 0..MaxItems] /\ allocated \subseteq Entries
  BY DEF IInv, Types
<1>4. QED
  BY <1>2, <1>3

\* Linking joins the new entry at the end, in a list that only grows.
LEMMA JoinsItem ==
    ASSUME IInv, IInv', Marks, Marks', Joins, addPc # "idle",
           UNCHANGED <<kind, data, allocated>>
    PROVE  Items!Next
<1>1. PICK j \in 0..Len(Reach) :
        /\ Reach' = Put(Reach, j, entry)
        /\ entry \in allocated \ ToSet(Reach) /\ next[entry] = Nth(Reach, j + 1)
  BY DEF Joins
<1>2. /\ Reach \in Seq(Entries) /\ NoDuplicate(Reach) /\ Len(Reach) \in Nat
      /\ \A i \in 1..Len(Reach) : Reach[i] \in Entries /\ Reach[i] \in allocated
  BY ReachFacts
<1>3. \A x \in ToSet(Reach) : x \in allocated' /\ data'[x] = data[x]
  BY <1>2, Distinct
<1>4. kind = "growing" => j = Len(Reach)
  <2>1. kind = "growing" => Nth(Reach, j + 1) = NULL
    BY <1>1 DEF Marks
  <2>2. j # Len(Reach) => j + 1 \in 1..Len(Reach)
    BY <1>2
  <2>3. j # Len(Reach) => Nth(Reach, j + 1) # NULL
    BY <1>2, <2>2, ListAssumption DEF Nth
  <2>4. QED
    BY <2>1, <2>3
<1>5. entry \in allocated' /\ entry \in Entries \ ToSet(Reach)
  BY <1>1 DEF IInv, Types
<1>6. QED
  BY <1>1, <1>3, <1>4, <1>5, AddsItem

\* Each step of the list is a step of the sequence of its items, or none.
LEMMA StepImplements ==
    ASSUME IInv, IInv', Marks, Marks', [Next]_vars
    PROVE  [Items!Next]_(Items!vars)
<1>1. ASSUME NEW c \in ToSet(Reach) \cup {tail}, InsertAfter(c)
      PROVE  UNCHANGED Items!vars
  <2>1. PICK e \in Entries \ allocated : data' = [data EXCEPT ![e] = added + 1]
    BY <1>1 DEF InsertAfter
  <2>2. Reach' = Reach /\ kind' = kind
    BY <1>1, InsertAfterInv DEF InsertAfter
  <2>3. QED
    BY <2>1, <2>2, NewEntry, SameItems
<1>2. CASE ListAdd
  BY <1>1, <1>2 DEF ListAdd
<1>3. CASE ListInsertAfterCurrent
  BY <1>1, <1>3 DEF ListInsertAfterCurrent
<1>4. CASE Link
  <2>1. UNCHANGED <<kind, data, allocated>> /\ addPc # "idle" /\ (Reach' = Reach \/ Joins)
    BY <1>4, LinkInv DEF Link
  <2>2. QED
    BY <2>1, JoinsItem, SameItems
<1>5. CASE SetHead
  <2>1. UNCHANGED <<kind, data, allocated>> /\ addPc # "idle" /\ (Reach' = Reach \/ Joins)
    BY <1>5, SetHeadInv DEF SetHead
  <2>2. QED
    BY <2>1, JoinsItem, SameItems
<1>6. CASE SetTail
  <2>1. UNCHANGED <<kind, data>> /\ Reach' = Reach
    BY <1>6, SetTailInv DEF SetTail
  <2>2. QED
    BY <2>1, SameItems
<1>7. CASE ListInsertBeforeCurrent
  <2>1. PICK e \in Entries \ allocated, j \in 0..Len(Reach) :
          /\ allocated' = allocated \cup {e} /\ data' = [data EXCEPT ![e] = added + 1]
          /\ Reach' = Put(Reach, j, e)
    BY <1>7, InsertBeforeInv
  <2>2. kind' = kind /\ kind # "growing"
    BY <1>7 DEF ListInsertBeforeCurrent
  <2>3. e \notin ToSet(Reach) /\ \A x \in ToSet(Reach) : data'[x] = data[x]
    BY <2>1, NewEntry
  <2>4. \A x \in ToSet(Reach) : x \in allocated'
    <3>1. /\ Reach \in Seq(Entries) /\ NoDuplicate(Reach)
          /\ \A i \in 1..Len(Reach) : Reach[i] \in allocated
      BY ReachFacts
    <3>2. QED
      BY <2>1, <3>1, Distinct
  <2>5. e \in allocated' /\ e \in Entries \ ToSet(Reach)
    BY <2>1, <2>3
  <2>6. QED
    BY <2>1, <2>2, <2>3, <2>4, <2>5, AddsItem
<1>8. CASE ListRemove
  <2>1. UNCHANGED <<kind, data>> /\ kind = "guarded"
    BY <1>8 DEF ListRemove, Unlink
  <2>2. QED
    BY <1>8, <2>1, ListRemoveInv, TakesItem
<1>9. CASE WalkRemove
  <2>1. UNCHANGED <<kind, data>> /\ kind = "guarded"
    BY <1>9 DEF WalkRemove, Unlink
  <2>2. QED
    BY <1>9, <2>1, WalkRemoveInv, TakesItem
<1>10. CASE ListFree
  <2>1. UNCHANGED kind /\ kind = "guarded"
    BY <1>10 DEF ListFree
  <2>2. Reach' = <<>>
    BY <1>10, ListFreeInv
  <2>3. Contents' = <<>>
    BY <2>2 DEF Contents
  <2>4. QED
    BY <2>1, <2>3 DEF Items!Next, Items!Free
<1>11. CASE WalkInit \/ WalkEnd \/ WalkVisit \/ WalkKeep \/ WalkNext
  <2>1. UNCHANGED <<kind, data>>
    BY <1>11 DEF WalkInit, WalkEnd, WalkVisit, WalkKeep, WalkNext, list
  <2>2. QED
    BY <1>11, <2>1, WalkerInv, SameItems
<1>12. CASE UNCHANGED vars
  <2>1. UNCHANGED <<kind, data>> /\ Reach' = Reach
    BY <1>12 DEF vars, list, Reach
  <2>2. QED
    BY <2>1, SameItems
<1>13. QED
  BY <1>2, <1>3, <1>4, <1>5, <1>6, <1>7, <1>8, <1>9, <1>10, <1>11, <1>12 DEF Next, Walker

\* The list of pointers is a sequence of items for whoever reads next: each call
\* takes effect at one store, and in a list that only grows an item keeps its
\* place.
THEOREM ListIsSequence == Spec => ImplementsItemList
<1>1. Init => Items!Init
  <2>. SUFFICES ASSUME Init PROVE Items!Init
    OBVIOUS
  <2>1. IInv
    BY InitInv
  <2>2. Reach \in Seq(Entries) /\ head = Nth(Reach, 1) /\ head = NULL
    BY <2>1, ReachFacts DEF Init
  <2>3. Reach = <<>>
    <3>1. Len(Reach) \in Nat /\ \A i \in 1..Len(Reach) : Reach[i] \in Entries
      BY <2>1, ReachFacts
    <3>2. Len(Reach) = 0
      BY <2>2, <3>1, ListAssumption DEF Nth
    <3>3. QED
      BY <2>2, <3>2, EmptySeq
  <2>4. Contents = <<>>
    BY <2>3 DEF Contents
  <2>5. QED
    BY <2>4 DEF Init, Items!Init
<1>2. IInv /\ Marks /\ IInv' /\ Marks' /\ [Next]_vars => [Items!Next]_(Items!vars)
  BY StepImplements
<1>3. QED
  BY <1>1, <1>2, Marked, PTL DEF Spec, ImplementsItemList, Items!Spec

----------------------------------------------------------------------------
(* What a walk comes to.                                                   *)

Numbers == 0..MaxItems

\* A list that only grows: the walk stands behind the items that it has seen.
GrowingWalk ==
    /\ Len(seen) <= Len(Reach) /\ Len(start) <= Len(Reach)
    /\ \A i \in 1..Len(seen) : seen[i] = data[Reach[i]]
    /\ \A i \in 1..Len(start) : start[i] = data[Reach[i]]
    /\ walkPc = "more" => \/ current = Nth(Reach, Len(seen) + 1)
                          \/ current = NULL /\ Len(start) <= Len(seen)
    /\ walkPc \in {"body", "next"} => Len(seen) >= 1 /\ current = Reach[Len(seen)]

\* The item i has been come to, or is the one behind a removed one.
Done(i) == start[i] \in ToSet(seen) \/ (i > 1 /\ start[i-1] \in removed)

\* A list under the lock: from the place q, where the walk stands, on, it still
\* is what it was from the place p on.
GuardedWalk(p, q) ==
    /\ p \in 1..Len(start) + 1 /\ q \in 1..Len(Reach) + 1
    /\ Len(Reach) - q = Len(start) - p
    /\ current = Nth(Reach, q)
    /\ \A i \in p..Len(start) : start[i] = data[Reach[q + (i - p)]]
    /\ \A i \in 1..Len(start) : i < p \/ (i = p /\ walkPc # "more") => Done(i)

WalkInv ==
    /\ seen \in Seq(Numbers) /\ start \in Seq(Numbers)
    /\ kind = "growing" => GrowingWalk
    /\ kind = "guarded" /\ walkPc # "idle" => \E p, q : GuardedWalk(p, q)

LEMMA InitWalkInv == Init => WalkInv
<1>. SUFFICES ASSUME Init PROVE WalkInv
  OBVIOUS
<1>1. <<>> \in Seq(Numbers) /\ Len(<<>>) = 0
  BY EmptySeq
<1>2. seen = <<>> /\ start = <<>> /\ walkPc = "idle"
  BY DEF Init
<1>3. Len(Reach) \in Nat
  BY InitInv, ReachFacts
<1>4. GrowingWalk
  BY <1>1, <1>2, <1>3 DEF GrowingWalk
<1>5. QED
  BY <1>1, <1>2, <1>4 DEF WalkInv

\* What a step that adds leaves to a walk without a lock.
LEMMA GrowingStep ==
    ASSUME IInv, WalkInv, kind = "growing", kind' = kind, UNCHANGED walk,
           Len(Reach') \in Nat, Len(Reach) <= Len(Reach'),
           \A i \in 1..Len(Reach) : Reach'[i] = Reach[i] /\ data'[Reach[i]] = data[Reach[i]]
    PROVE  WalkInv'
<1>1. UNCHANGED <<walkPc, current, start, seen, removed>>
  BY DEF walk
<1>2. /\ Len(Reach) \in Nat /\ Len(seen) \in Nat /\ Len(start) \in Nat
      /\ GrowingWalk /\ seen \in Seq(Numbers) /\ start \in Seq(Numbers)
  BY ReachFacts, LenProperties DEF WalkInv
<1>3. PICK r, t : r = Reach /\ t = Reach'
  OBVIOUS
<1>4. /\ Len(seen) <= Len(t) /\ Len(start) <= Len(t)
      /\ \A i \in 1..Len(seen) : seen[i] = data'[t[i]]
      /\ \A i \in 1..Len(start) : start[i] = data'[t[i]]
  <2>1. /\ Len(seen) <= Len(Reach) /\ Len(start) <= Len(Reach)
        /\ \A i \in 1..Len(seen) : seen[i] = data[Reach[i]]
        /\ \A i \in 1..Len(start) : start[i] = data[Reach[i]]
    BY <1>2 DEF GrowingWalk
  <2>2. Len(t) \in Nat /\ Len(Reach) <= Len(t)
    BY <1>3
  <2>3. \A i \in 1..Len(Reach) : data'[t[i]] = data[Reach[i]]
    BY <1>3
  <2>4. ASSUME NEW i \in 1..Len(seen) PROVE seen[i] = data'[t[i]]
    <3>1. i \in 1..Len(Reach)
      BY <1>2, <2>1
    <3>2. QED
      BY <2>1, <2>3, <3>1
  <2>5. ASSUME NEW i \in 1..Len(start) PROVE start[i] = data'[t[i]]
    <3>1. i \in 1..Len(Reach)
      BY <1>2, <2>1
    <3>2. QED
      BY <2>1, <2>3, <3>1
  <2>6. Len(seen) <= Len(t) /\ Len(start) <= Len(t)
    BY <1>2, <2>1, <2>2
  <2>7. QED
    BY <2>4, <2>5, <2>6
<1>5. walkPc = "more" => \/ current = Nth(t, Len(seen) + 1)
                         \/ current = NULL /\ Len(start) <= Len(seen)
  <2>1. CASE Len(seen) < Len(r)
    <3>1. Nth(t, Len(seen) + 1) = Nth(r, Len(seen) + 1)
      BY <1>2, <1>3, <2>1 DEF Nth
    <3>2. QED
      BY <1>2, <1>3, <3>1 DEF GrowingWalk
  <2>2. CASE Len(seen) = Len(r)
    <3>1. Nth(r, Len(seen) + 1) = NULL /\ Len(start) <= Len(seen)
      BY <1>2, <1>3, <2>2 DEF Nth, GrowingWalk
    <3>2. QED
      BY <1>2, <1>3, <3>1 DEF GrowingWalk
  <2>3. QED
    BY <1>2, <1>3, <2>1, <2>2 DEF GrowingWalk
<1>6. walkPc \in {"body", "next"} => Len(seen) >= 1 /\ current = t[Len(seen)]
  <2>1. Len(seen) >= 1 => t[Len(seen)] = r[Len(seen)]
    BY <1>2, <1>3 DEF GrowingWalk
  <2>2. QED
    BY <1>2, <1>3, <2>1 DEF GrowingWalk
<1>7. GrowingWalk'
  BY <1>1, <1>3, <1>4, <1>5, <1>6 DEF GrowingWalk
<1>8. QED
  BY <1>1, <1>2, <1>7 DEF WalkInv

\* What the walk's own steps that change no entry lead to.
LEMMA WalkInitStep ==
    ASSUME IInv, Marks, WalkInv, WalkInit
    PROVE  WalkInv'
<1>1. /\ current' = head /\ walkPc' = "more" /\ start' = Contents /\ seen' = <<>>
      /\ kind' = kind /\ data' = data /\ head' = head /\ next' = next
  BY DEF WalkInit, list
<1>2. /\ Reach \in Seq(Entries) /\ Len(Reach) \in Nat /\ DOMAIN Reach = 1..Len(Reach)
      /\ \A i \in 1..Len(Reach) : Reach[i] \in Entries
      /\ head = Nth(Reach, 1)
  BY ReachFacts
<1>3. Reach' = Reach
  BY <1>1 DEF Reach
<1>4. /\ start' \in Seq(Numbers) /\ Len(start') = Len(Reach)
      /\ \A i \in 1..Len(Reach) : start'[i] = data[Reach[i]]
  <2>1. data \in [Entries -> Numbers]
    BY DEF IInv, Types, Numbers
  <2>2. Contents \in [1..Len(Reach) -> Numbers] /\ \A i \in 1..Len(Reach) : Contents[i] = data[Reach[i]]
    BY <1>2, <2>1 DEF Contents
  <2>3. QED
    BY <1>1, <1>2, <2>2, IsSequence
<1>5. <<>> \in Seq(Numbers) /\ Len(<<>>) = 0
  BY EmptySeq
<1>6. GrowingWalk'
  BY <1>1, <1>2, <1>3, <1>4, <1>5 DEF GrowingWalk
<1>7. GuardedWalk(1, 1)'
  BY <1>1, <1>2, <1>3, <1>4 DEF GuardedWalk
<1>8. QED
  BY <1>1, <1>4, <1>5, <1>6, <1>7 DEF WalkInv

\* A walk that comes to an item has seen it in its place.
LEMMA WalkVisitStep ==
    ASSUME IInv, Marks, WalkInv, WalkVisit
    PROVE  WalkInv'
<1>1. /\ walkPc = "more" /\ current # NULL /\ walkPc' = "body"
      /\ seen' = Append(seen, data[current])
      /\ UNCHANGED <<kind, head, next, data, current, start, removed>>
  BY DEF WalkVisit, list
<1>2. /\ Reach \in Seq(Entries) /\ Len(Reach) \in Nat
      /\ \A i \in 1..Len(Reach) : Reach[i] \in Entries
  BY ReachFacts
<1>3. Reach' = Reach
  BY <1>1 DEF Reach
<1>4. seen \in Seq(Numbers) /\ start \in Seq(Numbers) /\ Len(seen) \in Nat /\ Len(start) \in Nat
  BY LenProperties DEF WalkInv
<1>5. data[current] \in Numbers
  BY <1>1 DEF IInv, Types, Pointers, Numbers
<1>6. /\ seen' \in Seq(Numbers) /\ Len(seen') = Len(seen) + 1
      /\ \A i \in 1..Len(seen) : seen'[i] = seen[i]
      /\ seen'[Len(seen) + 1] = data[current]
  BY <1>1, <1>4, <1>5, AppendProperties
<1>7. CASE kind = "growing"
  <2>1. GrowingWalk
    BY <1>7 DEF WalkInv
  <2>2. current = Nth(Reach, Len(seen) + 1)
    BY <1>1, <2>1 DEF GrowingWalk
  <2>3. Len(seen) + 1 <= Len(Reach) /\ current = Reach[Len(seen) + 1]
    BY <1>1, <1>2, <1>4, <2>2 DEF Nth
  <2>4. \A i \in 1..Len(seen) + 1 : seen'[i] = data[Reach[i]]
    <3>1. \A i \in 1..Len(seen) : seen[i] = data[Reach[i]]
      BY <2>1 DEF GrowingWalk
    <3>2. seen'[Len(seen) + 1] = data[Reach[Len(seen) + 1]]
      BY <1>6, <2>3
    <3>3. QED
      BY <1>4, <1>6, <3>1, <3>2
  <2>5. GrowingWalk'
    BY <1>1, <1>2, <1>3, <1>4, <1>6, <2>1, <2>3, <2>4 DEF GrowingWalk
  <2>6. QED
    BY <1>1, <1>4, <1>6, <1>7, <2>5 DEF WalkInv
<1>8. CASE kind = "guarded"
  <2>1. PICK p, q : GuardedWalk(p, q)
    BY <1>1, <1>8 DEF WalkInv
  <2>2. q <= Len(Reach) /\ p <= Len(start) /\ start[p] = data[current]
    <3>1. q \in 1..Len(Reach) /\ current = Reach[q]
      BY <1>1, <2>1 DEF GuardedWalk, Nth
    <3>2. p \in p..Len(start) /\ q + (p - p) = q
      BY <1>2, <1>4, <2>1, <3>1 DEF GuardedWalk
    <3>3. QED
      BY <2>1, <3>1, <3>2 DEF GuardedWalk
  <2>3. ToSet(seen) \cup {data[current]} \subseteq ToSet(seen')
    <3>1. DOMAIN seen = 1..Len(seen) /\ DOMAIN seen' = 1..Len(seen) + 1
      BY <1>4, <1>6, LenProperties
    <3>2. QED
      BY <1>4, <1>6, <3>1 DEF ToSet
  <2>4. \A i \in 1..Len(start) : i < p \/ i = p => Done(i)'
    BY <1>1, <2>1, <2>2, <2>3 DEF GuardedWalk, Done
  <2>5. GuardedWalk(p, q)'
    BY <1>1, <1>3, <2>1, <2>4 DEF GuardedWalk
  <2>6. QED
    BY <1>1, <1>4, <1>6, <1>8, <2>5 DEF WalkInv
<1>9. QED
  BY <1>7, <1>8 DEF Marks

\* A walk that keeps the item stays where it is.
LEMMA WalkKeepStep ==
    ASSUME IInv, Marks, WalkInv, WalkKeep
    PROVE  WalkInv'
<1>1. /\ walkPc = "body" /\ walkPc' = "next"
      /\ UNCHANGED <<kind, head, next, data, current, start, seen, removed>>
  BY DEF WalkKeep, list
<1>2. Reach' = Reach
  BY <1>1 DEF Reach
<1>3. GrowingWalk => GrowingWalk'
  BY <1>1, <1>2 DEF GrowingWalk
<1>4. ASSUME NEW p, NEW q, GuardedWalk(p, q) PROVE GuardedWalk(p, q)'
  BY <1>1, <1>2, <1>4 DEF GuardedWalk, Done
<1>5. QED
  BY <1>1, <1>3, <1>4 DEF WalkInv

\* A walk goes on to the next entry, and passes over none.
LEMMA WalkNextStep ==
    ASSUME IInv, Marks, WalkInv, WalkNext
    PROVE  WalkInv'
<1>1. /\ walkPc = "next" /\ walkPc' = "more"
      /\ current' = IF current = NULL THEN NULL ELSE next[current]
      /\ UNCHANGED <<kind, head, next, data, start, seen, removed>>
  BY DEF WalkNext, list
<1>2. /\ Reach \in Seq(Entries) /\ Len(Reach) \in Nat
      /\ \A i \in 1..Len(Reach) : Reach[i] \in Entries /\ Reach[i] # NULL
      /\ \A i \in 1..Len(Reach) : next[Reach[i]] = Nth(Reach, i + 1)
  BY ReachFacts, ListAssumption
<1>3. Reach' = Reach
  BY <1>1 DEF Reach
<1>4. seen \in Seq(Numbers) /\ start \in Seq(Numbers) /\ Len(seen) \in Nat /\ Len(start) \in Nat
  BY LenProperties DEF WalkInv
<1>5. CASE kind = "growing"
  <2>1. GrowingWalk
    BY <1>5 DEF WalkInv
  <2>2. Len(seen) \in 1..Len(Reach) /\ current = Reach[Len(seen)]
    BY <1>1, <1>2, <1>4, <2>1 DEF GrowingWalk
  <2>3. current' = Nth(Reach, Len(seen) + 1)
    BY <1>1, <1>2, <2>2
  <2>4. GrowingWalk'
    BY <1>1, <1>3, <2>1, <2>3 DEF GrowingWalk
  <2>5. QED
    BY <1>1, <1>4, <1>5, <2>4 DEF WalkInv
<1>6. CASE kind = "guarded"
  <2>1. PICK p, q : GuardedWalk(p, q)
    BY <1>1, <1>6 DEF WalkInv
  <2>2. CASE current = NULL
    <3>1. current' = Nth(Reach, q)
      BY <1>1, <2>1, <2>2 DEF GuardedWalk
    <3>2. GuardedWalk(p, q)'
      BY <1>1, <1>3, <2>1, <3>1 DEF GuardedWalk, Done
    <3>3. QED
      BY <1>1, <1>4, <1>6, <3>2 DEF WalkInv
  <2>3. CASE current # NULL
    <3>1. q \in 1..Len(Reach) /\ current = Reach[q] /\ p \in 1..Len(start)
      <4>1. q \in 1..Len(Reach) /\ current = Reach[q]
        BY <2>1, <2>3 DEF GuardedWalk, Nth
      <4>2. QED
        BY <1>2, <1>4, <2>1, <4>1 DEF GuardedWalk
    <3>2. current' = Nth(Reach, q + 1)
      BY <1>1, <1>2, <2>3, <3>1
    <3>3. \A i \in p + 1..Len(start) : start[i] = data[Reach[(q + 1) + (i - (p + 1))]]
      <4>1. ASSUME NEW i \in p + 1..Len(start)
            PROVE  i \in p..Len(start) /\ (q + 1) + (i - (p + 1)) = q + (i - p)
        BY <1>2, <1>4, <3>1
      <4>2. QED
        BY <2>1, <4>1 DEF GuardedWalk
    <3>4. \A i \in 1..Len(start) : i < p + 1 => Done(i)
      BY <1>1, <1>4, <2>1, <3>1 DEF GuardedWalk
    <3>5. /\ p + 1 \in 1..Len(start) + 1 /\ q + 1 \in 1..Len(Reach) + 1
          /\ Len(Reach) - (q + 1) = Len(start) - (p + 1)
      BY <1>2, <1>4, <2>1, <3>1 DEF GuardedWalk
    <3>6. GuardedWalk(p + 1, q + 1)'
      BY <1>1, <1>3, <3>2, <3>3, <3>4, <3>5 DEF GuardedWalk, Done
    <3>7. QED
      BY <1>1, <1>4, <1>6, <3>6 DEF WalkInv
  <2>4. QED
    BY <2>2, <2>3
<1>7. QED
  BY <1>5, <1>6 DEF Marks

\* A walk that removes the item where it stands skips the one behind it only.
LEMMA WalkRemoveStep ==
    ASSUME IInv, Marks, WalkInv, WalkRemove
    PROVE  WalkInv'
<1>1. /\ walkPc = "body" /\ walkPc' = "next" /\ kind = "guarded" /\ kind' = kind
      /\ removed' = removed \cup {data[current]} /\ current' = next[current]
      /\ UNCHANGED <<data, start, seen>>
  BY DEF WalkRemove, Unlink
<1>2. /\ Reach \in Seq(Entries) /\ NoDuplicate(Reach) /\ Len(Reach) \in Nat
      /\ \A i \in 1..Len(Reach) : next[Reach[i]] = Nth(Reach, i + 1)
      /\ \A i \in 1..Len(Reach) : Reach[i] \in Entries
      /\ DOMAIN Reach = 1..Len(Reach)
  BY ReachFacts
<1>3. seen \in Seq(Numbers) /\ start \in Seq(Numbers) /\ Len(seen) \in Nat /\ Len(start) \in Nat
  BY LenProperties DEF WalkInv
<1>4. PICK j \in 1..Len(Reach) : current = Reach[j] /\ Reach' = Cut(Reach, j)
  BY WalkRemoveInv
<1>5. PICK p, q : GuardedWalk(p, q)
  BY <1>1 DEF WalkInv
<1>6. current # NULL
  BY <1>1 DEF IInv, Walking
<1>7. q = j /\ p \in 1..Len(start) /\ start[p] = data[current]
  <2>1. q \in 1..Len(Reach) /\ current = Reach[q]
    BY <1>5, <1>6 DEF GuardedWalk, Nth
  <2>2. q = j
    BY <1>2, <1>4, <2>1 DEF NoDuplicate
  <2>3. p \in 1..Len(start) /\ p \in p..Len(start) /\ q + (p - p) = q
    BY <1>2, <1>3, <1>5, <2>1 DEF GuardedWalk
  <2>4. QED
    BY <1>5, <2>1, <2>2, <2>3 DEF GuardedWalk
<1>8. PICK r, c : r = Reach /\ c = Cut(Reach, j)
  OBVIOUS
<1>9. /\ Len(c) = Len(r) - 1
      /\ \A i \in 1..Len(r) - 1 : c[i] = IF i < j THEN r[i] ELSE r[i + 1]
  <2>1. Len(c) = Len(r) - 1
    BY <1>2, <1>8, CutSequence
  <2>2. QED
    BY <1>8, <2>1 DEF Cut
<1>10. current' = Nth(c, j)
  <2>1. current' = Nth(r, j + 1)
    BY <1>1, <1>2, <1>4, <1>8
  <2>2. QED
    BY <1>2, <1>8, <1>9, <2>1 DEF Nth
<1>11. /\ p + 1 \in 1..Len(start) + 1 /\ j \in 1..Len(c) + 1
       /\ Len(c) - j = Len(start) - (p + 1)
  BY <1>2, <1>3, <1>5, <1>7, <1>8, <1>9 DEF GuardedWalk
<1>12. \A i \in p + 1..Len(start) : start[i] = data[c[j + (i - (p + 1))]]
  <2>1. ASSUME NEW i \in p + 1..Len(start) PROVE start[i] = data[c[j + (i - (p + 1))]]
    <3>1. /\ i \in p..Len(start) /\ j + (i - (p + 1)) \in 1..Len(r) - 1
          /\ ~(j + (i - (p + 1)) < j) /\ (j + (i - (p + 1))) + 1 = q + (i - p)
      BY <1>2, <1>3, <1>5, <1>7, <1>8 DEF GuardedWalk
    <3>2. c[j + (i - (p + 1))] = r[q + (i - p)]
      BY <1>9, <3>1
    <3>3. QED
      BY <1>5, <1>8, <3>1, <3>2 DEF GuardedWalk
  <2>2. QED
    BY <2>1
<1>13. \A i \in 1..Len(start) : i < p + 1 \/ i = p + 1 => Done(i)'
  <2>1. \A i \in 1..Len(start) : i <= p => Done(i)
    BY <1>1, <1>3, <1>5, <1>7 DEF GuardedWalk
  <2>2. \A i \in 1..Len(start) : Done(i) => Done(i)'
    BY <1>1 DEF Done
  <2>3. ASSUME p + 1 \in 1..Len(start) PROVE Done(p + 1)'
    BY <1>1, <1>7 DEF Done
  <2>4. QED
    BY <1>3, <1>7, <2>1, <2>2, <2>3
<1>14. GuardedWalk(p + 1, j)'
  BY <1>1, <1>4, <1>8, <1>10, <1>11, <1>12, <1>13 DEF GuardedWalk
<1>15. QED
  BY <1>1, <1>3, <1>14 DEF WalkInv

\* The new entry stands behind every entry of a list that only grows.
LEMMA JoinsBehind ==
    ASSUME IInv, Marks, WalkInv, kind = "growing", Joins \/ Reach' = Reach, addPc # "idle",
           UNCHANGED <<kind, data, walk>>
    PROVE  WalkInv'
<1>1. /\ Reach \in Seq(Entries) /\ NoDuplicate(Reach) /\ Len(Reach) \in Nat
      /\ \A i \in 1..Len(Reach) : Reach[i] \in Entries
  BY ReachFacts
<1>2. CASE Reach' = Reach
  BY <1>1, <1>2, GrowingStep
<1>3. CASE Joins
  <2>1. PICK j \in 0..Len(Reach) :
          /\ Reach' = Put(Reach, j, entry)
          /\ entry \in allocated \ ToSet(Reach) /\ next[entry] = Nth(Reach, j + 1)
    BY <1>3 DEF Joins
  <2>2. j = Len(Reach)
    <3>1. Nth(Reach, j + 1) = NULL
      BY <2>1 DEF Marks
    <3>2. j # Len(Reach) => j + 1 \in 1..Len(Reach)
      BY <1>1
    <3>3. j # Len(Reach) => Nth(Reach, j + 1) # NULL
      BY <1>1, <3>2, ListAssumption DEF Nth
    <3>4. QED
      BY <3>1, <3>3
  <2>3. entry \in Entries \ ToSet(Reach)
    BY <2>1 DEF IInv, Types
  <2>4. PICK r, t : r = Reach /\ t = Reach'
    OBVIOUS
  <2>5. Len(t) = Len(r) + 1 /\ \A i \in 1..Len(r) : t[i] = r[i]
    <3>1. Len(t) = Len(r) + 1
      BY <1>1, <2>1, <2>3, <2>4, PutSequence
    <3>2. \A i \in 1..Len(r) + 1 : t[i] = IF i <= j THEN r[i]
                                           ELSE IF i = j + 1 THEN entry ELSE r[i - 1]
      BY <2>1, <2>4 DEF Put
    <3>3. QED
      BY <1>1, <2>2, <2>4, <3>1, <3>2
  <2>6. Len(Reach') \in Nat /\ Len(Reach) <= Len(Reach')
    BY <1>1, <2>4, <2>5
  <2>7. QED
    BY <2>4, <2>5, <2>6, GrowingStep
<1>4. QED
  BY <1>2, <1>3

\* Each step of the list or of the walk keeps what the walk comes to.
LEMMA WalkInvStep ==
    ASSUME IInv, Marks, WalkInv, [Next]_vars
    PROVE  WalkInv'
<1>1. kind \in {"growing", "guarded"}
  BY DEF Marks
\* what happens while no walk is on its way
<1>2. ASSUME walkPc = "idle", kind = "guarded", kind' = kind, UNCHANGED walk
      PROVE  WalkInv'
  <2>1. UNCHANGED <<walkPc, seen, start>>
    BY <1>2 DEF walk
  <2>2. QED
    BY <1>2, <2>1 DEF WalkInv
<1>3. CASE ListAdd
  <2>1. InsertAfter(tail) /\ kind' = kind /\ UNCHANGED walk
    BY <1>3 DEF ListAdd, InsertAfter
  <2>2. CASE kind = "guarded"
    BY <1>2, <2>1, <2>2 DEF InsertAfter, Free
  <2>3. CASE kind = "growing"
    <3>1. PICK e \in Entries \ allocated : data' = [data EXCEPT ![e] = added + 1]
      BY <2>1 DEF InsertAfter
    <3>2. Reach' = Reach
      BY <2>1, InsertAfterInv
    <3>3. /\ Reach \in Seq(Entries) /\ NoDuplicate(Reach) /\ Len(Reach) \in Nat
      BY ReachFacts
    <3>4. \A i \in 1..Len(Reach) : data'[Reach[i]] = data[Reach[i]]
      BY <3>1, <3>3, NewEntry, Distinct
    <3>5. QED
      BY <2>1, <2>3, <3>2, <3>3, <3>4, GrowingStep
  <2>4. QED
    BY <1>1, <2>2, <2>3
<1>4. CASE ListInsertAfterCurrent
  BY <1>2, <1>4 DEF ListInsertAfterCurrent, InsertAfter, Free
<1>5. CASE Link \/ SetHead \/ SetTail
  <2>1. UNCHANGED <<kind, data, walk>> /\ addPc # "idle"
    BY <1>5 DEF Link, SetHead, SetTail
  <2>2. Joins \/ Reach' = Reach
    BY <1>5, LinkInv, SetHeadInv, SetTailInv
  <2>3. kind = "guarded" => walkPc = "idle"
    BY <2>1 DEF IInv, Walking
  <2>4. QED
    BY <1>1, <1>2, <2>1, <2>2, <2>3, JoinsBehind
<1>6. CASE ListInsertBeforeCurrent
  BY <1>2, <1>6 DEF ListInsertBeforeCurrent, Free
<1>7. CASE ListRemove
  BY <1>2, <1>7 DEF ListRemove, Free
<1>8. CASE ListFree
  BY <1>2, <1>8 DEF ListFree, Free
<1>9. CASE WalkInit
  BY <1>9, WalkInitStep
<1>10. CASE WalkEnd
  <2>1. /\ walkPc = "more" /\ walkPc' = "idle"
        /\ UNCHANGED <<kind, head, next, data, current, start, seen, removed>>
    BY <1>10 DEF WalkEnd, list
  <2>2. Reach' = Reach
    BY <2>1 DEF Reach
  <2>3. GrowingWalk => GrowingWalk'
    BY <2>1, <2>2 DEF GrowingWalk
  <2>4. QED
    BY <2>1, <2>3 DEF WalkInv
<1>11. CASE WalkVisit
  BY <1>11, WalkVisitStep
<1>12. CASE WalkRemove
  BY <1>12, WalkRemoveStep
<1>13. CASE WalkKeep
  BY <1>13, WalkKeepStep
<1>14. CASE WalkNext
  BY <1>14, WalkNextStep
<1>15. CASE UNCHANGED vars
  <2>1. UNCHANGED <<kind, head, next, data, walkPc, current, start, seen, removed>>
    BY <1>15 DEF vars, list, walk
  <2>2. Reach' = Reach
    BY <2>1 DEF Reach
  <2>3. GrowingWalk => GrowingWalk'
    BY <2>1, <2>2 DEF GrowingWalk
  <2>4. ASSUME NEW p, NEW q, GuardedWalk(p, q) PROVE GuardedWalk(p, q)'
    BY <2>1, <2>2, <2>4 DEF GuardedWalk, Done
  <2>5. QED
    BY <2>1, <2>3, <2>4 DEF WalkInv
<1>16. QED
  BY <1>3, <1>4, <1>5, <1>6, <1>7, <1>8, <1>9, <1>10, <1>11, <1>12, <1>13, <1>14, <1>15
     DEF Next, Walker

\* A sequence whose items are the first ones of another.
LEMMA PrefixIs ==
    ASSUME NEW S, NEW s \in Seq(S), NEW t \in Seq(S), Len(s) <= Len(t),
           \A i \in 1..Len(s) : s[i] = t[i]
    PROVE  IsPrefix(s, t)
<1>1. Len(s) \in Nat /\ Len(t) \in Nat /\ \A i \in 1..Len(s) : s[i] \in S
  BY LenProperties, ElementOfSeq
<1>2. SubSeq(s, 1, Len(s)) = s
  BY SubSeqFull
<1>3. PICK p : p = SubSeq(t, 1, Len(s))
  OBVIOUS
<1>4. p \in Seq(S) /\ Len(p) = Len(s) /\ \A i \in 1..Len(s) : p[i] = t[i]
  <2>1. 1 \in Int /\ Len(s) \in Int /\ \A i \in 1..Len(s) : t[i] \in S
    BY <1>1
  <2>2. /\ SubSeq(t, 1, Len(s)) \in Seq(S) /\ Len(SubSeq(t, 1, Len(s))) = Len(s)
        /\ \A i \in 1..Len(s) : SubSeq(t, 1, Len(s))[i] = t[i]
    BY <1>1, <2>1, SubSeqProperties
  <2>3. QED
    BY <1>3, <2>2
<1>5. s = p
  BY <1>4, SeqEqual
<1>6. QED
  BY <1>2, <1>3, <1>5 DEF IsPrefix

\* A walk without a lock comes to every item that was there when it began, each
\* once and in order; a walk that removes misses no more than the items behind
\* those that it removed.
THEOREM WalkIsComplete == Spec => []WalkComplete
<1>1. Init => WalkInv
  BY InitWalkInv
<1>2. IInv /\ Marks /\ WalkInv /\ [Next]_vars => WalkInv'
  BY WalkInvStep
<1>3. IInv /\ Marks /\ WalkInv => WalkComplete
  <2>. SUFFICES ASSUME IInv, Marks, WalkInv PROVE WalkComplete
    OBVIOUS
  <2>1. /\ seen \in Seq(Numbers) /\ start \in Seq(Numbers)
        /\ Len(seen) \in Nat /\ Len(start) \in Nat /\ DOMAIN start = 1..Len(start)
    BY LenProperties DEF WalkInv
  <2>2. /\ Reach \in Seq(Entries) /\ Len(Reach) \in Nat /\ DOMAIN Reach = 1..Len(Reach)
        /\ \A i \in 1..Len(Reach) : Reach[i] \in Entries
    BY ReachFacts
  <2>3. /\ Contents \in Seq(Numbers) /\ Len(Contents) = Len(Reach)
        /\ \A i \in 1..Len(Reach) : Contents[i] = data[Reach[i]]
    <3>1. data \in [Entries -> Numbers]
      BY DEF IInv, Types, Numbers
    <3>2. /\ Contents \in [1..Len(Reach) -> Numbers]
          /\ \A i \in 1..Len(Reach) : Contents[i] = data[Reach[i]]
      BY <2>2, <3>1 DEF Contents
    <3>3. QED
      BY <2>2, <3>2, IsSequence
  <2>4. CASE kind = "growing"
    <3>1. GrowingWalk
      BY <2>4 DEF WalkInv
    <3>2. Len(seen) <= Len(Contents) /\ \A i \in 1..Len(seen) : seen[i] = Contents[i]
      BY <2>1, <2>2, <2>3, <3>1 DEF GrowingWalk
    <3>3. IsPrefix(seen, Contents)
      BY <2>1, <2>3, <3>2, PrefixIs
    <3>4. ASSUME walkPc = "more", current = NULL PROVE IsPrefix(start, seen)
      <4>1. Len(start) <= Len(seen)
        <5>1. CASE current = Nth(Reach, Len(seen) + 1)
          <6>1. ~(Len(seen) + 1 \in 1..Len(Reach))
            BY <2>2, <3>4, <5>1, ListAssumption DEF Nth
          <6>2. QED
            BY <2>1, <2>2, <3>1, <6>1 DEF GrowingWalk
        <5>2. QED
          BY <3>1, <3>4, <5>1 DEF GrowingWalk
      <4>2. \A i \in 1..Len(start) : start[i] = seen[i]
        BY <2>1, <2>2, <3>1, <4>1 DEF GrowingWalk
      <4>3. QED
        BY <2>1, <4>1, <4>2, PrefixIs
    <3>5. QED
      BY <2>4, <3>3, <3>4 DEF WalkComplete
  <2>5. CASE kind = "guarded"
    <3>1. ASSUME walkPc = "more", current = NULL
          PROVE  \A i \in DOMAIN start :
                    start[i] \in ToSet(seen) \/ (i > 1 /\ start[i-1] \in removed)
      <4>1. PICK p, q : GuardedWalk(p, q)
        BY <2>5, <3>1 DEF WalkInv
      <4>2. p = Len(start) + 1
        <5>1. ~(q \in 1..Len(Reach))
          BY <2>2, <3>1, <4>1, ListAssumption DEF GuardedWalk, Nth
        <5>2. QED
          BY <2>1, <2>2, <4>1, <5>1 DEF GuardedWalk
      <4>3. QED
        BY <2>1, <4>1, <4>2 DEF GuardedWalk, Done
    <3>2. QED
      BY <2>5, <3>1 DEF WalkComplete
  <2>6. QED
    BY <2>4, <2>5 DEF Marks
<1>4. QED
  BY <1>1, <1>2, <1>3, Marked, PTL DEF Spec

=============================================================================
