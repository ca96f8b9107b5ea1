---------------------------- MODULE RelayProofs -----------------------------
(***************************************************************************)
(* Proofs about module MediaRelay, for any channels and buffers, capacity  *)
(* of the buffers and length of the datagrams and chunks.                  *)
(***************************************************************************)
EXTENDS MediaRelay, SequenceTheorems, FiniteSetTheorems, TLAPS

----------------------------------------------------------------------------
(* Streams of units.                                                       *)

\* s is on its way, g units were received and lost ones dropped: s is in
\* order, and of the units since its first one none is missing without reason.
Flows(s, g, lost) ==
    /\ Increasing(s)
    /\ \A i \in DOMAIN s : s[i] <= g
    /\ s # <<>> => \A u \in s[1]..g : u \in ToSet(s) \cup lost

\* The same, over the indices of s.
LEMMA Indexed ==
    ASSUME NEW s \in Seq(Nat), NEW g \in Nat, NEW lost
    PROVE  Flows(s, g, lost) <=>
              /\ \A i, j \in 1..Len(s) : i < j => s[i] < s[j]
              /\ \A i \in 1..Len(s) : s[i] <= g
              /\ Len(s) > 0 => \A u \in s[1]..g : u \in lost \/ \E i \in 1..Len(s) : s[i] = u
<1>1. DOMAIN s = 1..Len(s) /\ Len(s) \in Nat
  OBVIOUS
<1>2. s # <<>> <=> Len(s) > 0
  BY EmptySeq
<1>3. \A u : u \in ToSet(s) <=> \E i \in 1..Len(s) : s[i] = u
  BY <1>1 DEF ToSet
<1>4. QED
  BY <1>1, <1>2, <1>3 DEF Flows, Increasing

\* Where the elements of a concatenation are.
LEMMA Joined ==
    ASSUME NEW p \in Seq(Nat), NEW s \in Seq(Nat)
    PROVE  /\ p \o s \in Seq(Nat)
           /\ Len(p) \in Nat /\ Len(s) \in Nat
           /\ Len(p \o s) = Len(p) + Len(s)
           /\ \A i \in 1..Len(p) : (p \o s)[i] = p[i]
           /\ \A i \in 1..Len(s) : (p \o s)[Len(p) + i] = s[i]
           /\ \A i \in 1..Len(p) : p[i] \in Nat
           /\ \A i \in 1..Len(s) : s[i] \in Nat
  OBVIOUS

\* A piece p leaves at the front.
LEMMA FlowsBehind ==
    ASSUME NEW p \in Seq(Nat), NEW s \in Seq(Nat), NEW g \in Nat, NEW lost,
           Flows(p \o s, g, lost)
    PROVE  Flows(s, g, lost)
<1>. DEFINE t == p \o s
            n == Len(p)
            m == Len(s)
<1>1. /\ t \in Seq(Nat) /\ n \in Nat /\ m \in Nat /\ Len(t) = n + m
      /\ \A i \in 1..m : t[n + i] = s[i]
  BY Joined
<1>2. Flows(t, g, lost)
  OBVIOUS
<1>3. \A i \in 1..n+m : t[i] \in Nat
  BY <1>1
<1>. HIDE DEF t, n
<1>4. /\ \A i, j \in 1..Len(t) : i < j => t[i] < t[j]
      /\ \A i \in 1..Len(t) : t[i] <= g
      /\ Len(t) > 0 => \A u \in t[1]..g : u \in lost \/ \E i \in 1..Len(t) : t[i] = u
  BY <1>1, <1>2, Indexed
<1>. HIDE DEF m
<1>5. ASSUME NEW i \in 1..m
      PROVE  n + i \in 1..Len(t) /\ t[n + i] = s[i] /\ s[i] \in Nat
  BY <1>1, <1>3
<1>6. ASSUME NEW i \in 1..m, NEW j \in 1..m, i < j
      PROVE  s[i] < s[j]
  <2>1. n + i < n + j
    BY <1>1, <1>6
  <2>2. t[n + i] < t[n + j]
    BY <1>4, <1>5, <2>1
  <2>3. QED
    BY <1>5, <2>2
<1>7. \A i \in 1..m : s[i] <= g
  BY <1>4, <1>5
<1>8. ASSUME m > 0, NEW u \in s[1]..g, u \notin lost
      PROVE  \E i \in 1..m : s[i] = u
  <2>1. 1 \in 1..m /\ 1 \in 1..Len(t) /\ s[1] = t[n + 1] /\ n + 1 \in 1..Len(t)
    BY <1>1, <1>5, <1>8
  <2>2. t[1] \in Nat /\ s[1] \in Nat /\ t[1] <= s[1]
    <3>1. CASE n = 0
      BY <1>5, <2>1, <3>1
    <3>2. CASE n > 0
      <4>1. 1 < n + 1
        BY <1>1, <3>2
      <4>2. t[1] < t[n + 1] /\ t[1] \in Nat
        BY <1>1, <1>3, <1>4, <2>1, <4>1
      <4>3. QED
        BY <1>5, <2>1, <4>2
    <3>3. QED
      BY <1>1, <3>1, <3>2
  <2>3. u \in t[1]..g /\ Len(t) > 0 /\ u \in Int
    BY <1>1, <1>8, <2>2
  <2>4. PICK i \in 1..Len(t) : t[i] = u
    BY <1>4, <1>8, <2>3
  <2>5. ~(i < n + 1)
    BY <1>4, <2>1, <2>2, <2>4
  <2>6. i - n \in 1..m /\ n + (i - n) = i
    BY <1>1, <2>5
  <2>7. QED
    BY <1>1, <2>4, <2>6
<1>9. QED
  BY <1>6, <1>7, <1>8, Indexed DEF m

\* A piece s is dropped at the end.
LEMMA FlowsBefore ==
    ASSUME NEW p \in Seq(Nat), NEW s \in Seq(Nat), NEW g \in Nat, NEW lost,
           Flows(p \o s, g, lost)
    PROVE  Flows(p, g, lost \cup ToSet(s))
<1>. DEFINE t == p \o s
            n == Len(p)
            m == Len(s)
<1>1. /\ t \in Seq(Nat) /\ n \in Nat /\ m \in Nat /\ Len(t) = n + m
      /\ \A i \in 1..n : t[i] = p[i]
      /\ \A i \in 1..m : t[n + i] = s[i]
  BY Joined
<1>2. Flows(t, g, lost)
  OBVIOUS
<1>. HIDE DEF t, n, m
<1>3. /\ \A i, j \in 1..Len(t) : i < j => t[i] < t[j]
      /\ \A i \in 1..Len(t) : t[i] <= g
      /\ Len(t) > 0 => \A u \in t[1]..g : u \in lost \/ \E i \in 1..Len(t) : t[i] = u
  BY <1>1, <1>2, Indexed
<1>4. \A i \in 1..n : i \in 1..Len(t)
  BY <1>1
<1>5. /\ \A i, j \in 1..n : i < j => p[i] < p[j]
      /\ \A i \in 1..n : p[i] <= g
  BY <1>1, <1>3, <1>4
<1>6. ASSUME NEW i \in 1..Len(t), NEW u, t[i] = u
      PROVE  u \in ToSet(s) \/ \E j \in 1..n : p[j] = u
  <2>1. CASE i <= n
    <3>1. i \in 1..n
      BY <1>1, <2>1
    <3>2. QED
      BY <1>1, <1>6, <3>1
  <2>2. CASE i > n
    <3>1. i - n \in 1..m /\ n + (i - n) = i
      BY <1>1, <2>2
    <3>2. s[i - n] = u
      BY <1>1, <1>6, <3>1
    <3>3. i - n \in DOMAIN s
      BY <3>1 DEF m
    <3>4. QED
      BY <3>2, <3>3 DEF ToSet
  <2>3. i <= n \/ i > n
    BY <1>1
  <2>4. QED
    BY <2>1, <2>2, <2>3
<1>7. ASSUME n > 0, NEW u \in p[1]..g
      PROVE  u \in lost \cup ToSet(s) \/ \E i \in 1..n : p[i] = u
  <2>1. p[1] = t[1] /\ Len(t) > 0
    BY <1>1, <1>7
  <2>2. u \in lost \/ \E i \in 1..Len(t) : t[i] = u
    BY <1>3, <1>7, <2>1
  <2>3. QED
    BY <1>6, <2>2
<1>8. QED
  BY <1>5, <1>7, Indexed DEF n

\* A piece q is dropped from the middle.
LEMMA FlowsWithout ==
    ASSUME NEW p \in Seq(Nat), NEW q \in Seq(Nat), NEW s \in Seq(Nat), NEW g \in Nat, NEW lost,
           Flows((p \o q) \o s, g, lost)
    PROVE  Flows(p \o s, g, lost \cup ToSet(q))
<1>. DEFINE t == (p \o q) \o s
            r == p \o s
            n == Len(p)
            k == Len(q)
            m == Len(s)
<1>1. /\ t \in Seq(Nat) /\ r \in Seq(Nat) /\ n \in Nat /\ k \in Nat /\ m \in Nat
      /\ Len(t) = n + k + m /\ Len(r) = n + m
  BY Joined
<1>2. /\ \A i \in 1..n : t[i] = p[i] /\ r[i] = p[i]
      /\ \A i \in 1..k : t[n + i] = q[i]
      /\ \A i \in 1..m : r[n + i] = s[i]
  BY <1>1
<1>3. \A i \in 1..m : t[n + k + i] = s[i]
  BY <1>1
<1>4. \A i \in 1..Len(t) : t[i] \in Nat
  BY <1>1, ElementOfSeq
<1>5. Flows(t, g, lost)
  OBVIOUS
<1>6. \A i \in 1..k : q[i] \in ToSet(q)
  BY DEF ToSet
<1>. HIDE DEF t, r, n, k, m
<1>7. /\ \A i, j \in 1..Len(t) : i < j => t[i] < t[j]
      /\ \A i \in 1..Len(t) : t[i] <= g
      /\ Len(t) > 0 => \A u \in t[1]..g : u \in lost \/ \E i \in 1..Len(t) : t[i] = u
  BY <1>1, <1>5, Indexed
<1>. DEFINE at0(i) == IF i <= n THEN i ELSE k + i
<1>8. ASSUME NEW i \in 1..Len(r)
      PROVE  at0(i) \in 1..Len(t) /\ r[i] = t[at0(i)] /\ r[i] \in Nat
  <2>1. CASE i <= n
    <3>1. i \in 1..n /\ i \in 1..Len(t)
      BY <1>1, <2>1
    <3>2. QED
      BY <1>2, <1>4, <2>1, <3>1
  <2>2. CASE ~(i <= n)
    <3>1. i - n \in 1..m /\ n + (i - n) = i /\ n + k + (i - n) = k + i /\ k + i \in 1..Len(t)
      BY <1>1, <2>2
    <3>2. r[i] = s[i - n] /\ t[k + i] = s[i - n]
      <4>1. r[n + (i - n)] = s[i - n] /\ t[n + k + (i - n)] = s[i - n]
        BY <1>2, <1>3, <3>1
      <4>2. QED
        BY <3>1, <4>1
    <3>3. QED
      BY <1>4, <2>2, <3>1, <3>2
  <2>3. QED
    BY <2>1, <2>2
<1>9. ASSUME NEW i \in 1..Len(r), NEW j \in 1..Len(r), i < j
      PROVE  r[i] < r[j]
  <2>1. at0(i) < at0(j)
    BY <1>1, <1>9
  <2>2. at0(i) \in 1..Len(t) /\ r[i] = t[at0(i)] /\ at0(j) \in 1..Len(t) /\ r[j] = t[at0(j)]
    BY <1>8
  <2>. HIDE DEF at0
  <2>3. QED
    BY <1>7, <2>1, <2>2
<1>10. \A i \in 1..Len(r) : r[i] <= g
  <2>. SUFFICES ASSUME NEW i \in 1..Len(r)
                PROVE  r[i] <= g
    OBVIOUS
  <2>1. at0(i) \in 1..Len(t) /\ r[i] = t[at0(i)]
    BY <1>8
  <2>. HIDE DEF at0
  <2>2. QED
    BY <1>7, <2>1
<1>11. ASSUME NEW i \in 1..Len(t)
       PROVE  t[i] \in ToSet(q) \/ \E j \in 1..Len(r) : r[j] = t[i]
  <2>1. CASE i <= n
    <3>1. i \in 1..n /\ i \in 1..Len(r)
      BY <1>1, <2>1
    <3>2. QED
      BY <1>2, <3>1
  <2>2. CASE i > n /\ i <= n + k
    <3>1. i - n \in 1..k /\ n + (i - n) = i
      BY <1>1, <2>2
    <3>2. t[i] = q[i - n]
      BY <1>2, <3>1
    <3>3. QED
      BY <1>6, <3>1, <3>2
  <2>3. CASE i > n + k
    <3>1. i - k \in 1..Len(r) /\ at0(i - k) = i
      BY <1>1, <2>3
    <3>2. r[i - k] = t[at0(i - k)]
      BY <1>8, <3>1
    <3>3. QED
      BY <3>1, <3>2
  <2>4. i <= n \/ (i > n /\ i <= n + k) \/ i > n + k
    BY <1>1
  <2>5. QED
    BY <2>1, <2>2, <2>3, <2>4
<1>12. ASSUME Len(r) > 0, NEW u \in r[1]..g
       PROVE  u \in lost \cup ToSet(q) \/ \E i \in 1..Len(r) : r[i] = u
  <2>1. Len(t) > 0 /\ 1 \in 1..Len(r) /\ 1 \in 1..Len(t)
    BY <1>1, <1>12
  <2>2. t[1] \in Nat /\ r[1] \in Nat /\ t[1] <= r[1]
    <3>1. at0(1) \in 1..Len(t) /\ r[1] = t[at0(1)] /\ r[1] \in Nat
      BY <1>8, <2>1
    <3>2. 1 <= at0(1)
      BY <1>1
    <3>. HIDE DEF at0
    <3>3. CASE at0(1) = 1
      BY <3>1, <3>3
    <3>4. CASE 1 < at0(1)
      <4>1. t[1] < t[at0(1)] /\ t[1] \in Nat
        BY <1>4, <1>7, <2>1, <3>1, <3>4
      <4>2. QED
        BY <3>1, <4>1
    <3>5. QED
      BY <3>1, <3>2, <3>3, <3>4
  <2>3. u \in t[1]..g
    BY <2>2
  <2>4. u \in lost \/ \E i \in 1..Len(t) : t[i] = u
    BY <1>7, <2>1, <2>3
  <2>5. QED
    BY <1>11, <2>4
<1>13. Flows(r, g, lost \cup ToSet(q))
  BY <1>1, <1>9, <1>10, <1>12, Indexed
<1>14. QED
  BY <1>13 DEF r

\* A datagram of k units is received.
LEMMA FlowsOn ==
    ASSUME NEW s \in Seq(Nat), NEW g \in Nat, NEW k \in Nat \ {0}, NEW lost, Flows(s, g, lost)
    PROVE  Flows(s \o [i \in 1..k |-> g + i], g + k, lost)
<1>. DEFINE d == [i \in 1..k |-> g + i]
            t == s \o d
            n == Len(s)
<1>1. d \in Seq(Nat) /\ Len(d) = k /\ \A i \in 1..k : d[i] = g + i
  OBVIOUS
<1>. HIDE DEF d
<1>2. /\ t \in Seq(Nat) /\ n \in Nat /\ Len(t) = n + k
      /\ \A i \in 1..n : t[i] = s[i] /\ s[i] \in Nat
      /\ \A i \in 1..k : t[n + i] = g + i
  BY <1>1, Joined
<1>3. /\ \A i, j \in 1..n : i < j => s[i] < s[j]
      /\ \A i \in 1..n : s[i] <= g
      /\ n > 0 => \A u \in s[1]..g : u \in lost \/ \E i \in 1..n : s[i] = u
  BY Indexed
<1>. HIDE DEF t, n
<1>4. \A i \in 1..n+k : i > n => i - n \in 1..k /\ t[i] = g + (i - n)
  <2>. SUFFICES ASSUME NEW i \in 1..n+k, i > n
                PROVE  i - n \in 1..k /\ t[i] = g + (i - n)
    OBVIOUS
  <2>1. i - n \in 1..k /\ n + (i - n) = i
    BY <1>2
  <2>2. QED
    BY <1>2, <2>1
<1>5. \A i \in 1..n+k : t[i] <= g + k
  BY <1>2, <1>3, <1>4, SMTT(30)
<1>6. \A i, j \in 1..n+k : i < j => t[i] < t[j]
  <2>. SUFFICES ASSUME NEW i \in 1..n+k, NEW j \in 1..n+k, i < j
                PROVE  t[i] < t[j]
    OBVIOUS
  <2>1. CASE j <= n
    BY <1>2, <1>3, <2>1
  <2>2. CASE j > n /\ i <= n
    <3>1. i \in 1..n /\ t[i] \in Nat /\ t[i] <= g
      BY <1>2, <1>3, <2>2
    <3>2. t[j] = g + (j - n) /\ j - n \in 1..k
      BY <1>4, <2>2
    <3>3. QED
      BY <3>1, <3>2
  <2>3. CASE i > n
    <3>1. t[i] = g + (i - n) /\ t[j] = g + (j - n)
      BY <1>2, <1>4, <2>3
    <3>2. QED
      BY <1>2, <3>1
  <2>4. QED
    BY <1>2, <2>1, <2>2, <2>3
<1>7. ASSUME NEW u \in (g + 1)..(g + k)
      PROVE  \E i \in 1..n+k : t[i] = u
  <2>1. u - g \in 1..k /\ g + (u - g) = u /\ n + (u - g) \in 1..n+k
    BY <1>2
  <2>2. QED
    BY <1>2, <2>1
<1>8. ASSUME NEW u \in t[1]..(g + k), u \notin lost
      PROVE  \E i \in 1..n+k : t[i] = u
  <2>1. CASE n = 0
    <3>1. t[1] = g + 1
      BY <1>2, <1>4, <2>1
    <3>2. QED
      BY <1>7, <3>1
  <2>2. CASE n > 0 /\ u > g
    <3>1. u \in Int
      OBVIOUS
    <3>2. QED
      BY <1>7, <2>2, <3>1
  <2>3. CASE n > 0 /\ u <= g
    <3>1. t[1] = s[1] /\ s[1] \in Nat
      BY <1>2, <2>3
    <3>2. PICK i \in 1..n : s[i] = u
      BY <1>3, <1>8, <2>3, <3>1
    <3>3. QED
      BY <1>2, <3>2
  <2>4. QED
    BY <1>2, <2>1, <2>2, <2>3
<1>9. Flows(t, g + k, lost)
  <2>1. /\ \A i, j \in 1..Len(t) : i < j => t[i] < t[j]
        /\ \A i \in 1..Len(t) : t[i] <= g + k
        /\ Len(t) > 0 => \A u \in t[1]..(g + k) :
              u \in lost \/ \E i \in 1..Len(t) : t[i] = u
    BY <1>2, <1>5, <1>6, <1>8
  <2>2. t \in Seq(Nat) /\ g + k \in Nat
    BY <1>2
  <2>3. QED
    BY <2>1, <2>2, Indexed
<1>10. QED
  BY <1>9 DEF t, d

----------------------------------------------------------------------------
(* Types.                                                                  *)

\* What the assumption says of the sizes, one by one.
LEMMA Sizes ==
    /\ InCap \in Nat /\ OutCap \in Nat /\ ChunkLen \in Nat /\ MaxDgram \in Nat
    /\ MaxDgram <= InCap
  BY RelayAssumption

\* The lesser of two numbers is none above either.
LEMMA LeastRange ==
    ASSUME NEW a \in Nat, NEW b \in Nat
    PROVE  Least(a, b) \in 0..a /\ Least(a, b) \in 0..b
  BY DEF Least

\* A sequence cut in two.
LEMMA Cut ==
    ASSUME NEW S, NEW s \in Seq(S), NEW w \in 0..Len(s)
    PROVE  /\ SubSeq(s, 1, w) \in Seq(S) /\ Len(SubSeq(s, 1, w)) = w
           /\ SubSeq(s, w + 1, Len(s)) \in Seq(S)
           /\ Len(SubSeq(s, w + 1, Len(s))) = Len(s) - w
           /\ s = SubSeq(s, 1, w) \o SubSeq(s, w + 1, Len(s))
<1>1. Len(s) \in Nat /\ w \in Int /\ \A i \in 1..Len(s) : s[i] \in S
  BY ElementOfSeq
<1>2. SubSeq(s, 1, w) \in Seq(S) /\ Len(SubSeq(s, 1, w)) = w
  BY <1>1, SubSeqProperties
<1>3. SubSeq(s, w + 1, Len(s)) \in Seq(S) /\ Len(SubSeq(s, w + 1, Len(s))) = Len(s) - w
  BY <1>1, SubSeqProperties
<1>4. SubSeq(s, 1, w) \o SubSeq(s, w + 1, Len(s)) = SubSeq(s, 1, Len(s))
  <2>1. 1 \in 1..Len(s) + 1 /\ w \in 1 - 1..Len(s) /\ Len(s) \in w..Len(s)
    BY <1>1
  <2>2. QED
    BY <2>1, ConcatAdjacentSubSeq
<1>5. QED
  BY <1>2, <1>3, <1>4, SubSeqFull

\* A sequence that grows behind.
LEMMA Grown ==
    ASSUME NEW S, NEW s \in Seq(S), NEW e \in S
    PROVE  /\ Append(s, e) \in Seq(S) /\ Len(Append(s, e)) = Len(s) + 1
           /\ \A i \in 1..Len(s) : Append(s, e)[i] = s[i]
  BY AppendProperties

\* The elements of a sequence.
LEMMA Members ==
    ASSUME NEW S, NEW s \in Seq(S)
    PROVE  ToSet(s) \subseteq S
  BY ElementOfSeq DEF ToSet

\* The units that a kfifo_put of a sequence s accepts, with room for r more.
LEMMA Accepted ==
    ASSUME NEW s \in Seq(Units), NEW r \in Nat
    PROVE  LET w == Least(Len(s), r) IN
           /\ SubSeq(s, 1, w) \in Seq(Units) /\ Len(SubSeq(s, 1, w)) <= r
           /\ SubSeq(s, w + 1, Len(s)) \in Seq(Units)
           /\ ToSet(SubSeq(s, w + 1, Len(s))) \subseteq Units
           /\ s = SubSeq(s, 1, w) \o SubSeq(s, w + 1, Len(s))
<1>. DEFINE w == Least(Len(s), r)
<1>1. w \in 0..Len(s) /\ w <= r
  <2>1. Len(s) \in Nat
    BY LenProperties
  <2>2. w \in 0..Len(s) /\ w \in 0..r
    BY <2>1, LeastRange
  <2>3. QED
    BY <2>2
<1>. HIDE DEF w
<1>2. /\ SubSeq(s, 1, w) \in Seq(Units) /\ Len(SubSeq(s, 1, w)) = w
      /\ SubSeq(s, w + 1, Len(s)) \in Seq(Units)
      /\ s = SubSeq(s, 1, w) \o SubSeq(s, w + 1, Len(s))
  BY <1>1, Cut, ZenonT(40)
<1>3. QED
  BY <1>1, <1>2, Members DEF w

\* The channel of the current task.
LEMMA SourceChannel ==
    ASSUME TypeOK, mediaPc # "head"
    PROVE  Source \in Channels /\ current \in 1..Len(tasks)
<1>1. current \in 1..Len(tasks)
  BY DEF TypeOK
<1>2. QED
  BY <1>1, ElementOfSeq DEF TypeOK, Source

\* clive_udp_recv gives a datagram of the channel's units.
LEMMA ReceivesType ==
    ASSUME TypeOK, NEW c \in Channels, NEW n \in 1..MaxDgram, Receives(c, n)
    PROVE  got' \in [Channels -> Nat] /\ pend' \in Seq(Units)
<1>1. got \in [Channels -> Nat] /\ got[c] \in Nat
  BY DEF TypeOK
<1>2. n \in Nat
  BY Sizes
<1>3. MaxUnits[c] \in Nat
  BY RelayAssumption
<1>4. \A k \in 1..n : got[c] + k \in Units
  <2>1. \A k \in 1..n : got[c] + k \in 1..MaxUnits[c]
    BY <1>1, <1>2, <1>3 DEF Receives
  <2>2. QED
    BY <2>1 DEF Units
<1>5. pend' \in Seq(Units)
  BY <1>2, <1>4 DEF Receives
<1>6. got' \in [Channels -> Nat]
  BY <1>1, <1>2 DEF Receives
<1>7. QED
  BY <1>5, <1>6

\* The steps of the main thread keep the types.
LEMMA MainTypes ==
    ASSUME TypeOK,
           MainStep \/ \E c \in Channels : RecvFirst(c) \/ RecvNext(c) \/ RecvEmpty(c)
    PROVE  TypeOK'
<1>1. ASSUME NEW c \in Channels, RecvFirst(c)
      PROVE  TypeOK'
  <2>1. got' \in [Channels -> Nat] /\ pend' \in Seq(Units)
    BY <1>1, ReceivesType DEF RecvFirst
  <2>2. type' \in [Channels -> Types] /\ odd' \subseteq Channels
    BY <1>1 DEF RecvFirst, TypeOK
  <2>3. QED
    BY <1>1, <2>1, <2>2 DEF RecvFirst, TypeOK, media, http, Source
<1>2. ASSUME NEW c \in Channels, RecvNext(c)
      PROVE  TypeOK'
  <2>1. got' \in [Channels -> Nat] /\ pend' \in Seq(Units)
    BY <1>2, ReceivesType DEF RecvNext
  <2>2. QED
    BY <1>2, <2>1 DEF RecvNext, TypeOK, media, http, Source
<1>3. ASSUME NEW c \in Channels, RecvEmpty(c)
      PROVE  TypeOK'
  BY <1>3 DEF RecvEmpty, UdpClose, TypeOK, media, http, past, Source
<1>4. ASSUME PutFirst \/ Spin
      PROVE  TypeOK'
  <2>. DEFINE w == Least(Len(pend), Room(at))
  <2>1. at \in Channels /\ pend \in Seq(Units)
    BY <1>4 DEF PutFirst, Spin, TypeOK
  <2>2. /\ fifo \in [Channels -> Seq(Units)] /\ fifo[at] \in Seq(Units)
        /\ Len(fifo[at]) \in Nat /\ Len(fifo[at]) <= InCap
    BY <2>1, SMTT(30) DEF TypeOK
  <2>3. Room(at) \in Nat /\ Len(fifo[at]) + Room(at) = InCap
    BY <2>2, Sizes DEF Room
  <2>4. /\ SubSeq(pend, 1, w) \in Seq(Units) /\ Len(SubSeq(pend, 1, w)) <= Room(at)
        /\ SubSeq(pend, w + 1, Len(pend)) \in Seq(Units)
        /\ ToSet(SubSeq(pend, w + 1, Len(pend))) \subseteq Units
    BY <2>1, <2>3, Accepted
  <2>. HIDE DEF w
  <2>5. /\ fifo[at] \o SubSeq(pend, 1, w) \in Seq(Units)
        /\ Len(fifo[at] \o SubSeq(pend, 1, w)) <= InCap
    BY <2>2, <2>3, <2>4, Sizes
  <2>6. fifo' = [fifo EXCEPT ![at] = fifo[at] \o SubSeq(pend, 1, w)]
    BY <1>4 DEF PutFirst, Spin, w
  <2>7. fifo' \in [Channels -> Seq(Units)] /\ \A c \in Channels : Len(fifo'[c]) <= InCap
    BY <2>1, <2>2, <2>5, <2>6 DEF TypeOK
  <2>8. pend' \in Seq(Units)
    BY <1>4, <2>4, EmptySeq DEF PutFirst, Spin, w
  <2>9. ignored' \in [Channels -> SUBSET Units]
    <3>1. CASE PutFirst
      BY <2>1, <2>4, <3>1 DEF PutFirst, TypeOK, w
    <3>2. CASE Spin
      BY <3>2 DEF Spin, TypeOK, past
    <3>3. QED
      BY <1>4, <3>1, <3>2
  <2>10. UNCHANGED <<type, open, pack, tasks, media, http, obuf, got, odd, put, missed>>
    BY <1>4 DEF PutFirst, Spin, past
  <2>11. \/ mainPc' \in {"setype", "spin"} /\ at' = at
         \/ mainPc' = "wait" /\ at' = Nothing
    <3>1. CASE PutFirst
      BY <3>1 DEF PutFirst
    <3>2. CASE Spin
      BY <3>2 DEF Spin
    <3>3. QED
      BY <1>4, <3>1, <3>2
  <2>12. QED
    BY <2>1, <2>7, <2>8, <2>9, <2>10, <2>11 DEF TypeOK, media, http, Source
<1>5. ASSUME Setype
      PROVE  TypeOK'
  <2>1. pack' \in [Channels -> Packs]
    BY <1>5 DEF Setype, TypeOK, Packs
  <2>2. QED
    BY <1>5, <2>1 DEF Setype, TypeOK, media, http, past, Source
<1>6. ASSUME Attach
      PROVE  TypeOK'
  <2>1. at \in Channels /\ tasks \in Seq(Channels) /\ Len(tasks) \in Nat
    BY <1>6 DEF Attach, TypeOK
  <2>2. /\ tasks' \in Seq(Channels) /\ Len(tasks') = Len(tasks) + 1
        /\ \A i \in 1..Len(tasks) : tasks'[i] = tasks[i]
    BY <1>6, <2>1, Grown DEF Attach
  <2>3. current' \in 0..Len(tasks') /\ (mediaPc' # "head" => current' > 0 /\ Source' = Source)
    BY <1>6, <2>1, <2>2 DEF Attach, TypeOK, media, Source
  <2>4. QED
    BY <1>6, <2>2, <2>3 DEF Attach, TypeOK, media, http, past
<1>7. ASSUME RecvAgain
      PROVE  TypeOK'
  BY <1>7 DEF RecvAgain, TypeOK, media, http, past, Source
<1>8. QED
  BY <1>1, <1>2, <1>3, <1>4, <1>5, <1>6, <1>7 DEF MainStep

\* The steps of the media thread keep the types.
LEMMA MediaTypes ==
    ASSUME TypeOK, MediaStep
    PROVE  TypeOK'
<1>1. ASSUME FirstTask
      PROVE  TypeOK'
  <2>1. 1 \in 0..Len(tasks)
    BY <1>1, EmptySeq DEF FirstTask, TypeOK
  <2>2. QED
    BY <1>1, <2>1, SMTT(30) DEF FirstTask, TypeOK, main, http, past, Source
<1>2. ASSUME PollEmpty
      PROVE  TypeOK'
  BY <1>2 DEF PollEmpty, TypeOK, main, http, past, Source
<1>3. ASSUME PollGet
      PROVE  TypeOK'
  <2>. DEFINE s == fifo[Source]
              n == Least(ChunkLen, Len(s))
  <2>1. Source \in Channels /\ s \in Seq(Units) /\ Len(s) \in Nat /\ Len(s) <= InCap
    BY <1>3, SourceChannel, SMTT(30) DEF PollGet, TypeOK
  <2>2. n \in 0..Len(s)
    BY <2>1, LeastRange, Sizes
  <2>. HIDE DEF n
  <2>3. /\ SubSeq(s, 1, n) \in Seq(Units) /\ SubSeq(s, n + 1, Len(s)) \in Seq(Units)
        /\ Len(SubSeq(s, n + 1, Len(s))) = Len(s) - n
    BY <2>1, <2>2, Cut
  <2>4. Len(SubSeq(s, n + 1, Len(s))) <= InCap
    BY <2>1, <2>2, <2>3, Sizes
  <2>5. chunk' = SubSeq(s, 1, n) /\ fifo' = [fifo EXCEPT ![Source] = SubSeq(s, n + 1, Len(s))]
    BY <1>3 DEF PollGet, n
  <2>6. fifo' \in [Channels -> Seq(Units)] /\ \A c \in Channels : Len(fifo'[c]) <= InCap
    BY <2>1, <2>3, <2>4, <2>5 DEF TypeOK
  <2>7. QED
    BY <1>3, <2>3, <2>5, <2>6 DEF PollGet, TypeOK, main, http, past, Source
<1>4. ASSUME Consume
      PROVE  TypeOK'
  <2>1. Source \in Channels /\ pads[Source] \in Seq(Buffers) /\ Source' = Source
    BY <1>4, SourceChannel DEF Consume, TypeOK, Source
  <2>2. pads[Source] # <<>> => 1 \in DOMAIN pads[Source]
    BY <2>1, EmptySeq
  <2>3. ignored' \in [Channels -> SUBSET Units]
    <3>1. ignored \in [Channels -> SUBSET Units] /\ ToSet(chunk) \subseteq Units
      BY Members DEF TypeOK
    <3>2. \/ ignored' = ignored
          \/ ignored' = [ignored EXCEPT ![Source] = ignored[Source] \cup ToSet(chunk)]
      BY <1>4 DEF Consume
    <3>3. QED
      BY <2>1, <3>1, <3>2
  <2>4. mediaPc' \in {"walk", "next"} /\ (mediaPc' = "walk" => pad' \in DOMAIN pads[Source])
    BY <1>4, <2>2 DEF Consume
  <2>5. QED
    BY <1>4, <2>1, <2>3, <2>4 DEF Consume, TypeOK, main, http
<1>5. ASSUME PadPut
      PROVE  TypeOK'
  <2>. DEFINE b == pads[Source][pad]
              room == OutCap - Len(obuf[b])
              w == Least(Len(chunk), room)
  <2>1. Source \in Channels /\ pad \in DOMAIN pads[Source] /\ chunk \in Seq(Units)
    BY <1>5, SourceChannel DEF PadPut, TypeOK
  <2>2. b \in Buffers
    BY <2>1, ElementOfSeq DEF TypeOK
  <2>. HIDE DEF b
  <2>3. /\ obuf[b] \in Seq(Units) /\ Len(obuf[b]) \in Nat /\ Len(obuf[b]) <= OutCap
        /\ put[b] \in Seq(Units)
    BY <2>2 DEF TypeOK
  <2>4. room \in Nat /\ Len(obuf[b]) + room = OutCap
    BY <2>3, Sizes
  <2>5. /\ SubSeq(chunk, 1, w) \in Seq(Units) /\ Len(SubSeq(chunk, 1, w)) <= room
        /\ ToSet(SubSeq(chunk, w + 1, Len(chunk))) \subseteq Units
    BY <2>1, <2>4, Accepted
  <2>6. /\ obuf' = [obuf EXCEPT ![b] = obuf[b] \o SubSeq(chunk, 1, w)]
        /\ put' = [put EXCEPT ![b] = put[b] \o SubSeq(chunk, 1, w)]
        /\ missed' = [missed EXCEPT ![b] =
                          missed[b] \cup ToSet(SubSeq(chunk, w + 1, Len(chunk)))]
    BY <1>5 DEF PadPut, b
  <2>. HIDE DEF w, room
  <2>7. /\ obuf[b] \o SubSeq(chunk, 1, w) \in Seq(Units)
        /\ Len(obuf[b] \o SubSeq(chunk, 1, w)) <= OutCap
        /\ put[b] \o SubSeq(chunk, 1, w) \in Seq(Units)
    BY <2>3, <2>4, <2>5, Sizes
  <2>8. obuf' \in [Buffers -> Seq(Units)] /\ \A a \in Buffers : Len(obuf'[a]) <= OutCap
    BY <2>2, <2>6, <2>7 DEF TypeOK
  <2>9. put' \in [Buffers -> Seq(Units)] /\ missed' \in [Buffers -> SUBSET Units]
    BY <2>2, <2>5, <2>6, <2>7 DEF TypeOK
  <2>10. QED
    BY <1>5, <2>8, <2>9 DEF PadPut, TypeOK, main, http, Source
<1>6. ASSUME PadNext
      PROVE  TypeOK'
  <2>1. /\ Source \in Channels /\ pads[Source] \in Seq(Buffers)
        /\ pad \in DOMAIN pads[Source] /\ Source' = Source
    <3>1. Source \in Channels
      BY <1>6, SourceChannel DEF PadNext
    <3>2. QED
      BY <1>6, <3>1 DEF PadNext, TypeOK, Source
  <2>2. mediaPc' = "walk" => pad' \in DOMAIN pads[Source]
    BY <1>6, <2>1 DEF PadNext
  <2>3. mediaPc' \in {"walk", "next"}
    BY <1>6 DEF PadNext
  <2>4. QED
    BY <1>6, <2>1, <2>2, <2>3 DEF PadNext, TypeOK, main, http, past
<1>7. ASSUME TaskNext
      PROVE  TypeOK'
  <2>1. /\ current' \in 0..Len(tasks) /\ mediaPc' \in {"poll", "head"}
        /\ mediaPc' # "head" => current' > 0
    <3>1. Len(tasks) \in Nat /\ current \in 0..Len(tasks)
      BY LenProperties DEF TypeOK
    <3>2. QED
      BY <1>7, <3>1 DEF TaskNext
  <2>2. chunk' \in Seq(Units)
    BY <1>7, EmptySeq DEF TaskNext
  <2>3. QED
    BY <1>7, <2>1, <2>2 DEF TaskNext, TypeOK, main, http, past
<1>8. QED
  BY <1>1, <1>2, <1>3, <1>4, <1>5, <1>6, <1>7 DEF MediaStep

\* The steps of the http threads keep the types.
LEMMA HttpTypes ==
    ASSUME TypeOK, NEW b \in Buffers, AddLock(b) \/ AddPad(b) \/ Drain(b)
    PROVE  TypeOK'
<1>1. CASE AddLock(b)
  BY <1>1 DEF AddLock, TypeOK, main, media, past, Source
<1>2. CASE AddPad(b)
  <2>1. Out[b] \in Channels
    BY RelayAssumption
  <2>2. /\ Append(pads[Out[b]], b) \in Seq(Buffers)
        /\ Len(Append(pads[Out[b]], b)) = Len(pads[Out[b]]) + 1
    BY <2>1, Grown DEF TypeOK
  <2>3. /\ pads' \in [Channels -> Seq(Buffers)]
        /\ \A c \in Channels : DOMAIN pads[c] \subseteq DOMAIN pads'[c]
    <3>1. /\ pads \in [Channels -> Seq(Buffers)]
          /\ pads' = [pads EXCEPT ![Out[b]] = Append(pads[Out[b]], b)]
      BY <1>2 DEF AddPad, TypeOK
    <3>2. DOMAIN pads[Out[b]] \subseteq DOMAIN Append(pads[Out[b]], b)
      BY <2>1, <2>2, <3>1
    <3>3. pads' \in [Channels -> Seq(Buffers)]
      BY <2>1, <2>2, <3>1
    <3>4. ASSUME NEW c \in Channels
          PROVE  DOMAIN pads[c] \subseteq DOMAIN pads'[c]
      <4>1. CASE c = Out[b]
        BY <3>1, <3>2, <4>1
      <4>2. CASE c # Out[b]
        BY <3>1, <4>2
      <4>3. QED
        BY <4>1, <4>2
    <3>5. QED
      BY <3>3, <3>4
  <2>4. mediaPc # "head" => Source \in Channels
    BY SourceChannel
  <2>5. UNCHANGED <<main, fifo, pack, tasks, media, obuf, past>> /\ Source' = Source
    BY <1>2 DEF AddPad, media, Source
  <2>6. mediaPc' \in {"walk", "step"} => pad' \in DOMAIN pads'[Source']
    BY <2>3, <2>4, <2>5 DEF TypeOK, media
  <2>7. QED
    BY <1>2, <2>3, <2>5, <2>6 DEF AddPad, TypeOK, main, media, past
<1>3. CASE Drain(b)
  <2>. DEFINE n == Least(ChunkLen, Len(obuf[b]))
  <2>1. obuf[b] \in Seq(Units) /\ Len(obuf[b]) \in Nat /\ Len(obuf[b]) <= OutCap
    BY DEF TypeOK
  <2>2. n \in 0..Len(obuf[b])
    BY <2>1, LeastRange, Sizes
  <2>3. obuf' = [obuf EXCEPT ![b] = SubSeq(obuf[b], 1 + n, Len(obuf[b]))]
    BY <1>3 DEF Drain
  <2>. HIDE DEF n
  <2>4. 1 + n = n + 1
    BY <2>1, <2>2
  <2>5. /\ SubSeq(obuf[b], n + 1, Len(obuf[b])) \in Seq(Units)
        /\ Len(SubSeq(obuf[b], n + 1, Len(obuf[b]))) = Len(obuf[b]) - n
    BY <2>1, <2>2, Cut
  <2>6. Len(SubSeq(obuf[b], n + 1, Len(obuf[b]))) <= OutCap
    BY <2>1, <2>2, <2>5, Sizes
  <2>7. obuf' \in [Buffers -> Seq(Units)] /\ \A a \in Buffers : Len(obuf'[a]) <= OutCap
    BY <2>3, <2>4, <2>5, <2>6 DEF TypeOK
  <2>8. QED
    BY <1>3, <2>7 DEF Drain, TypeOK, main, media, http, past, Source
<1>4. QED
  BY <1>1, <1>2, <1>3

LEMMA InitTypes == Init => TypeOK
<1>. SUFFICES ASSUME Init
              PROVE  TypeOK
  OBVIOUS
<1>1. /\ <<>> \in Seq(Units) /\ <<>> \in Seq(Channels) /\ <<>> \in Seq(Buffers)
      /\ Len(<<>>) = 0
  BY EmptySeq
<1>2. \A c \in Channels : Len(fifo[c]) <= InCap
  BY <1>1, Sizes DEF Init
<1>3. \A b \in Buffers : Len(obuf[b]) <= OutCap
  BY <1>1, Sizes DEF Init
<1>4. QED
  BY <1>1, <1>2, <1>3 DEF Init, TypeOK, Types, Packs

LEMMA StepTypes == TypeOK /\ [Next]_vars => TypeOK'
<1>. SUFFICES ASSUME TypeOK, [Next]_vars
              PROVE  TypeOK'
  OBVIOUS
<1>1. CASE MainStep \/ \E c \in Channels : RecvFirst(c) \/ RecvNext(c) \/ RecvEmpty(c)
  BY <1>1, MainTypes
<1>2. CASE MediaStep
  BY <1>2, MediaTypes
<1>3. CASE \E b \in Buffers : AddLock(b) \/ AddPad(b) \/ Drain(b)
  BY <1>3, HttpTypes
<1>4. CASE UNCHANGED vars
  BY <1>4 DEF vars, main, media, http, past, TypeOK, Source
<1>5. QED
  BY <1>1, <1>2, <1>3, <1>4 DEF Next

\* The variables keep their types, whatever the sizes: neither udp_recv nor
\* do_pack_ts2ts puts more into a buffer than it holds, and the media thread's
\* pointers to a task and to a pad are of entries that are in the lists.
THEOREM TypeCorrect == Spec => []TypeOK
<1>1. Init => TypeOK
  BY InitTypes
<1>2. TypeOK /\ [Next]_vars => TypeOK'
  BY StepTypes
<1>3. QED
  BY <1>1, <1>2, PTL DEF Spec

----------------------------------------------------------------------------
(* Conservation.                                                           *)

\* Between its calls of kfifo_put the main thread holds nothing.
HoldsNothing == mainPc \notin {"put", "spin"} => pend = <<>>

\* The part of a channel's units that is still in udp_recv's local buffer.
Pending(c) == IF at = c THEN pend ELSE <<>>

Flow == \A c \in Channels : Flows(InFlight(c), got[c], ignored[c])

FlowInv == TypeOK /\ HoldsNothing /\ Flow

\* Flow says more than Conservation.
LEMMA FlowConserves == Flow => Conservation
  BY DEF Flow, Flows, Conservation

\* Units are numbers.
LEMMA UnitNumbers == Seq(Units) \subseteq Seq(Nat)
<1>1. Units \subseteq Nat
  <2>1. \A c \in Channels : MaxUnits[c] \in Nat
    BY RelayAssumption
  <2>2. QED
    BY <2>1 DEF Units
<1>2. ASSUME NEW s \in Seq(Units)
      PROVE  s \in Seq(Nat)
  <2>1. Len(s) \in Nat /\ \A i \in 1..Len(s) : s[i] \in Nat
    BY <1>1, ElementOfSeq, LenProperties
  <2>2. SubSeq(s, 1, Len(s)) \in Seq(Nat)
    BY <2>1, SubSeqProperties
  <2>3. QED
    BY <2>2, SubSeqFull
<1>3. QED
  BY <1>2

\* The grouping of a concatenation does not matter.
LEMMA Regrouped ==
    ASSUME NEW s \in Seq(Nat), NEW t \in Seq(Nat), NEW u \in Seq(Nat)
    PROVE  (s \o t) \o u = s \o (t \o u)
<1>. DEFINE a == (s \o t) \o u
            b == s \o (t \o u)
<1>1. /\ a \in Seq(Nat) /\ b \in Seq(Nat)
      /\ Len(s) \in Nat /\ Len(t) \in Nat /\ Len(u) \in Nat
      /\ Len(a) = Len(s) + Len(t) + Len(u) /\ Len(b) = Len(s) + Len(t) + Len(u)
  OBVIOUS
<1>2. ASSUME NEW i \in 1..Len(a)
      PROVE  a[i] = b[i]
  <2>1. CASE i <= Len(s)
    BY <1>1, <2>1
  <2>2. CASE i > Len(s) /\ i <= Len(s) + Len(t)
    BY <1>1, <2>2
  <2>3. CASE i > Len(s) + Len(t)
    BY <1>1, <2>3
  <2>4. QED
    BY <1>1, <2>1, <2>2, <2>3
<1>. HIDE DEF a, b
<1>3. a = b
  BY <1>1, <1>2, SeqEqual
<1>4. QED
  BY <1>3 DEF a, b

\* The three parts of a channel's units are sequences of numbers.
LEMMA PartTypes ==
    ASSUME TypeOK, NEW c \in Channels
    PROVE  /\ InHand(c) \in Seq(Nat) /\ fifo[c] \in Seq(Nat) /\ Pending(c) \in Seq(Nat)
           /\ InFlight(c) = (InHand(c) \o fifo[c]) \o Pending(c)
           /\ InFlight(c) \in Seq(Nat) /\ got[c] \in Nat
<1>1. chunk \in Seq(Units) /\ fifo[c] \in Seq(Units) /\ pend \in Seq(Units) /\ got[c] \in Nat
  BY DEF TypeOK
<1>2. InHand(c) \in Seq(Nat) /\ fifo[c] \in Seq(Nat) /\ Pending(c) \in Seq(Nat)
  BY <1>1, UnitNumbers, EmptySeq DEF InHand, Pending
<1>3. InFlight(c) = (InHand(c) \o fifo[c]) \o Pending(c)
  BY DEF InFlight, Pending
<1>4. (InHand(c) \o fifo[c]) \o Pending(c) \in Seq(Nat)
  BY <1>2, ConcatProperties
<1>5. QED
  BY <1>1, <1>2, <1>3, <1>4

\* More may be called dropped.
LEMMA FlowsDropped ==
    ASSUME NEW s, NEW g, NEW lost, NEW more, lost \subseteq more, Flows(s, g, lost)
    PROVE  Flows(s, g, more)
  BY DEF Flows

\* A step that leaves what is on its way, received and dropped.
LEMMA FlowStays ==
    ASSUME Flow, UNCHANGED <<got, ignored>>,
           \A c \in Channels : InFlight(c)' = InFlight(c)
    PROVE  Flow'
  BY DEF Flow

\* The same without a change of hand: the parts are what they were.
LEMMA PartsStay ==
    ASSUME Flow, UNCHANGED <<fifo, got, ignored>>,
           \A c \in Channels : InHand(c)' = InHand(c) /\ Pending(c)' = Pending(c)
    PROVE  Flow'
<1>1. \A c \in Channels : InFlight(c)' = InFlight(c)
  BY DEF InFlight, Pending
<1>2. QED
  BY <1>1, FlowStays

\* A datagram of a channel arrives while the thread holds nothing.
LEMMA FlowReceives ==
    ASSUME FlowInv, NEW c \in Channels, NEW n \in 1..MaxDgram, Receives(c, n),
           mainPc \notin {"put", "spin"}, at' = c, UNCHANGED <<fifo, ignored, tasks, media>>
    PROVE  Flow'
<1>1. ASSUME NEW d \in Channels
      PROVE  Flows(InFlight(d)', got'[d], ignored'[d])
  <2>. DEFINE X == InHand(d) \o fifo[d]
  <2>1. X \in Seq(Nat) /\ InFlight(d) = X \o Pending(d) /\ got[d] \in Nat
    BY PartTypes, ConcatProperties DEF FlowInv
  <2>2. Pending(d) = <<>>
    BY DEF FlowInv, HoldsNothing, Pending
  <2>3. Flows(X, got[d], ignored[d])
    BY <2>1, <2>2, ConcatEmptySeq DEF FlowInv, Flow
  <2>4. InHand(d)' = InHand(d)
    BY DEF InHand, Source, media
  <2>5. InFlight(d)' = X \o Pending(d)'
    BY <2>4 DEF InFlight, Pending
  <2>. HIDE DEF X
  <2>6. CASE d = c
    <3>1. Pending(d)' = [k \in 1..n |-> got[d] + k] /\ got'[d] = got[d] + n
      BY <2>6 DEF Pending, Receives, FlowInv, TypeOK
    <3>2. n \in Nat \ {0}
      BY Sizes
    <3>3. Flows(X \o [k \in 1..n |-> got[d] + k], got[d] + n, ignored[d])
      BY <2>1, <2>3, <3>2, FlowsOn
    <3>4. QED
      BY <2>5, <3>1, <3>3
  <2>7. CASE d # c
    <3>1. Pending(d)' = <<>> /\ got'[d] = got[d]
      BY <2>7 DEF Pending, Receives, FlowInv, TypeOK
    <3>2. QED
      BY <2>1, <2>3, <2>5, <3>1, ConcatEmptySeq
  <2>8. QED
    BY <2>6, <2>7
<1>2. QED
  BY <1>1 DEF Flow

\* A kfifo_put of udp_recv moves the front of the local buffer.
LEMMA FlowPuts ==
    ASSUME FlowInv, PutFirst \/ Spin
    PROVE  Flow'
<1>. DEFINE w == Least(Len(pend), Room(at))
            A == SubSeq(pend, 1, w)
            B == SubSeq(pend, w + 1, Len(pend))
<1>1. at \in Channels /\ pend \in Seq(Units) /\ Room(at) \in Nat
  <2>1. at \in Channels /\ pend \in Seq(Units)
    BY DEF PutFirst, Spin, FlowInv, TypeOK
  <2>2. Len(fifo[at]) \in Nat /\ Len(fifo[at]) <= InCap
    BY <2>1 DEF FlowInv, TypeOK
  <2>3. QED
    BY <2>1, <2>2, Sizes DEF Room
<1>2. A \in Seq(Nat) /\ B \in Seq(Nat) /\ pend = A \o B
  BY <1>1, Accepted, UnitNumbers
<1>3. fifo' = [fifo EXCEPT ![at] = fifo[at] \o A] /\ UNCHANGED <<got, tasks, media>>
  BY DEF PutFirst, Spin, past
<1>4. /\ PutFirst => pend' = <<>> /\ ignored' = [ignored EXCEPT ![at] = ignored[at] \cup ToSet(B)]
      /\ Spin => pend' = B /\ (B # <<>> => at' = at) /\ ignored' = ignored
  BY DEF PutFirst, Spin, past
<1>. HIDE DEF A, B, w
<1>5. ASSUME NEW d \in Channels
      PROVE  Flows(InFlight(d)', got'[d], ignored'[d])
  <2>. DEFINE H == InHand(d)
              F == fifo[d]
  <2>1. /\ H \in Seq(Nat) /\ F \in Seq(Nat) /\ InFlight(d) = (H \o F) \o Pending(d)
        /\ got[d] \in Nat /\ Flows(InFlight(d), got[d], ignored[d])
    BY PartTypes DEF FlowInv, Flow
  <2>2. InHand(d)' = H /\ InFlight(d)' = (H \o fifo'[d]) \o Pending(d)'
    <3>1. InHand(d)' = H
      BY <1>3 DEF InHand, Source, media
    <3>2. QED
      BY <3>1 DEF InFlight, Pending
  <2>. HIDE DEF H
  <2>3. CASE d # at
    <3>1. fifo'[d] = F /\ Pending(d) = <<>> /\ ignored'[d] = ignored[d]
      BY <1>3, <1>4, <2>3 DEF Pending, FlowInv, TypeOK
    <3>2. Pending(d)' = <<>>
      BY <1>4, <2>3 DEF Pending
    <3>3. QED
      BY <1>3, <2>1, <2>2, <3>1, <3>2
  <2>4. CASE d = at
    <3>1. fifo'[d] = F \o A /\ Pending(d) = A \o B
      BY <1>2, <1>3, <2>4 DEF Pending, FlowInv, TypeOK
    <3>. HIDE DEF F
    <3>2. /\ F \o A \in Seq(Nat) /\ H \o F \in Seq(Nat) /\ H \o (F \o A) \in Seq(Nat)
      BY <1>2, <2>1, ConcatProperties
    <3>3. (H \o F) \o (A \o B) = (H \o (F \o A)) \o B
      <4>1. (H \o F) \o (A \o B) = ((H \o F) \o A) \o B
        BY <1>2, <3>2, Regrouped, ZenonT(40)
      <4>2. (H \o F) \o A = H \o (F \o A)
        BY <1>2, <2>1, Regrouped
      <4>3. QED
        BY <4>1, <4>2
    <3>4. Flows((H \o (F \o A)) \o B, got[d], ignored[d])
      BY <2>1, <3>1, <3>3
    <3>5. CASE PutFirst
      <4>1. Flows(H \o (F \o A), got[d], ignored[d] \cup ToSet(B))
        BY <1>2, <2>1, <3>2, <3>4, FlowsBefore
      <4>2. Pending(d)' = <<>> /\ ignored'[d] = ignored[d] \cup ToSet(B) /\ got'[d] = got[d]
        BY <1>3, <1>4, <2>4, <3>5 DEF Pending, FlowInv, TypeOK
      <4>3. InFlight(d)' = H \o (F \o A)
        BY <2>2, <3>1, <3>2, <4>2, ConcatEmptySeq
      <4>4. QED
        BY <4>1, <4>2, <4>3
    <3>6. CASE Spin
      <4>1. Pending(d)' = B
        BY <1>4, <2>4, <3>6 DEF Pending
      <4>2. InFlight(d)' = (H \o (F \o A)) \o B
        BY <2>2, <3>1, <4>1
      <4>3. QED
        BY <1>3, <1>4, <3>4, <3>6, <4>2
    <3>7. QED
      BY <3>5, <3>6
  <2>5. QED
    BY <2>3, <2>4
<1>6. QED
  BY <1>5 DEF Flow

\* The media thread takes the front of a channel's buffer.
LEMMA FlowGets ==
    ASSUME FlowInv, PollGet
    PROVE  Flow'
<1>. DEFINE s == fifo[Source]
            n == Least(ChunkLen, Len(s))
            A == SubSeq(s, 1, n)
            B == SubSeq(s, n + 1, Len(s))
<1>1. Source \in Channels /\ s \in Seq(Units)
  BY SourceChannel DEF FlowInv, PollGet, TypeOK
<1>2. A \in Seq(Nat) /\ B \in Seq(Nat) /\ s = A \o B
  <2>1. Len(s) \in Nat
    BY <1>1, LenProperties
  <2>2. n \in 0..Len(s)
    BY <2>1, LeastRange, Sizes
  <2>. HIDE DEF n
  <2>3. QED
    BY <1>1, <2>2, Cut, UnitNumbers
<1>3. /\ fifo' = [fifo EXCEPT ![Source] = B] /\ chunk' = A /\ mediaPc' = "consume"
      /\ mediaPc = "poll" /\ UNCHANGED <<main, tasks, current, got, ignored>>
  BY DEF PollGet, past
<1>. HIDE DEF A, B, n
<1>4. ASSUME NEW d \in Channels
      PROVE  InFlight(d)' = InFlight(d)
  <2>1. fifo[d] \in Seq(Nat) /\ InFlight(d) = (InHand(d) \o fifo[d]) \o Pending(d)
    BY PartTypes DEF FlowInv
  <2>2. InHand(d) = <<>> /\ Pending(d)' = Pending(d) /\ Source' = Source
    BY <1>3 DEF InHand, Pending, main, Source
  <2>3. InHand(d)' = IF Source = d THEN A ELSE <<>>
    BY <1>3, <2>2 DEF InHand
  <2>4. InHand(d)' \o fifo'[d] = fifo[d]
    <3>1. CASE d = Source
      BY <1>2, <1>3, <2>3, <3>1 DEF FlowInv, TypeOK
    <3>2. CASE d # Source
      BY <1>3, <2>1, <2>3, <3>2, ConcatEmptySeq DEF FlowInv, TypeOK
    <3>3. QED
      BY <3>1, <3>2
  <2>5. InHand(d) \o fifo[d] = fifo[d]
    BY <2>1, <2>2, ConcatEmptySeq
  <2>6. QED
    BY <2>1, <2>2, <2>4, <2>5 DEF InFlight, Pending
<1>5. QED
  BY <1>3, <1>4, FlowStays DEF FlowInv

\* The media thread lets go of its chunk, or keeps it.
LEMMA FlowLeaves ==
    ASSUME FlowInv, Consume \/ PadNext
    PROVE  Flow'
<1>1. /\ UNCHANGED <<fifo, got, tasks, current, chunk>> /\ Source' = Source
      /\ \A d \in Channels : Pending(d)' = Pending(d)
      /\ mediaPc \in {"consume", "step"} /\ mediaPc' \in {"walk", "next"}
  BY DEF Consume, PadNext, past, Source, Pending, main
<1>2. Source \in Channels
  BY <1>1, SourceChannel DEF FlowInv
<1>3. \A d \in Channels : ignored[d] \subseteq ignored'[d]
  BY <1>2 DEF Consume, PadNext, past, FlowInv, TypeOK
<1>4. ASSUME NEW d \in Channels
      PROVE  Flows(InFlight(d)', got'[d], ignored'[d])
  <2>. DEFINE H == InHand(d)
              R == fifo[d] \o Pending(d)
  <2>1. /\ H \in Seq(Nat) /\ fifo[d] \in Seq(Nat) /\ Pending(d) \in Seq(Nat) /\ R \in Seq(Nat)
        /\ InFlight(d) = (H \o fifo[d]) \o Pending(d) /\ got[d] \in Nat
    BY PartTypes, ConcatProperties DEF FlowInv
  <2>2. InFlight(d)' = (InHand(d)' \o fifo[d]) \o Pending(d)
    BY <1>1 DEF InFlight, Pending
  <2>3. Flows(InFlight(d), got[d], ignored'[d])
    BY <1>3, FlowsDropped DEF FlowInv, Flow
  <2>4. InHand(d)' = H \/ InHand(d)' = <<>>
    BY <1>1 DEF InHand
  <2>5. InFlight(d) = H \o R
    BY <2>1, Regrouped
  <2>. HIDE DEF H, R
  <2>6. CASE InHand(d)' = H
    BY <1>1, <2>1, <2>2, <2>3, <2>6
  <2>7. CASE InHand(d)' = <<>>
    <3>1. InFlight(d)' = R
      BY <2>1, <2>2, <2>7, ConcatEmptySeq DEF R
    <3>2. Flows(R, got[d], ignored'[d])
      BY <2>1, <2>3, <2>5, FlowsBehind
    <3>3. QED
      BY <1>1, <3>1, <3>2
  <2>8. QED
    BY <2>4, <2>6, <2>7
<1>5. QED
  BY <1>4 DEF Flow

\* The other steps leave the streams alone; Attach appends to the list of
\* tasks behind the current one.
LEMMA FlowOther ==
    ASSUME FlowInv,
           \/ Setype \/ Attach \/ RecvAgain \/ \E c \in Channels : RecvEmpty(c)
           \/ FirstTask \/ PollEmpty \/ PadPut \/ TaskNext
           \/ \E b \in Buffers : AddLock(b) \/ AddPad(b) \/ Drain(b)
           \/ UNCHANGED vars
    PROVE  Flow'
<1>1. UNCHANGED <<fifo, got, ignored>>
  BY DEF Setype, Attach, RecvAgain, RecvEmpty, FirstTask, PollEmpty, PadPut, TaskNext,
         AddLock, AddPad, Drain, vars, past
<1>2. ASSUME NEW d \in Channels
      PROVE  Pending(d)' = Pending(d)
  <2>1. CASE RecvAgain \/ \E c \in Channels : RecvEmpty(c)
    BY <2>1 DEF RecvAgain, RecvEmpty, Pending, FlowInv, HoldsNothing
  <2>2. CASE ~(RecvAgain \/ \E c \in Channels : RecvEmpty(c))
    BY <2>2 DEF Setype, Attach, FirstTask, PollEmpty, PadPut, TaskNext,
                AddLock, AddPad, Drain, vars, main, Pending
  <2>3. QED
    BY <2>1, <2>2
<1>3. ASSUME NEW d \in Channels
      PROVE  InHand(d)' = InHand(d)
  <2>1. CASE FirstTask \/ PollEmpty \/ TaskNext
    BY <2>1 DEF FirstTask, PollEmpty, TaskNext, InHand
  <2>2. CASE PadPut
    BY <2>2 DEF PadPut, InHand, Source
  <2>3. CASE Attach
    <3>1. mediaPc # "head" => Source' = Source
      <4>1. mediaPc # "head" => current \in 1..Len(tasks)
        BY SourceChannel DEF FlowInv
      <4>2. at \in Channels /\ tasks \in Seq(Channels)
        BY <2>3 DEF Attach, FlowInv, TypeOK
      <4>3. QED
        BY <2>3, <4>1, <4>2, Grown DEF Attach, Source, media
    <3>2. QED
      BY <2>3, <3>1 DEF Attach, InHand, media
  <2>4. CASE ~(FirstTask \/ PollEmpty \/ TaskNext \/ PadPut \/ Attach)
    BY <2>4 DEF Setype, RecvAgain, RecvEmpty, AddLock, AddPad, Drain, vars, media, InHand, Source
  <2>5. QED
    BY <2>1, <2>2, <2>3, <2>4
<1>4. QED
  BY <1>1, <1>2, <1>3, PartsStay DEF FlowInv

\* The main thread holds units only where a kfifo_put is to come.
LEMMA HoldsStep ==
    ASSUME FlowInv, [Next]_vars
    PROVE  HoldsNothing'
<1>1. CASE MainStep
  BY <1>1 DEF MainStep, PutFirst, Setype, Attach, RecvAgain, Spin, FlowInv, HoldsNothing
<1>2. ASSUME NEW c \in Channels, RecvFirst(c) \/ RecvNext(c) \/ RecvEmpty(c)
      PROVE  HoldsNothing'
  BY <1>2 DEF RecvFirst, RecvNext, RecvEmpty, FlowInv, HoldsNothing
<1>3. CASE UNCHANGED main
  BY <1>3 DEF main, FlowInv, HoldsNothing
<1>4. MediaStep \/ UNCHANGED vars \/ (\E b \in Buffers : AddLock(b) \/ AddPad(b) \/ Drain(b))
         => UNCHANGED main
  BY DEF MediaStep, FirstTask, PollEmpty, PollGet, Consume, PadPut, PadNext, TaskNext,
         AddLock, AddPad, Drain, vars
<1>5. QED
  BY <1>1, <1>2, <1>3, <1>4 DEF Next

LEMMA FlowStep ==
    ASSUME FlowInv, [Next]_vars
    PROVE  Flow'
<1>1. ASSUME NEW c \in Channels, RecvFirst(c)
      PROVE  Flow'
  BY <1>1, FlowReceives DEF RecvFirst
<1>2. ASSUME NEW c \in Channels, RecvNext(c)
      PROVE  Flow'
  BY <1>2, FlowReceives DEF RecvNext
<1>3. CASE PutFirst \/ Spin
  BY <1>3, FlowPuts
<1>4. CASE PollGet
  BY <1>4, FlowGets
<1>5. CASE Consume \/ PadNext
  BY <1>5, FlowLeaves
<1>6. QED
  BY <1>1, <1>2, <1>3, <1>4, <1>5, FlowOther DEF Next, MainStep, MediaStep

LEMMA InitFlow == Init => FlowInv
<1>. SUFFICES ASSUME Init
              PROVE  FlowInv
  OBVIOUS
<1>1. TypeOK /\ HoldsNothing
  BY InitTypes DEF Init, HoldsNothing
<1>2. ASSUME NEW c \in Channels
      PROVE  Flows(InFlight(c), got[c], ignored[c])
  <2>1. InHand(c) = <<>> /\ fifo[c] = <<>> /\ Pending(c) = <<>>
    BY DEF Init, InHand, Pending
  <2>2. InFlight(c) = <<>>
    BY <2>1 DEF InFlight, Pending
  <2>3. QED
    BY <2>2, EmptySeq DEF Flows, Increasing
<1>3. QED
  BY <1>1, <1>2 DEF FlowInv, Flow

LEMMA StepFlow == FlowInv /\ [Next]_vars => FlowInv'
  BY StepTypes, HoldsStep, FlowStep DEF FlowInv

\* Whatever the sizes of the buffers, chunks and datagrams, and however the two
\* threads interleave, the units of a channel stay in order from udp_recv to
\* do_pack_ts2ts, and none goes missing but for want of room for the first
\* datagram or of a supported format.
THEOREM Conserved == Spec => []Conservation
<1>1. FlowInv => Conservation
  BY FlowConserves DEF FlowInv
<1>2. QED
  BY <1>1, InitFlow, StepFlow, PTL DEF Spec

----------------------------------------------------------------------------
(* The start of a channel.                                                 *)

Attached(c) == \E i \in DOMAIN tasks : tasks[i] = c

AttachedOnce(c) == \A i, j \in DOMAIN tasks : tasks[i] = c /\ tasks[j] = c => i = j

\* A channel whose format is not known, and which received nothing, is not
\* seen by the media thread; udp_recv puts its first datagram into an empty
\* buffer, and sets the pack type before it attaches the channel.
Started(c) ==
    /\ type[c] = "Unknown" => fifo[c] = <<>> /\ ~Attached(c)
    /\ type[c] # "FLV" => ignored[c] = {}
    /\ type[c] = "TS" /\ Attached(c) => pack[c] = "TS2TS"
    /\ AttachedOnce(c)
    /\ mainPc # "wait" /\ at = c =>
          /\ type[c] # "Unknown"
          /\ mainPc = "put" => fifo[c] = <<>> /\ Len(pend) <= MaxDgram
          /\ mainPc \in {"put", "setype", "attach"} => ~Attached(c)
          /\ mainPc = "attach" /\ type[c] = "TS" => pack[c] = "TS2TS"

StartInv == TypeOK /\ \A c \in Channels \ odd : Started(c)

\* An entry that occurs once is counted once.
LEMMA CountOnce ==
    ASSUME NEW c, AttachedOnce(c)
    PROVE  Cardinality({i \in DOMAIN tasks : tasks[i] = c}) <= 1
<1>. DEFINE S == {i \in DOMAIN tasks : tasks[i] = c}
<1>1. CASE S = {}
  BY <1>1, FS_EmptySet
<1>2. CASE S # {}
  <2>1. PICK i \in DOMAIN tasks : tasks[i] = c
    BY <1>2
  <2>2. S = {i}
    BY <2>1 DEF AttachedOnce
  <2>. HIDE DEF S
  <2>3. Cardinality(S) = 1
    BY <2>2, FS_Singleton
  <2>4. QED
    BY <2>3 DEF S
<1>3. QED
  BY <1>1, <1>2

LEMMA StartedClean == StartInv => CleanStart
  BY CountOnce DEF StartInv, Started, CleanStart

\* What a channel's start depends on.
LEMMA StartStays ==
    ASSUME NEW c, Started(c),
           UNCHANGED <<type, tasks, pend>>,
           fifo'[c] = fifo[c], pack'[c] = pack[c], ignored'[c] = ignored[c],
           mainPc' = "wait" \/ UNCHANGED <<mainPc, at>>
    PROVE  Started(c)'
  BY DEF Started, Attached, AttachedOnce

\* The main thread's steps.
LEMMA StartMain ==
    ASSUME StartInv, NEW c \in Channels, c \notin odd',
           MainStep \/ \E d \in Channels : RecvFirst(d) \/ RecvNext(d) \/ RecvEmpty(d)
    PROVE  Started(c)'
<1>1. TypeOK /\ (c \notin odd => Started(c))
  BY DEF StartInv
<1>2. ASSUME NEW d \in Channels, RecvFirst(d)
      PROVE  Started(c)'
  <2>1. c \notin odd /\ Started(c)
    BY <1>1, <1>2 DEF RecvFirst
  <2>2. /\ UNCHANGED <<fifo, pack, tasks, ignored>> /\ mainPc' = "put" /\ at' = d
        /\ type[d] = "Unknown" /\ mainPc = "wait"
    BY <1>2 DEF RecvFirst
  <2>3. PICK n \in 1..MaxDgram : Receives(d, n)
    BY <1>2 DEF RecvFirst
  <2>4. Len(pend') <= MaxDgram
    <3>1. n \in Nat /\ n <= MaxDgram
      BY Sizes
    <3>2. Len(pend') = n
      BY <2>3, <3>1 DEF Receives
    <3>3. QED
      BY <3>1, <3>2
  <2>5. CASE c = d
    <3>1. type'[c] # "Unknown"
      BY <1>1, <1>2, <2>5 DEF RecvFirst, TypeOK
    <3>2. QED
      BY <2>1, <2>2, <2>4, <2>5, <3>1 DEF Started, Attached, AttachedOnce
  <2>6. CASE c # d
    <3>1. type'[c] = type[c]
      BY <1>1, <1>2, <2>6 DEF RecvFirst, TypeOK
    <3>2. QED
      BY <2>1, <2>2, <2>6, <3>1 DEF Started, Attached, AttachedOnce
  <2>7. QED
    BY <2>5, <2>6
<1>3. ASSUME NEW d \in Channels, RecvNext(d)
      PROVE  Started(c)'
  <2>1. /\ Started(c) /\ UNCHANGED <<type, fifo, pack, tasks, ignored>>
        /\ mainPc' = "spin" /\ at' = d
    BY <1>1, <1>3 DEF RecvNext
  <2>2. d = c => type[c] # "Unknown"
    BY <1>3, <2>1 DEF RecvNext, Started
  <2>3. QED
    BY <2>1, <2>2 DEF Started, Attached, AttachedOnce
<1>4. ASSUME NEW d \in Channels, RecvEmpty(d)
      PROVE  Started(c)'
  BY <1>1, <1>4, StartStays DEF RecvEmpty, past
<1>5. CASE PutFirst
  <2>1. /\ Started(c) /\ UNCHANGED <<type, pack, tasks, at>> /\ mainPc' = "setype"
        /\ mainPc = "put" /\ at \in Channels /\ pend \in Seq(Units)
    BY <1>1, <1>5 DEF PutFirst, TypeOK
  <2>2. CASE c = at
    <3>. DEFINE w == Least(Len(pend), Room(at))
    <3>1. /\ Len(pend) \in Nat /\ Len(pend) <= MaxDgram /\ fifo[at] = <<>>
          /\ type[c] # "Unknown" /\ ~Attached(c)
      BY <2>1, <2>2, LenProperties DEF Started
    <3>2. Room(at) = InCap
      BY <3>1, EmptySeq, Sizes DEF Room
    <3>3. w = Len(pend)
      BY <3>1, <3>2, Sizes DEF Least
    <3>. HIDE DEF w
    <3>4. SubSeq(pend, w + 1, Len(pend)) = <<>>
      BY <3>1, <3>3, SubSeqEmpty
    <3>5. ToSet(SubSeq(pend, w + 1, Len(pend))) = {}
      <4>1. DOMAIN <<>> = {}
        OBVIOUS
      <4>2. QED
        BY <3>4, <4>1 DEF ToSet
    <3>6. ignored'[c] = ignored[c]
      BY <1>1, <1>5, <2>1, <2>2, <3>5 DEF PutFirst, TypeOK, w
    <3>7. QED
      BY <2>1, <2>2, <3>1, <3>6 DEF Started, Attached, AttachedOnce
  <2>3. CASE c # at
    <3>1. fifo'[c] = fifo[c] /\ ignored'[c] = ignored[c]
      BY <1>1, <1>5, <2>1, <2>3 DEF PutFirst, TypeOK
    <3>2. QED
      BY <2>1, <2>3, <3>1 DEF Started, Attached, AttachedOnce
  <2>4. QED
    BY <2>2, <2>3
<1>6. CASE Setype
  <2>1. /\ Started(c) /\ UNCHANGED <<type, fifo, tasks, ignored, at>> /\ mainPc' = "attach"
        /\ mainPc = "setype" /\ at \in Channels /\ pack \in [Channels -> Packs]
    BY <1>1, <1>6 DEF Setype, TypeOK, past
  <2>2. CASE c = at
    <3>1. type[c] = "TS" => pack'[c] = "TS2TS"
      BY <1>6, <2>1, <2>2 DEF Setype
    <3>2. QED
      BY <2>1, <2>2, <3>1 DEF Started, Attached, AttachedOnce
  <2>3. CASE c # at
    <3>1. pack'[c] = pack[c]
      BY <1>6, <2>1, <2>3 DEF Setype
    <3>2. QED
      BY <2>1, <2>3, <3>1 DEF Started, Attached, AttachedOnce
  <2>4. QED
    BY <2>2, <2>3
<1>7. CASE Attach
  <2>1. /\ Started(c) /\ UNCHANGED <<type, fifo, pack, ignored, at>> /\ mainPc' = "recv"
        /\ mainPc = "attach" /\ at \in Channels /\ tasks \in Seq(Channels)
        /\ Len(tasks) \in Nat
    BY <1>1, <1>7, LenProperties DEF Attach, TypeOK, past
  <2>2. /\ DOMAIN tasks = 1..Len(tasks) /\ DOMAIN tasks' = 1..(Len(tasks) + 1)
        /\ \A i \in 1..Len(tasks) : tasks'[i] = tasks[i]
        /\ tasks'[Len(tasks) + 1] = at
    BY <1>7, <2>1 DEF Attach
  <2>3. CASE c = at
    <3>1. ~Attached(c) /\ type[c] # "Unknown" /\ (type[c] = "TS" => pack[c] = "TS2TS")
      BY <2>1, <2>3 DEF Started
    <3>2. \A i \in DOMAIN tasks' : tasks'[i] = c => i = Len(tasks) + 1
      BY <2>1, <2>2, <3>1 DEF Attached
    <3>3. AttachedOnce(c)'
      BY <3>2 DEF AttachedOnce
    <3>4. QED
      BY <2>1, <2>3, <3>1, <3>3 DEF Started
  <2>4. CASE c # at
    <3>1. \A i \in DOMAIN tasks' : tasks'[i] = c => i \in DOMAIN tasks /\ tasks[i] = c
      BY <2>1, <2>2, <2>4
    <3>2. (Attached(c)' => Attached(c)) /\ AttachedOnce(c)'
      BY <2>1, <3>1 DEF Attached, AttachedOnce, Started
    <3>3. QED
      BY <2>1, <2>4, <3>2 DEF Started
  <2>5. QED
    BY <2>3, <2>4
<1>8. CASE RecvAgain
  BY <1>1, <1>8, StartStays DEF RecvAgain, past
<1>9. CASE Spin
  <2>1. /\ Started(c) /\ UNCHANGED <<type, pack, tasks, ignored>> /\ mainPc = "spin"
        /\ at \in Channels /\ fifo \in [Channels -> Seq(Units)]
        /\ (mainPc' = "wait" \/ UNCHANGED <<mainPc, at>>)
    BY <1>1, <1>9 DEF Spin, TypeOK, past
  <2>2. type[c] = "Unknown" => fifo'[c] = fifo[c]
    <3>1. type[c] = "Unknown" => c # at
      BY <2>1 DEF Started
    <3>2. QED
      BY <1>9, <2>1, <3>1 DEF Spin
  <2>3. QED
    BY <2>1, <2>2 DEF Started, Attached, AttachedOnce
<1>10. QED
  BY <1>2, <1>3, <1>4, <1>5, <1>6, <1>7, <1>8, <1>9 DEF MainStep

\* The media thread's steps: it gets, and drops, of attached channels only.
LEMMA StartMedia ==
    ASSUME StartInv, NEW c \in Channels \ odd, MediaStep
    PROVE  Started(c)'
<1>1. TypeOK /\ Started(c)
  BY DEF StartInv
<1>2. UNCHANGED <<main, pack, tasks>>
  BY DEF MediaStep, FirstTask, PollEmpty, PollGet, Consume, PadPut, PadNext, TaskNext
<1>3. mediaPc # "head" /\ Source = c => Attached(c)
  BY <1>1, SourceChannel DEF Attached, Source, TypeOK
<1>4. CASE PollGet
  <2>1. type[c] = "Unknown" => fifo'[c] = fifo[c]
    BY <1>1, <1>3, <1>4 DEF PollGet, Started, TypeOK
  <2>2. mainPc = "put" /\ at = c => fifo'[c] = fifo[c]
    BY <1>1, <1>3, <1>4 DEF PollGet, Started, TypeOK
  <2>3. ignored' = ignored
    BY <1>4 DEF PollGet, past
  <2>4. QED
    BY <1>1, <1>2, <2>1, <2>2, <2>3 DEF Started, Attached, AttachedOnce, main
<1>5. CASE Consume
  <2>1. fifo' = fifo /\ mediaPc # "head"
    BY <1>5 DEF Consume
  <2>2. type[c] # "FLV" => ignored'[c] = ignored[c]
    <3>1. CASE Source = c
      <4>1. type[c] # "FLV" => pack[c] = "TS2TS"
        BY <1>1, <1>3, <2>1, <3>1 DEF Started, TypeOK, Types
      <4>2. QED
        BY <1>5, <3>1, <4>1 DEF Consume
    <3>2. CASE Source # c
      BY <1>1, <1>5, <3>2 DEF Consume, TypeOK
    <3>3. QED
      BY <3>1, <3>2
  <2>3. QED
    BY <1>1, <1>2, <2>1, <2>2 DEF Started, Attached, AttachedOnce, main
<1>6. CASE FirstTask \/ PollEmpty \/ PadPut \/ PadNext \/ TaskNext
  <2>1. UNCHANGED <<fifo, ignored>>
    BY <1>6 DEF FirstTask, PollEmpty, PadPut, PadNext, TaskNext, past
  <2>2. QED
    BY <1>1, <1>2, <2>1, StartStays DEF main
<1>7. QED
  BY <1>4, <1>5, <1>6 DEF MediaStep

LEMMA StartStep ==
    ASSUME StartInv, [Next]_vars, NEW c \in Channels \ odd'
    PROVE  Started(c)'
<1>1. CASE MainStep \/ \E d \in Channels : RecvFirst(d) \/ RecvNext(d) \/ RecvEmpty(d)
  BY <1>1, StartMain
<1>2. CASE MediaStep
  <2>1. odd' = odd
    BY <1>2 DEF MediaStep, FirstTask, PollEmpty, PollGet, Consume, PadPut, PadNext, TaskNext, past
  <2>2. QED
    BY <1>2, <2>1, StartMedia
<1>3. CASE UNCHANGED vars \/ \E b \in Buffers : AddLock(b) \/ AddPad(b) \/ Drain(b)
  <2>1. UNCHANGED <<main, fifo, pack, tasks, past>>
    BY <1>3 DEF vars, AddLock, AddPad, Drain
  <2>2. Started(c)
    BY <2>1 DEF StartInv, past
  <2>3. QED
    BY <2>1, <2>2, StartStays DEF main, past
<1>4. QED
  BY <1>1, <1>2, <1>3 DEF Next

\* A TS channel whose first datagram was recognised loses nothing before the
\* pads, and every channel is attached at most once, for any number of
\* channels and any buffer that takes a datagram (udp_recv, channel.c:61-125).
THEOREM StartIsClean == Spec => []CleanStart
<1>1. Init => StartInv
  <2>. SUFFICES ASSUME Init
                PROVE  StartInv
    OBVIOUS
  <2>1. DOMAIN tasks = {}
    BY DEF Init
  <2>2. QED
    BY <2>1, InitTypes DEF Init, StartInv, Started, Attached, AttachedOnce
<1>2. StartInv /\ [Next]_vars => StartInv'
  BY StepTypes, StartStep DEF StartInv
<1>3. StartInv => CleanStart
  BY StartedClean
<1>4. QED
  BY <1>1, <1>2, <1>3, PTL DEF Spec

----------------------------------------------------------------------------
(* What a buffer that is registered once gets.                             *)

Entries(b) == {i \in DOMAIN pads[Out[b]] : pads[Out[b]][i] = b}
Never(b)   == Entries(b) = {}
Once(b)    == \E p \in Entries(b) : Entries(b) = {p}

\* The chunk in hand is still to be put to b.
Coming(b) ==
    /\ Source = Out[b]
    /\ \/ mediaPc = "consume"
       \/ mediaPc = "walk" /\ \E i \in Entries(b) : i >= pad
       \/ mediaPc = "step" /\ \E i \in Entries(b) : i > pad

Todo(b) == IF Coming(b) THEN chunk ELSE <<>>

\* What udp_recv accepted, or is about to, and the media thread did not get.
Rest(c) == fifo[c] \o Pending(c)

\* What b got and what is still to come, as long as it has room.
Stream(b) == (put[b] \o Todo(b)) \o Rest(Out[b])

Dropped(b) == missed[b] \cup ignored[Out[b]]

\* A buffer is a pad of its own channel's media only.
Owners == \A c \in Channels : \A i \in DOMAIN pads[c] : Out[pads[c][i]] = c

Delivered(b) ==
    /\ Never(b) => put[b] = <<>>
    /\ Once(b) => Flows(Stream(b), got[Out[b]], Dropped(b))

StreamInv == FlowInv /\ Owners /\ \A b \in Buffers : Delivered(b)

\* The number of registrations and their set.
LEMMA Counted ==
    ASSUME TypeOK, NEW b \in Buffers
    PROVE  Registrations(b) = 1 => Once(b)
<1>. DEFINE S == Entries(b)
<1>1. pads[Out[b]] \in Seq(Buffers)
  BY RelayAssumption DEF TypeOK
<1>2. DOMAIN pads[Out[b]] = 1..Len(pads[Out[b]]) /\ Len(pads[Out[b]]) \in Nat
  BY <1>1
<1>3. IsFiniteSet(S)
  <2>1. IsFiniteSet(1..Len(pads[Out[b]]))
    BY <1>2, FS_Interval
  <2>2. S \subseteq 1..Len(pads[Out[b]])
    BY <1>2 DEF Entries
  <2>3. QED
    BY <2>1, <2>2, FS_Subset
<1>4. Registrations(b) = Cardinality(S)
  BY DEF Registrations, Entries
<1>. HIDE DEF S
<1>5. Cardinality(S) = 1 => \E p : S = {p}
  BY <1>3, FS_Singleton
<1>6. QED
  BY <1>4, <1>5 DEF Once, S

\* The parts of a stream are sequences of numbers.
LEMMA StreamTypes ==
    ASSUME TypeOK, NEW b \in Buffers
    PROVE  /\ put[b] \in Seq(Nat) /\ Todo(b) \in Seq(Nat) /\ chunk \in Seq(Nat)
           /\ fifo[Out[b]] \in Seq(Nat) /\ Pending(Out[b]) \in Seq(Nat)
           /\ Rest(Out[b]) \in Seq(Nat) /\ put[b] \o Todo(b) \in Seq(Nat)
           /\ Out[b] \in Channels /\ got[Out[b]] \in Nat
<1>1. Out[b] \in Channels
  BY RelayAssumption
<1>2. put[b] \in Seq(Nat) /\ chunk \in Seq(Nat)
  BY UnitNumbers DEF TypeOK
<1>3. Todo(b) \in Seq(Nat)
  BY <1>2, EmptySeq DEF Todo
<1>4. fifo[Out[b]] \in Seq(Nat) /\ Pending(Out[b]) \in Seq(Nat) /\ got[Out[b]] \in Nat
  BY <1>1, PartTypes
<1>5. QED
  BY <1>1, <1>2, <1>3, <1>4, ConcatProperties DEF Rest

\* Delivered says more than PadStream.
LEMMA StreamDelivers == StreamInv => PadStream
<1>. SUFFICES ASSUME StreamInv, NEW b \in Buffers, Registrations(b) = 1
              PROVE  /\ Increasing(put[b])
                     /\ \A i \in 1..Len(put[b])-1 :
                           (put[b][i]+1)..(put[b][i+1]-1) \subseteq missed[b] \cup ignored[Out[b]]
  BY DEF PadStream
<1>. DEFINE p == put[b]
            n == Len(p)
            r == Todo(b) \o Rest(Out[b])
            t == p \o r
            g == got[Out[b]]
            lost == Dropped(b)
<1>1. p \in Seq(Nat) /\ r \in Seq(Nat) /\ g \in Nat
  BY StreamTypes, ConcatProperties DEF StreamInv, FlowInv
<1>2. Flows(t, g, lost)
  <2>1. Flows(Stream(b), g, lost)
    BY Counted DEF StreamInv, FlowInv, Delivered
  <2>2. Stream(b) = t
    <3>1. put[b] \in Seq(Nat) /\ Todo(b) \in Seq(Nat) /\ Rest(Out[b]) \in Seq(Nat)
      BY StreamTypes DEF StreamInv, FlowInv
    <3>2. (put[b] \o Todo(b)) \o Rest(Out[b]) = put[b] \o (Todo(b) \o Rest(Out[b]))
      BY <3>1, Regrouped
    <3>3. QED
      BY <3>2 DEF Stream
  <2>3. QED
    BY <2>1, <2>2
<1>. HIDE DEF r, g, lost, p
<1>3. /\ t \in Seq(Nat) /\ n \in Nat /\ Len(t) \in Nat /\ n <= Len(t) /\ DOMAIN p = 1..n
      /\ \A i \in 1..n : t[i] = p[i] /\ p[i] \in Nat
  BY <1>1, Joined
<1>4. \A i \in 1..Len(t) : t[i] \in Nat
  BY <1>3, ElementOfSeq
<1>. HIDE DEF t, n
<1>5. /\ \A i, j \in 1..Len(t) : i < j => t[i] < t[j]
      /\ \A i \in 1..Len(t) : t[i] <= g
      /\ Len(t) > 0 => \A u \in t[1]..g : u \in lost \/ \E i \in 1..Len(t) : t[i] = u
  BY <1>1, <1>2, <1>3, Indexed
<1>6. Increasing(p)
  <2>1. \A i \in 1..n : i \in 1..Len(t)
    BY <1>3
  <2>2. QED
    BY <1>3, <1>5, <2>1 DEF Increasing
<1>7. ASSUME NEW i \in 1..n-1, NEW u \in (p[i]+1)..(p[i+1]-1)
      PROVE  u \in lost
  <2>1. /\ i \in 1..n /\ i + 1 \in 1..n /\ 1 \in 1..Len(t) /\ i \in 1..Len(t) /\ i + 1 \in 1..Len(t)
        /\ Len(t) > 0
    BY <1>3
  <2>2. p[i] = t[i] /\ p[i+1] = t[i+1] /\ t[i] \in Nat /\ t[i+1] \in Nat /\ t[1] \in Nat
    BY <1>3, <1>4, <2>1
  <2>3. t[i] < u /\ u < t[i+1] /\ u \in Int
    BY <2>2
  <2>4. t[1] <= t[i] /\ t[i+1] <= g
    <3>1. t[i+1] <= g
      BY <1>5, <2>1
    <3>2. CASE i = 1
      BY <2>2, <3>1, <3>2
    <3>3. CASE 1 < i
      BY <1>5, <2>1, <2>2, <3>1, <3>3
    <3>4. QED
      BY <3>2, <3>3
  <2>5. u \in t[1]..g
    BY <1>1, <2>2, <2>3, <2>4
  <2>6. ASSUME NEW k \in 1..Len(t), t[k] = u
        PROVE  FALSE
    <3>1. ~(k < i) /\ k # i /\ ~(i + 1 < k) /\ k # i + 1
      BY <1>4, <1>5, <2>1, <2>2, <2>3, <2>6
    <3>2. QED
      BY <3>1
  <2>7. QED
    BY <1>5, <2>1, <2>5, <2>6
<1>8. QED
  BY <1>6, <1>7 DEF p, n, lost, Dropped

\* What the registrations of a buffer depend on.
LEMMA EntriesStay ==
    ASSUME NEW b \in Buffers, UNCHANGED pads
    PROVE  Entries(b)' = Entries(b) /\ Never(b)' = Never(b) /\ Once(b)' = Once(b)
  BY DEF Entries, Never, Once

\* A step that puts nothing to b and leaves what is still to come.
LEMMA DeliveredStays ==
    ASSUME NEW b \in Buffers, Delivered(b),
           UNCHANGED <<pads, put, missed>>,
           got'[Out[b]] = got[Out[b]], ignored[Out[b]] \subseteq ignored'[Out[b]],
           Once(b) => Todo(b)' = Todo(b),
           Rest(Out[b])' = Rest(Out[b])
    PROVE  Delivered(b)'
<1>1. Never(b)' = Never(b) /\ Once(b)' = Once(b)
  BY EntriesStay
<1>2. Dropped(b) \subseteq Dropped(b)'
  BY DEF Dropped
<1>3. ASSUME Once(b)
      PROVE  Flows(Stream(b)', got'[Out[b]], Dropped(b)')
  <2>1. Stream(b)' = Stream(b)
    BY <1>3 DEF Stream
  <2>2. Flows(Stream(b), got[Out[b]], Dropped(b)')
    BY <1>2, <1>3, FlowsDropped DEF Delivered
  <2>3. QED
    BY <2>1, <2>2
<1>4. QED
  BY <1>1, <1>3 DEF Delivered

\* A datagram of a channel arrives while the thread holds nothing.
LEMMA DeliveredReceives ==
    ASSUME StreamInv, NEW c \in Channels, NEW n \in 1..MaxDgram, Receives(c, n),
           mainPc \notin {"put", "spin"}, at' = c,
           UNCHANGED <<fifo, ignored, tasks, media, pads, put, missed>>,
           NEW b \in Buffers
    PROVE  Delivered(b)'
<1>. DEFINE P == put[b] \o Todo(b)
            F == fifo[Out[b]]
<1>1. /\ P \in Seq(Nat) /\ F \in Seq(Nat) /\ Out[b] \in Channels /\ got[Out[b]] \in Nat
  BY StreamTypes DEF StreamInv, FlowInv
<1>2. Todo(b)' = Todo(b)
  BY DEF Todo, Coming, Entries, Source, media
<1>3. Rest(Out[b]) = F
  <2>1. Pending(Out[b]) = <<>>
    BY DEF StreamInv, FlowInv, HoldsNothing, Pending
  <2>2. QED
    BY <1>1, <2>1, ConcatEmptySeq DEF Rest
<1>4. Rest(Out[b])' = F \o Pending(Out[b])'
  BY DEF Rest, Pending
<1>5. CASE Out[b] # c
  <2>1. Pending(Out[b])' = <<>> /\ got'[Out[b]] = got[Out[b]]
    BY <1>1, <1>5 DEF Pending, Receives, StreamInv, FlowInv, TypeOK
  <2>2. Rest(Out[b])' = Rest(Out[b])
    BY <1>1, <1>3, <1>4, <2>1, ConcatEmptySeq
  <2>3. QED
    BY <1>2, <2>1, <2>2, DeliveredStays DEF StreamInv
<1>6. CASE Out[b] = c
  <2>. DEFINE d == [k \in 1..n |-> got[c] + k]
  <2>1. Pending(Out[b])' = d /\ got'[Out[b]] = got[c] + n /\ got[c] \in Nat
    BY <1>1, <1>6 DEF Pending, Receives, StreamInv, FlowInv, TypeOK
  <2>2. n \in Nat \ {0}
    BY Sizes
  <2>3. d \in Seq(Nat)
    BY <2>1, <2>2
  <2>. HIDE DEF P, F
  <2>4. ASSUME Once(b)
        PROVE  Flows((P \o F) \o d, got[c] + n, Dropped(b))
    <3>1. Flows(P \o F, got[c], Dropped(b))
      BY <1>3, <1>6, <2>4 DEF StreamInv, Delivered, Stream, P
    <3>2. P \o F \in Seq(Nat)
      BY <1>1, ConcatProperties
    <3>3. QED
      BY <2>1, <2>2, <3>1, <3>2, FlowsOn
  <2>. HIDE DEF d
  <2>5. Stream(b)' = (P \o F) \o d
    <3>1. Stream(b)' = P \o (F \o d)
      BY <1>2, <1>4, <2>1 DEF Stream, P
    <3>2. QED
      BY <1>1, <2>3, <3>1, Regrouped
  <2>6. Dropped(b)' = Dropped(b)
    BY DEF Dropped
  <2>7. Never(b)' = Never(b) /\ Once(b)' = Once(b)
    BY EntriesStay
  <2>8. QED
    BY <2>1, <2>4, <2>5, <2>6, <2>7 DEF StreamInv, Delivered
<1>7. QED
  BY <1>5, <1>6

\* A kfifo_put of udp_recv.
LEMMA DeliveredPuts ==
    ASSUME StreamInv, PutFirst \/ Spin, NEW b \in Buffers
    PROVE  Delivered(b)'
<1>. DEFINE w == Least(Len(pend), Room(at))
            A == SubSeq(pend, 1, w)
            B == SubSeq(pend, w + 1, Len(pend))
            P == put[b] \o Todo(b)
            F == fifo[Out[b]]
<1>1. at \in Channels /\ pend \in Seq(Units) /\ Room(at) \in Nat
  <2>1. at \in Channels /\ pend \in Seq(Units)
    BY DEF PutFirst, Spin, StreamInv, FlowInv, TypeOK
  <2>2. Len(fifo[at]) \in Nat /\ Len(fifo[at]) <= InCap
    BY <2>1 DEF StreamInv, FlowInv, TypeOK
  <2>3. QED
    BY <2>1, <2>2, Sizes DEF Room
<1>2. A \in Seq(Nat) /\ B \in Seq(Nat) /\ pend = A \o B
  BY <1>1, Accepted, UnitNumbers
<1>3. /\ fifo' = [fifo EXCEPT ![at] = fifo[at] \o A]
      /\ UNCHANGED <<got, tasks, media, http, put, missed>>
  BY DEF PutFirst, Spin, past
<1>4. /\ PutFirst => pend' = <<>> /\ ignored' = [ignored EXCEPT ![at] = ignored[at] \cup ToSet(B)]
      /\ Spin => pend' = B /\ (B # <<>> => at' = at) /\ ignored' = ignored
  BY DEF PutFirst, Spin, past
<1>. HIDE DEF A, B, w
<1>5. /\ P \in Seq(Nat) /\ F \in Seq(Nat) /\ Out[b] \in Channels /\ got[Out[b]] \in Nat
  BY StreamTypes DEF StreamInv, FlowInv
<1>6. Todo(b)' = Todo(b) /\ Delivered(b)
  BY <1>3 DEF Todo, Coming, Entries, Source, media, http, StreamInv
<1>7. CASE Out[b] # at
  <2>1. fifo'[Out[b]] = F /\ Pending(Out[b]) = <<>> /\ ignored'[Out[b]] = ignored[Out[b]]
    BY <1>3, <1>4, <1>5, <1>7 DEF Pending, StreamInv, FlowInv, TypeOK
  <2>2. Pending(Out[b])' = <<>>
    BY <1>4, <1>7 DEF Pending
  <2>3. Rest(Out[b])' = Rest(Out[b])
    BY <2>1, <2>2 DEF Rest, Pending
  <2>4. QED
    BY <1>3, <1>6, <2>1, <2>3, DeliveredStays DEF http
<1>8. CASE Out[b] = at
  <2>1. fifo'[Out[b]] = F \o A /\ Pending(Out[b]) = A \o B
    BY <1>2, <1>3, <1>5, <1>8 DEF Pending, StreamInv, FlowInv, TypeOK
  <2>. HIDE DEF P, F
  <2>2. Rest(Out[b]) = (F \o A) \o B
    <3>1. Rest(Out[b]) = F \o (A \o B)
      BY <2>1 DEF Rest, F
    <3>2. QED
      BY <1>2, <1>5, <3>1, Regrouped
  <2>3. F \o A \in Seq(Nat) /\ P \o (F \o A) \in Seq(Nat)
    BY <1>2, <1>5, ConcatProperties
  <2>4. CASE Spin
    <3>1. Pending(Out[b])' = B
      BY <1>4, <1>8, <2>4 DEF Pending
    <3>2. Rest(Out[b])' = Rest(Out[b])
      BY <2>1, <2>2, <3>1 DEF Rest, Pending
    <3>3. QED
      BY <1>3, <1>4, <1>6, <2>4, <3>2, DeliveredStays DEF http
  <2>5. CASE PutFirst
    <3>1. Pending(Out[b])' = <<>> /\ ignored'[Out[b]] = ignored[Out[b]] \cup ToSet(B)
      BY <1>4, <1>5, <1>8, <2>5 DEF Pending, StreamInv, FlowInv, TypeOK
    <3>2. Stream(b)' = P \o (F \o A)
      <4>1. Rest(Out[b])' = F \o A
        BY <2>1, <2>3, <3>1, ConcatEmptySeq DEF Rest, Pending
      <4>2. QED
        BY <1>3, <1>6, <4>1 DEF Stream, P
    <3>3. ASSUME Once(b)
          PROVE  Flows(P \o (F \o A), got[Out[b]], Dropped(b) \cup ToSet(B))
      <4>1. Flows(P \o ((F \o A) \o B), got[Out[b]], Dropped(b))
        BY <1>6, <2>2, <3>3 DEF Delivered, Stream, P
      <4>2. P \o ((F \o A) \o B) = (P \o (F \o A)) \o B
        BY <1>2, <1>5, <2>3, Regrouped, ZenonT(40)
      <4>3. QED
        BY <1>2, <1>5, <2>3, <4>1, <4>2, FlowsBefore
    <3>4. Dropped(b)' = Dropped(b) \cup ToSet(B)
      BY <1>3, <3>1 DEF Dropped
    <3>5. Never(b)' = Never(b) /\ Once(b)' = Once(b)
      BY <1>3, EntriesStay DEF http
    <3>6. QED
      BY <1>3, <1>6, <3>2, <3>3, <3>4, <3>5 DEF Delivered
  <2>6. QED
    BY <2>4, <2>5
<1>9. QED
  BY <1>7, <1>8

\* The media thread takes the front of a channel's buffer.
LEMMA DeliveredGets ==
    ASSUME StreamInv, PollGet, NEW b \in Buffers
    PROVE  Delivered(b)'
<1>. DEFINE s == fifo[Source]
            n == Least(ChunkLen, Len(s))
            A == SubSeq(s, 1, n)
            B == SubSeq(s, n + 1, Len(s))
<1>1. Source \in Channels /\ s \in Seq(Units)
  BY SourceChannel DEF StreamInv, FlowInv, PollGet, TypeOK
<1>2. A \in Seq(Nat) /\ B \in Seq(Nat) /\ s = A \o B
  <2>1. Len(s) \in Nat
    BY <1>1, LenProperties
  <2>2. n \in 0..Len(s)
    BY <2>1, LeastRange, Sizes
  <2>. HIDE DEF n
  <2>3. QED
    BY <1>1, <2>2, Cut, UnitNumbers
<1>3. /\ fifo' = [fifo EXCEPT ![Source] = B] /\ chunk' = A /\ mediaPc' = "consume"
      /\ mediaPc = "poll"
      /\ UNCHANGED <<main, tasks, current, http, got, ignored, put, missed>>
  BY DEF PollGet, past
<1>. HIDE DEF A, B, n
<1>4. Todo(b) = <<>> /\ Source' = Source /\ Delivered(b) /\ Pending(Out[b])' = Pending(Out[b])
  BY <1>3 DEF Todo, Coming, Source, StreamInv, Pending, main
<1>5. /\ put[b] \in Seq(Nat) /\ fifo[Out[b]] \in Seq(Nat) /\ Pending(Out[b]) \in Seq(Nat)
      /\ Rest(Out[b]) \in Seq(Nat) /\ Out[b] \in Channels
  BY StreamTypes DEF StreamInv, FlowInv
<1>6. CASE Source # Out[b]
  <2>1. Todo(b)' = Todo(b)
    BY <1>4, <1>6 DEF Todo, Coming
  <2>2. Rest(Out[b])' = Rest(Out[b])
    BY <1>3, <1>4, <1>5, <1>6 DEF Rest, Pending, StreamInv, FlowInv, TypeOK
  <2>3. QED
    BY <1>3, <1>4, <2>1, <2>2, DeliveredStays DEF http
<1>7. CASE Source = Out[b]
  <2>1. Todo(b)' = A
    BY <1>3, <1>4, <1>7 DEF Todo, Coming
  <2>2. fifo'[Out[b]] = B
    BY <1>3, <1>5, <1>7 DEF StreamInv, FlowInv, TypeOK
  <2>3. Rest(Out[b])' = B \o Pending(Out[b])
    BY <1>4, <2>2 DEF Rest, Pending
  <2>4. Rest(Out[b]) = (A \o B) \o Pending(Out[b])
    BY <1>2, <1>7 DEF Rest
  <2>5. Stream(b)' = Stream(b)
    <3>1. Stream(b)' = (put[b] \o A) \o (B \o Pending(Out[b]))
      BY <1>3, <2>1, <2>3 DEF Stream
    <3>2. (put[b] \o A) \o (B \o Pending(Out[b])) = put[b] \o (A \o (B \o Pending(Out[b])))
      <4>1. A \in Seq(Nat) /\ put[b] \in Seq(Nat)
        BY <1>2, <1>5
      <4>2. B \o Pending(Out[b]) \in Seq(Nat)
        BY <1>2, <1>5, ConcatProperties
      <4>3. QED
        BY <4>1, <4>2, Regrouped
    <3>3. A \o (B \o Pending(Out[b])) = Rest(Out[b])
      BY <1>2, <1>5, <2>4, Regrouped, ZenonT(40)
    <3>4. Stream(b) = put[b] \o Rest(Out[b])
      BY <1>4, <1>5, ConcatEmptySeq DEF Stream
    <3>5. QED
      BY <3>1, <3>2, <3>3, <3>4
  <2>6. Never(b)' = Never(b) /\ Once(b)' = Once(b) /\ Dropped(b)' = Dropped(b)
    BY <1>3, EntriesStay DEF http, Dropped
  <2>7. QED
    BY <1>3, <1>4, <2>5, <2>6 DEF Delivered
<1>8. QED
  BY <1>6, <1>7

\* A chunk of no supported format is dropped; else the walk over the pads
\* starts, and b is one of them if it is registered.
LEMMA DeliveredConsumes ==
    ASSUME StreamInv, Consume, NEW b \in Buffers
    PROVE  Delivered(b)'
<1>1. /\ UNCHANGED <<main, fifo, tasks, current, chunk, http, got, put, missed>>
      /\ Source' = Source /\ Source \in Channels /\ mediaPc = "consume" /\ Delivered(b)
  BY SourceChannel DEF Consume, Source, StreamInv, FlowInv
<1>2. Rest(Out[b])' = Rest(Out[b])
  BY <1>1 DEF Rest, Pending, main
<1>3. Entries(b)' = Entries(b) /\ Never(b)' = Never(b) /\ Once(b)' = Once(b)
  BY <1>1, EntriesStay DEF http
<1>4. CASE Source # Out[b]
  <2>1. Todo(b)' = Todo(b)
    BY <1>1, <1>4 DEF Todo, Coming
  <2>2. ignored[Out[b]] \subseteq ignored'[Out[b]]
    <3>1. Out[b] \in Channels
      BY RelayAssumption
    <3>2. QED
      BY <1>1, <1>4, <3>1 DEF Consume, StreamInv, FlowInv, TypeOK
  <2>3. QED
    BY <1>1, <1>2, <2>1, <2>2, DeliveredStays DEF http
<1>5. CASE Source = Out[b] /\ pack[Source] = "TS2TS"
  <2>1. ASSUME Once(b)
        PROVE  Todo(b)' = Todo(b)
    <3>1. PICK p \in DOMAIN pads[Source] : Entries(b) = {p}
      BY <1>5, <2>1 DEF Once, Entries
    <3>2. pads[Source] \in Seq(Buffers)
      BY <1>1 DEF StreamInv, FlowInv, TypeOK
    <3>3. p \in 1..Len(pads[Source]) /\ pads[Source] # <<>>
      BY <3>1, <3>2, EmptySeq
    <3>4. mediaPc' = "walk" /\ pad' = 1
      BY <1>5, <3>3 DEF Consume
    <3>5. Coming(b) /\ Coming(b)'
      BY <1>1, <1>3, <1>5, <3>1, <3>3, <3>4 DEF Coming
    <3>6. QED
      BY <1>1, <3>5 DEF Todo
  <2>2. ignored' = ignored
    BY <1>5 DEF Consume
  <2>3. QED
    BY <1>1, <1>2, <2>1, <2>2, DeliveredStays DEF http
<1>6. CASE Source = Out[b] /\ pack[Source] # "TS2TS"
  <2>1. ignored'[Out[b]] = ignored[Out[b]] \cup ToSet(chunk) /\ mediaPc' = "next"
    BY <1>1, <1>6 DEF Consume, StreamInv, FlowInv, TypeOK
  <2>2. Todo(b) = chunk /\ Todo(b)' = <<>>
    BY <1>1, <1>6, <2>1 DEF Todo, Coming
  <2>3. /\ put[b] \in Seq(Nat) /\ chunk \in Seq(Nat) /\ Rest(Out[b]) \in Seq(Nat)
        /\ got[Out[b]] \in Nat
    BY StreamTypes DEF StreamInv, FlowInv
  <2>4. Stream(b)' = put[b] \o Rest(Out[b])
    <3>1. put[b] \o <<>> = put[b]
      BY <2>3, ConcatEmptySeq
    <3>2. QED
      BY <1>1, <1>2, <2>2, <3>1 DEF Stream
  <2>5. ASSUME Once(b)
        PROVE  Flows(put[b] \o Rest(Out[b]), got[Out[b]], Dropped(b) \cup ToSet(chunk))
    <3>1. Flows((put[b] \o chunk) \o Rest(Out[b]), got[Out[b]], Dropped(b))
      BY <1>1, <2>2, <2>5 DEF Delivered, Stream
    <3>2. QED
      BY <2>3, <3>1, FlowsWithout
  <2>6. Dropped(b)' = Dropped(b) \cup ToSet(chunk)
    BY <1>1, <2>1 DEF Dropped
  <2>7. QED
    BY <1>1, <1>3, <2>4, <2>5, <2>6 DEF Delivered
<1>7. QED
  BY <1>4, <1>5, <1>6

\* The front of the chunk is put to a pad, what does not fit is dropped.
LEMMA DeliveredPadPut ==
    ASSUME StreamInv, PadPut, NEW b \in Buffers
    PROVE  Delivered(b)'
<1>. DEFINE a == pads[Source][pad]
            room == OutCap - Len(obuf[a])
            w == Least(Len(chunk), room)
            A == SubSeq(chunk, 1, w)
            B == SubSeq(chunk, w + 1, Len(chunk))
<1>1. /\ Source \in Channels /\ pad \in DOMAIN pads[Source] /\ chunk \in Seq(Units)
      /\ mediaPc = "walk" /\ mediaPc' = "step" /\ Source' = Source /\ Delivered(b)
      /\ UNCHANGED <<main, fifo, pack, tasks, current, chunk, pad, http, got, odd, ignored>>
  BY SourceChannel DEF PadPut, Source, StreamInv, FlowInv, TypeOK
<1>2. a \in Buffers /\ Out[a] = Source
  <2>1. pads[Source] \in Seq(Buffers)
    BY <1>1 DEF StreamInv, FlowInv, TypeOK
  <2>2. a \in Buffers
    BY <1>1, <2>1, ElementOfSeq
  <2>3. QED
    BY <1>1, <2>2 DEF StreamInv, Owners
<1>3. A \in Seq(Nat) /\ B \in Seq(Nat) /\ chunk = A \o B
  <2>1. Len(obuf[a]) \in Nat /\ Len(obuf[a]) <= OutCap
    BY <1>2 DEF StreamInv, FlowInv, TypeOK
  <2>2. room \in Nat
    BY <2>1, Sizes
  <2>. HIDE DEF room
  <2>3. QED
    BY <1>1, <2>2, Accepted, UnitNumbers
<1>4. /\ put' = [put EXCEPT ![a] = put[a] \o A]
      /\ missed' = [missed EXCEPT ![a] = missed[a] \cup ToSet(B)]
  BY DEF PadPut
<1>5. /\ put \in [Buffers -> Seq(Units)] /\ missed \in [Buffers -> SUBSET Units]
      /\ pad \in 1..Len(pads[Source]) /\ Len(pads[Source]) \in Nat
  <2>1. pads[Source] \in Seq(Buffers)
    BY <1>1 DEF StreamInv, FlowInv, TypeOK
  <2>2. QED
    BY <1>1, <2>1, LenProperties DEF StreamInv, FlowInv, TypeOK
<1>6. Rest(Out[b])' = Rest(Out[b])
  BY <1>1 DEF Rest, Pending, main
<1>7. Entries(b)' = Entries(b) /\ Never(b)' = Never(b) /\ Once(b)' = Once(b)
  BY <1>1, EntriesStay DEF http
<1>8. a = b => pad \in Entries(b)
  BY <1>1, <1>2 DEF Entries
<1>9. pad \in Entries(b) /\ Source = Out[b] => a = b
  BY DEF Entries
<1>. HIDE DEF a, A, B, w, room
<1>10. CASE a # b
  <2>1. put'[b] = put[b] /\ missed'[b] = missed[b]
    BY <1>4, <1>5, <1>10
  <2>2. Todo(b)' = Todo(b)
    <3>1. ASSUME Source = Out[b], NEW i \in Entries(b)
          PROVE  i >= pad <=> i > pad
      <4>1. i \in 1..Len(pads[Source]) /\ i # pad
        BY <1>1, <1>5, <1>9, <1>10, <3>1, LenProperties DEF Entries, StreamInv, FlowInv, TypeOK
      <4>2. QED
        BY <1>5, <4>1
    <3>2. Coming(b)' = Coming(b)
      BY <1>1, <1>7, <3>1 DEF Coming
    <3>3. QED
      BY <1>1, <3>2 DEF Todo
  <2>3. Stream(b)' = Stream(b) /\ Dropped(b)' = Dropped(b)
    BY <1>1, <1>6, <2>1, <2>2 DEF Stream, Dropped
  <2>4. QED
    BY <1>1, <1>7, <2>1, <2>3 DEF Delivered
<1>11. CASE a = b
  <2>1. put'[b] = put[b] \o A /\ missed'[b] = missed[b] \cup ToSet(B) /\ ~Never(b)
    BY <1>4, <1>5, <1>8, <1>11 DEF Never
  <2>2. /\ put[b] \in Seq(Nat) /\ put[b] \o A \in Seq(Nat) /\ Rest(Out[b]) \in Seq(Nat)
        /\ got[Out[b]] \in Nat
    BY <1>3, StreamTypes, ConcatProperties DEF StreamInv, FlowInv
  <2>3. Dropped(b)' = Dropped(b) \cup ToSet(B)
    BY <1>1, <2>1 DEF Dropped
  <2>4. ASSUME Once(b)
        PROVE  Flows(Stream(b)', got'[Out[b]], Dropped(b)')
    <3>1. Entries(b) = {pad}
      BY <1>8, <1>11, <2>4 DEF Once
    <3>2. Todo(b) = A \o B
      <4>1. pad >= pad
        BY <1>5
      <4>2. Coming(b)
        BY <1>1, <1>2, <1>11, <3>1, <4>1 DEF Coming
      <4>3. QED
        BY <1>3, <4>2 DEF Todo
    <3>3. Todo(b)' = <<>>
      <4>1. ~(pad > pad)
        BY <1>5
      <4>2. ~Coming(b)'
        BY <1>1, <1>7, <3>1, <4>1 DEF Coming
      <4>3. QED
        BY <4>2 DEF Todo
    <3>4. Stream(b)' = (put[b] \o A) \o Rest(Out[b])
      <4>1. (put[b] \o A) \o <<>> = put[b] \o A
        BY <2>2, ConcatEmptySeq
      <4>2. QED
        BY <1>6, <2>1, <3>3, <4>1 DEF Stream
    <3>5. Flows(((put[b] \o A) \o B) \o Rest(Out[b]), got[Out[b]], Dropped(b))
      <4>1. put[b] \o (A \o B) = (put[b] \o A) \o B
        BY <1>3, <2>2, Regrouped, ZenonT(40)
      <4>2. QED
        BY <1>1, <2>4, <3>2, <4>1 DEF Delivered, Stream
    <3>6. Flows((put[b] \o A) \o Rest(Out[b]), got[Out[b]], Dropped(b) \cup ToSet(B))
      BY <1>3, <2>2, <3>5, FlowsWithout
    <3>7. QED
      BY <1>1, <2>3, <3>4, <3>6
  <2>5. QED
    BY <1>7, <2>1, <2>4 DEF Delivered
<1>12. QED
  BY <1>10, <1>11

\* The walk goes on; it ends behind the last pad.
LEMMA DeliveredPadNext ==
    ASSUME StreamInv, PadNext, NEW b \in Buffers
    PROVE  Delivered(b)'
<1>1. /\ UNCHANGED <<main, fifo, tasks, current, chunk, http, got, ignored, put, missed>>
      /\ Source' = Source /\ Source \in Channels /\ mediaPc = "step" /\ Delivered(b)
      /\ pad \in DOMAIN pads[Source] /\ pads[Source] \in Seq(Buffers)
  BY SourceChannel DEF PadNext, Source, StreamInv, FlowInv, TypeOK, past
<1>2. pad \in 1..Len(pads[Source]) /\ Len(pads[Source]) \in Nat
  BY <1>1, LenProperties
<1>3. Rest(Out[b])' = Rest(Out[b])
  BY <1>1 DEF Rest, Pending, main
<1>4. Entries(b)' = Entries(b)
  BY <1>1, EntriesStay DEF http
<1>5. Source = Out[b] => \A i \in Entries(b) : i \in 1..Len(pads[Source])
  BY <1>1, LenProperties DEF Entries
<1>6. Coming(b)' = Coming(b)
  <2>1. CASE pad < Len(pads[Source])
    <3>1. pad' = pad + 1 /\ mediaPc' = "walk"
      BY <2>1 DEF PadNext
    <3>2. Source = Out[b] => \A i \in Entries(b) : i >= pad + 1 <=> i > pad
      BY <1>2, <1>5
    <3>3. QED
      BY <1>1, <1>4, <3>1, <3>2 DEF Coming
  <2>2. CASE ~(pad < Len(pads[Source]))
    <3>1. mediaPc' = "next"
      BY <2>2 DEF PadNext
    <3>2. Source = Out[b] => \A i \in Entries(b) : ~(i > pad)
      BY <1>2, <1>5, <2>2
    <3>3. QED
      BY <1>1, <3>1, <3>2 DEF Coming
  <2>3. QED
    BY <2>1, <2>2
<1>7. Todo(b)' = Todo(b)
  BY <1>1, <1>6 DEF Todo
<1>8. QED
  BY <1>1, <1>3, <1>7, DeliveredStays DEF http

\* The first registration of b finds everything that is still on its way to
\* come: the entry is linked behind the one the walk is at.
LEMMA DeliveredAdds ==
    ASSUME StreamInv, NEW a \in Buffers, AddPad(a), NEW b \in Buffers
    PROVE  Delivered(b)'
<1>. DEFINE c == Out[b]
            L == Len(pads[Out[a]])
<1>1. /\ c \in Channels /\ Out[a] \in Channels /\ pads \in [Channels -> Seq(Buffers)]
      /\ Delivered(b) /\ L \in Nat
  <2>1. c \in Channels /\ Out[a] \in Channels
    BY RelayAssumption
  <2>2. QED
    BY <2>1, LenProperties DEF StreamInv, FlowInv, TypeOK
<1>2. /\ UNCHANGED <<main, fifo, pack, tasks, media, obuf, past>> /\ Source' = Source
      /\ pads' = [pads EXCEPT ![Out[a]] = Append(pads[Out[a]], a)]
  BY DEF AddPad, media, Source
<1>3. /\ Append(pads[Out[a]], a) \in Seq(Buffers) /\ DOMAIN pads[Out[a]] = 1..L
      /\ DOMAIN Append(pads[Out[a]], a) = 1..(L + 1)
      /\ \A i \in 1..L : Append(pads[Out[a]], a)[i] = pads[Out[a]][i]
      /\ Append(pads[Out[a]], a)[L + 1] = a
  BY <1>1, AppendProperties
<1>4. Rest(c)' = Rest(c) /\ Dropped(b)' = Dropped(b) /\ UNCHANGED <<got, put, chunk, mediaPc, pad>>
  BY <1>2 DEF Rest, Pending, Dropped, main, past, media
<1>5. CASE a # b
  <2>1. Entries(b)' = Entries(b)
    <3>1. CASE Out[a] # c
      BY <1>1, <1>2, <3>1 DEF Entries
    <3>2. CASE Out[a] = c
      <4>1. pads'[c] = Append(pads[c], a) /\ pads[c] = pads[Out[a]]
        BY <1>1, <1>2, <3>2
      <4>2. Entries(b) = {i \in 1..L : pads[Out[a]][i] = b}
        BY <1>3, <3>2 DEF Entries
      <4>3. Entries(b)' = {i \in 1..(L + 1) : Append(pads[Out[a]], a)[i] = b}
        BY <1>3, <3>2, <4>1 DEF Entries
      <4>. HIDE DEF L
      <4>4. ASSUME NEW i
            PROVE  i \in Entries(b)' <=> i \in Entries(b)
        <5>1. CASE i \in 1..L
          BY <1>1, <1>3, <4>2, <4>3, <5>1
        <5>2. CASE i = L + 1
          BY <1>1, <1>3, <1>5, <4>2, <4>3, <5>2
        <5>3. i \in 1..(L + 1) => i \in 1..L \/ i = L + 1
          BY <1>1
        <5>4. QED
          BY <1>1, <4>2, <4>3, <5>1, <5>2, <5>3
      <4>5. QED
        BY <4>4
    <3>3. QED
      BY <3>1, <3>2
  <2>2. Never(b)' = Never(b) /\ Once(b)' = Once(b)
    BY <2>1 DEF Never, Once
  <2>3. Stream(b)' = Stream(b)
    BY <1>2, <1>4, <2>1 DEF Stream, Todo, Coming
  <2>4. QED
    BY <1>1, <1>4, <2>2, <2>3 DEF Delivered
<1>6. CASE a = b
  <2>1. pads'[c] = Append(pads[c], b) /\ DOMAIN pads[c] = 1..L
    BY <1>1, <1>2, <1>3, <1>6
  <2>2. Entries(b) \subseteq Entries(b)' /\ L + 1 \in Entries(b)' /\ L + 1 \notin Entries(b)
    BY <1>1, <1>3, <1>6, <2>1 DEF Entries
  <2>3. ASSUME Once(b)'
        PROVE  Never(b) /\ Entries(b)' = {L + 1}
    BY <2>2, <2>3 DEF Once, Never
  <2>4. ~Never(b)'
    BY <2>2 DEF Never
  <2>5. ASSUME Once(b)'
        PROVE  Flows(Stream(b)', got'[c], Dropped(b)')
    <3>1. put[b] = <<>> /\ Entries(b)' = {L + 1}
      BY <1>1, <2>3, <2>5 DEF Delivered
    <3>2. Todo(b)' = InHand(c)
      <4>1. mediaPc \in {"walk", "step"} /\ Source = c => pad \in 1..L
        BY <2>1 DEF StreamInv, FlowInv, TypeOK
      <4>. HIDE DEF L
      <4>2. Coming(b)' <=> mediaPc \in {"consume", "walk", "step"} /\ Source = c
        <5>1. mediaPc \in {"walk", "step"} /\ Source = c => L + 1 >= pad /\ L + 1 > pad
          BY <1>1, <4>1
        <5>2. QED
          BY <1>2, <1>4, <3>1, <5>1 DEF Coming
      <4>3. QED
        BY <1>4, <4>2 DEF Todo, InHand
    <3>3. /\ InHand(c) \in Seq(Nat) /\ fifo[c] \in Seq(Nat) /\ Pending(c) \in Seq(Nat)
          /\ InFlight(c) = (InHand(c) \o fifo[c]) \o Pending(c)
      BY <1>1, PartTypes DEF StreamInv, FlowInv
    <3>4. Stream(b)' = InHand(c) \o Rest(c)
      <4>1. <<>> \o InHand(c) = InHand(c)
        BY <3>3, ConcatEmptySeq
      <4>2. QED
        BY <1>4, <3>1, <3>2, <4>1 DEF Stream
    <3>5. InHand(c) \o Rest(c) = InFlight(c)
      BY <3>3, Regrouped DEF Rest
    <3>6. Flows(InFlight(c), got[c], Dropped(b))
      BY <1>1, FlowsDropped DEF StreamInv, FlowInv, Flow, Dropped
    <3>7. QED
      BY <1>4, <3>4, <3>5, <3>6
  <2>6. QED
    BY <2>4, <2>5 DEF Delivered
<1>7. QED
  BY <1>5, <1>6

\* The other steps; Attach appends to the list of tasks behind the current one.
LEMMA DeliveredOther ==
    ASSUME StreamInv, NEW b \in Buffers,
           \/ Setype \/ Attach \/ RecvAgain \/ \E c \in Channels : RecvEmpty(c)
           \/ FirstTask \/ PollEmpty \/ TaskNext
           \/ \E a \in Buffers : AddLock(a) \/ Drain(a)
           \/ UNCHANGED vars
    PROVE  Delivered(b)'
<1>1. UNCHANGED <<fifo, got, ignored, put, missed, pads>> /\ Delivered(b)
  BY DEF Setype, Attach, RecvAgain, RecvEmpty, FirstTask, PollEmpty, TaskNext,
         AddLock, Drain, vars, past, http, StreamInv
<1>2. Pending(Out[b])' = Pending(Out[b])
  <2>1. CASE RecvAgain \/ \E c \in Channels : RecvEmpty(c)
    BY <2>1 DEF RecvAgain, RecvEmpty, Pending, StreamInv, FlowInv, HoldsNothing
  <2>2. CASE ~(RecvAgain \/ \E c \in Channels : RecvEmpty(c))
    BY <2>2 DEF Setype, Attach, FirstTask, PollEmpty, TaskNext, AddLock, Drain, vars, main, Pending
  <2>3. QED
    BY <2>1, <2>2
<1>3. Entries(b)' = Entries(b)
  BY <1>1, EntriesStay
<1>4. Todo(b)' = Todo(b)
  <2>1. CASE FirstTask \/ PollEmpty \/ TaskNext
    BY <2>1 DEF FirstTask, PollEmpty, TaskNext, Todo, Coming
  <2>2. CASE Attach
    <3>1. mediaPc # "head" => Source' = Source
      <4>1. mediaPc # "head" => current \in 1..Len(tasks)
        BY SourceChannel DEF StreamInv, FlowInv
      <4>2. at \in Channels /\ tasks \in Seq(Channels)
        BY <2>2 DEF Attach, StreamInv, FlowInv, TypeOK
      <4>3. QED
        BY <2>2, <4>1, <4>2, Grown DEF Attach, Source, media
    <3>2. QED
      BY <1>3, <2>2, <3>1 DEF Attach, Todo, Coming, media
  <2>3. CASE ~(FirstTask \/ PollEmpty \/ TaskNext \/ Attach)
    <3>1. UNCHANGED <<media, tasks>>
      BY <2>3 DEF Setype, RecvAgain, RecvEmpty, AddLock, Drain, vars
    <3>2. QED
      BY <1>3, <3>1 DEF media, Todo, Coming, Source
  <2>4. QED
    BY <2>1, <2>2, <2>3
<1>5. Rest(Out[b])' = Rest(Out[b])
  BY <1>1, <1>2 DEF Rest
<1>6. QED
  BY <1>1, <1>4, <1>5, DeliveredStays

LEMMA OwnersStep ==
    ASSUME TypeOK, Owners, [Next]_vars
    PROVE  Owners'
<1>1. ASSUME NEW a \in Buffers, AddPad(a)
      PROVE  Owners'
  <2>. DEFINE L == Len(pads[Out[a]])
  <2>1. Out[a] \in Channels /\ pads \in [Channels -> Seq(Buffers)] /\ L \in Nat
    <3>1. Out[a] \in Channels
      BY RelayAssumption
    <3>2. QED
      BY <3>1, LenProperties DEF TypeOK
  <2>2. pads' = [pads EXCEPT ![Out[a]] = Append(pads[Out[a]], a)]
    BY <1>1 DEF AddPad
  <2>3. /\ DOMAIN Append(pads[Out[a]], a) = 1..(L + 1) /\ DOMAIN pads[Out[a]] = 1..L
        /\ \A i \in 1..L : Append(pads[Out[a]], a)[i] = pads[Out[a]][i]
        /\ Append(pads[Out[a]], a)[L + 1] = a
    BY <2>1, AppendProperties
  <2>4. ASSUME NEW c \in Channels, NEW i \in DOMAIN pads'[c]
        PROVE  Out[pads'[c][i]] = c
    <3>1. CASE c # Out[a]
      BY <2>1, <2>2, <2>4, <3>1 DEF Owners
    <3>2. CASE c = Out[a]
      <4>1. pads'[c] = Append(pads[Out[a]], a)
        BY <2>1, <2>2, <3>2
      <4>. HIDE DEF L
      <4>2. i \in 1..L \/ i = L + 1
        BY <2>1, <2>3, <2>4, <4>1
      <4>3. QED
        BY <2>1, <2>3, <3>2, <4>1, <4>2 DEF Owners
    <3>3. QED
      BY <3>1, <3>2
  <2>5. QED
    BY <2>4 DEF Owners
<1>2. CASE UNCHANGED pads
  BY <1>2 DEF Owners
<1>3. (\E b \in Buffers : AddPad(b)) \/ UNCHANGED pads
  BY DEF Next, MainStep, PutFirst, Setype, Attach, RecvAgain, Spin, RecvFirst, RecvNext, RecvEmpty,
         MediaStep, FirstTask, PollEmpty, PollGet, Consume, PadPut, PadNext, TaskNext,
         AddLock, Drain, vars, http
<1>4. QED
  BY <1>1, <1>2, <1>3

LEMMA DeliveredStep ==
    ASSUME StreamInv, [Next]_vars, NEW b \in Buffers
    PROVE  Delivered(b)'
<1>1. ASSUME NEW c \in Channels, RecvFirst(c)
      PROVE  Delivered(b)'
  BY <1>1, DeliveredReceives DEF RecvFirst, http
<1>2. ASSUME NEW c \in Channels, RecvNext(c)
      PROVE  Delivered(b)'
  BY <1>2, DeliveredReceives DEF RecvNext, http
<1>3. CASE PutFirst \/ Spin
  BY <1>3, DeliveredPuts
<1>4. CASE PollGet
  BY <1>4, DeliveredGets
<1>5. CASE Consume
  BY <1>5, DeliveredConsumes
<1>6. CASE PadPut
  BY <1>6, DeliveredPadPut
<1>7. CASE PadNext
  BY <1>7, DeliveredPadNext
<1>8. ASSUME NEW a \in Buffers, AddPad(a)
      PROVE  Delivered(b)'
  BY <1>8, DeliveredAdds
<1>9. QED
  BY <1>1, <1>2, <1>3, <1>4, <1>5, <1>6, <1>7, <1>8, DeliveredOther DEF Next, MainStep, MediaStep

\* A buffer that is registered once gets the units of its channel in order;
\* between two that it got only such are missing as it had no room for or as
\* were dropped before. The list of pads may grow while do_pack_ts2ts walks it.
THEOREM StreamOfPad == Spec => []PadStream
<1>1. Init => StreamInv
  <2>. SUFFICES ASSUME Init
                PROVE  StreamInv
    OBVIOUS
  <2>1. FlowInv
    BY InitFlow
  <2>2. DOMAIN <<>> = {}
    OBVIOUS
  <2>3. \A c \in Channels : DOMAIN pads[c] = {}
    BY <2>2 DEF Init
  <2>4. \A b \in Buffers : Out[b] \in Channels
    BY RelayAssumption
  <2>5. \A b \in Buffers : Delivered(b)
    BY <2>3, <2>4 DEF Init, Delivered, Never, Once, Entries
  <2>6. QED
    BY <2>1, <2>3, <2>5 DEF StreamInv, Owners
<1>2. StreamInv /\ [Next]_vars => StreamInv'
  BY StepFlow, OwnersStep, DeliveredStep DEF StreamInv, FlowInv
<1>3. StreamInv => PadStream
  BY StreamDelivers
<1>4. QED
  BY <1>1, <1>2, <1>3, PTL DEF Spec

----------------------------------------------------------------------------
(* How often a buffer gets a unit.                                         *)

Places(b, u) == {i \in DOMAIN put[b] : put[b][i] = u}

\* The media thread did not get u yet.
Ahead(b, u) ==
    \/ u > got[Out[b]]
    \/ u \in ToSet(fifo[Out[b]])
    \/ u \in ToSet(Pending(Out[b]))

\* The entries of b that the walk has done.
Done(b) == {i \in Entries(b) : \/ mediaPc = "walk" /\ i < pad
                               \/ mediaPc = "step" /\ i <= pad}

\* The entries of b that u was put to, or dropped at.
Visited(b, u) ==
    IF Ahead(b, u) THEN {}
    ELSE IF u \in ToSet(InHand(Out[b])) THEN Done(b)
    ELSE Entries(b)

Bounded(b, u) == Cardinality(Places(b, u)) <= Cardinality(Visited(b, u))

CopyInv == FlowInv /\ Owners /\ \A b \in Buffers : \A u \in Units : Bounded(b, u)

\* The places of an element in a sequence are finitely many.
LEMMA FiniteIndices ==
    ASSUME NEW S, NEW s \in Seq(S), NEW e
    PROVE  IsFiniteSet({i \in DOMAIN s : s[i] = e})
<1>1. DOMAIN s = 1..Len(s) /\ Len(s) \in Nat
  BY LenProperties
<1>2. IsFiniteSet(1..Len(s))
  BY <1>1, FS_Interval
<1>3. {i \in DOMAIN s : s[i] = e} \subseteq 1..Len(s)
  BY <1>1
<1>4. QED
  BY <1>2, <1>3, FS_Subset

LEMMA UnitsInt == Units \subseteq Nat
<1>1. \A c \in Channels : MaxUnits[c] \in Nat
  BY RelayAssumption
<1>2. QED
  BY <1>1 DEF Units

\* The sets that are counted are finite.
LEMMA CopyFinite ==
    ASSUME TypeOK, NEW b \in Buffers, NEW u
    PROVE  /\ IsFiniteSet(Places(b, u)) /\ IsFiniteSet(Entries(b)) /\ IsFiniteSet(Visited(b, u))
           /\ Visited(b, u) \subseteq Entries(b) /\ Registrations(b) = Cardinality(Entries(b))
<1>1. pads[Out[b]] \in Seq(Buffers) /\ put[b] \in Seq(Units)
  BY RelayAssumption DEF TypeOK
<1>2. IsFiniteSet(Places(b, u)) /\ IsFiniteSet(Entries(b))
  BY <1>1, FiniteIndices DEF Places, Entries
<1>3. Visited(b, u) \subseteq Entries(b)
  BY DEF Visited, Done
<1>4. IsFiniteSet(Visited(b, u))
  BY <1>2, <1>3, FS_Subset
<1>5. Registrations(b) = Cardinality(Entries(b))
  BY DEF Registrations, Entries
<1>6. QED
  BY <1>2, <1>3, <1>4, <1>5

LEMMA BoundedCopies == CopyInv => Copies
<1>. SUFFICES ASSUME CopyInv, NEW b \in Buffers, NEW u \in Units
              PROVE  Cardinality({i \in DOMAIN put[b] : put[b][i] = u}) <= Registrations(b)
  BY DEF Copies
<1>1. TypeOK /\ Bounded(b, u)
  BY DEF CopyInv, FlowInv
<1>2. Cardinality(Visited(b, u)) <= Cardinality(Entries(b))
  BY <1>1, CopyFinite, FS_Subset
<1>3. /\ Cardinality(Visited(b, u)) \in Nat /\ Cardinality(Entries(b)) \in Nat
      /\ Cardinality(Places(b, u)) \in Nat
  BY <1>1, CopyFinite, FS_CardinalityType
<1>4. Cardinality(Places(b, u)) <= Cardinality(Entries(b))
  BY <1>1, <1>2, <1>3 DEF Bounded
<1>5. QED
  BY <1>1, <1>4, CopyFinite DEF Places

\* A step that puts nothing to b.
LEMMA BoundedStays ==
    ASSUME TypeOK, TypeOK', NEW b \in Buffers, NEW u, Bounded(b, u),
           put'[b] = put[b], Visited(b, u) \subseteq Visited(b, u)'
    PROVE  Bounded(b, u)'
<1>1. Places(b, u)' = Places(b, u)
  BY DEF Places
<1>2. IsFiniteSet(Visited(b, u)') /\ IsFiniteSet(Places(b, u)) /\ IsFiniteSet(Visited(b, u))
  <2>1. pads'[Out[b]] \in Seq(Buffers)
    BY RelayAssumption DEF TypeOK
  <2>2. IsFiniteSet(Entries(b)')
    BY <2>1, FiniteIndices DEF Entries
  <2>3. Visited(b, u)' \subseteq Entries(b)'
    BY DEF Visited, Done
  <2>4. QED
    BY <2>2, <2>3, FS_Subset, CopyFinite
<1>3. Cardinality(Visited(b, u)) <= Cardinality(Visited(b, u)')
  BY <1>2, FS_Subset
<1>4. /\ Cardinality(Visited(b, u)) \in Nat /\ Cardinality(Visited(b, u)') \in Nat
      /\ Cardinality(Places(b, u)) \in Nat
  BY <1>2, FS_CardinalityType
<1>5. QED
  BY <1>1, <1>3, <1>4 DEF Bounded

\* The elements of a concatenation.
LEMMA JoinedSet ==
    ASSUME NEW p \in Seq(Nat), NEW s \in Seq(Nat)
    PROVE  ToSet(p \o s) = ToSet(p) \cup ToSet(s)
<1>. DEFINE t == p \o s
<1>1. /\ t \in Seq(Nat) /\ Len(p) \in Nat /\ Len(s) \in Nat /\ Len(t) = Len(p) + Len(s)
      /\ \A i \in 1..Len(p) : t[i] = p[i]
      /\ \A i \in 1..Len(s) : t[Len(p) + i] = s[i]
  BY Joined
<1>2. DOMAIN t = 1..Len(t) /\ DOMAIN p = 1..Len(p) /\ DOMAIN s = 1..Len(s)
  BY <1>1, LenProperties
<1>. HIDE DEF t
<1>3. ASSUME NEW i \in 1..Len(t)
      PROVE  t[i] \in ToSet(p) \cup ToSet(s)
  <2>1. CASE i <= Len(p)
    <3>1. i \in 1..Len(p)
      BY <1>1, <2>1
    <3>2. t[i] = p[i] /\ p[i] \in ToSet(p)
      BY <1>1, <1>2, <3>1 DEF ToSet
    <3>3. QED
      BY <3>2
  <2>2. CASE i > Len(p)
    <3>1. i - Len(p) \in 1..Len(s) /\ Len(p) + (i - Len(p)) = i
      BY <1>1, <2>2
    <3>2. t[i] = s[i - Len(p)]
      BY <1>1, <3>1
    <3>3. QED
      BY <1>2, <3>1, <3>2 DEF ToSet
  <2>3. i <= Len(p) \/ i > Len(p)
    BY <1>1
  <2>4. QED
    BY <2>1, <2>2, <2>3
<1>4. ASSUME NEW i \in 1..Len(p)
      PROVE  p[i] \in ToSet(t)
  <2>1. i \in 1..Len(t) /\ t[i] = p[i]
    BY <1>1
  <2>2. QED
    BY <1>2, <2>1 DEF ToSet
<1>5. ASSUME NEW i \in 1..Len(s)
      PROVE  s[i] \in ToSet(t)
  <2>1. Len(p) + i \in 1..Len(t) /\ t[Len(p) + i] = s[i]
    BY <1>1
  <2>2. QED
    BY <1>2, <2>1 DEF ToSet
<1>6. ToSet(t) = ToSet(p) \cup ToSet(s)
  BY <1>2, <1>3, <1>4, <1>5 DEF ToSet
<1>7. QED
  BY <1>6 DEF t

\* In a stream no unit occurs twice, and none is later than the last received.
LEMMA FlowsApart ==
    ASSUME NEW p \in Seq(Nat), NEW s \in Seq(Nat), NEW g \in Nat, NEW lost, Flows(p \o s, g, lost)
    PROVE  /\ \A u \in ToSet(p) : u \notin ToSet(s) /\ u <= g
           /\ \A i, j \in 1..Len(p) : p[i] = p[j] => i = j
<1>. DEFINE t == p \o s
            n == Len(p)
            m == Len(s)
<1>1. /\ t \in Seq(Nat) /\ n \in Nat /\ m \in Nat /\ Len(t) = n + m
      /\ \A i \in 1..n : t[i] = p[i] /\ p[i] \in Nat
      /\ \A i \in 1..m : t[n + i] = s[i]
      /\ DOMAIN p = 1..n /\ DOMAIN s = 1..m
  BY Joined, LenProperties
<1>2. Flows(t, g, lost)
  OBVIOUS
<1>. HIDE DEF t, n, m
<1>3. /\ \A i, j \in 1..Len(t) : i < j => t[i] < t[j]
      /\ \A i \in 1..Len(t) : t[i] <= g
  BY <1>1, <1>2, Indexed
<1>4. \A i \in 1..n : i \in 1..Len(t)
  BY <1>1
<1>5. ASSUME NEW i \in 1..n, NEW j \in 1..n, p[i] = p[j]
      PROVE  i = j
  <2>1. ~(i < j) /\ ~(j < i)
    BY <1>1, <1>3, <1>4, <1>5
  <2>2. QED
    BY <2>1
<1>6. ASSUME NEW i \in 1..n, NEW j \in 1..m
      PROVE  p[i] # s[j]
  <2>1. n + j \in 1..Len(t) /\ i < n + j /\ t[n + j] = s[j] /\ i \in 1..Len(t)
    BY <1>1
  <2>2. t[i] < t[n + j] /\ t[i] = p[i] /\ p[i] \in Nat
    BY <1>1, <1>3, <2>1
  <2>3. QED
    BY <2>1, <2>2
<1>7. \A i \in 1..n : p[i] <= g
  BY <1>1, <1>3, <1>4
<1>8. QED
  BY <1>1, <1>5, <1>6, <1>7 DEF ToSet, n

\* What makes the visited entries grow: units arrive ahead, go from there to
\* the chunk, and leave the chunk, while the walk goes on.
LEMMA VisitedGrows ==
    ASSUME NEW b, NEW u, Entries(b) \subseteq Entries(b)', Ahead(b, u)' => Ahead(b, u),
           ~Ahead(b, u) /\ u \in ToSet(InHand(Out[b]))' =>
               u \in ToSet(InHand(Out[b])) /\ Done(b) \subseteq Done(b)'
    PROVE  Visited(b, u) \subseteq Visited(b, u)'
  BY DEF Visited, Done

\* A step of the main thread brings nothing back ahead.
LEMMA CopyMain ==
    ASSUME CopyInv, NEW b \in Buffers, NEW u \in Units,
           MainStep \/ \E c \in Channels : RecvFirst(c) \/ RecvNext(c) \/ RecvEmpty(c)
    PROVE  put'[b] = put[b] /\ Visited(b, u) \subseteq Visited(b, u)'
<1>1. TypeOK /\ HoldsNothing /\ u \in Nat /\ Out[b] \in Channels
  BY UnitsInt, RelayAssumption DEF CopyInv, FlowInv
<1>2. UNCHANGED <<media, pads, put>>
  BY DEF MainStep, PutFirst, Setype, Attach, RecvAgain, Spin, RecvFirst, RecvNext, RecvEmpty,
         past, http
<1>3. mediaPc # "head" => Source' = Source
  <2>1. CASE Attach
    <3>1. mediaPc # "head" => current \in 1..Len(tasks)
      BY <1>1, SourceChannel
    <3>2. at \in Channels /\ tasks \in Seq(Channels)
      BY <1>1, <2>1 DEF Attach, TypeOK
    <3>3. QED
      BY <1>2, <2>1, <3>1, <3>2, Grown DEF Attach, Source, media
  <2>2. CASE ~Attach
    <3>1. tasks' = tasks
      BY <2>2 DEF MainStep, PutFirst, Setype, RecvAgain, Spin, RecvFirst, RecvNext, RecvEmpty
    <3>2. QED
      BY <1>2, <3>1 DEF Source, media
  <2>3. QED
    BY <2>1, <2>2
<1>4. InHand(Out[b])' = InHand(Out[b]) /\ Entries(b)' = Entries(b) /\ Done(b)' = Done(b)
  <2>1. InHand(Out[b])' = InHand(Out[b])
    BY <1>2, <1>3 DEF InHand, media
  <2>2. Entries(b)' = Entries(b)
    BY <1>2, EntriesStay
  <2>3. QED
    BY <1>2, <2>1, <2>2 DEF Done, media
<1>5. Ahead(b, u)' => Ahead(b, u)
  <2>1. ASSUME NEW c \in Channels, NEW n \in 1..MaxDgram, Receives(c, n), at' = c, fifo' = fifo
        PROVE  Ahead(b, u)' => Ahead(b, u)
    <3>1. n \in Nat /\ got \in [Channels -> Nat] /\ got[Out[b]] \in Nat /\ got[c] \in Nat
      <4>1. n \in Nat
        BY Sizes
      <4>2. QED
        BY <1>1, <4>1 DEF TypeOK
    <3>2. u > got'[Out[b]] => u > got[Out[b]]
      BY <1>1, <2>1, <3>1 DEF Receives
    <3>3. u \in ToSet(Pending(Out[b])') => u > got[Out[b]]
      <4>1. CASE Out[b] = c
        <5>1. Pending(Out[b])' = [k \in 1..n |-> got[c] + k]
          BY <2>1, <4>1 DEF Pending, Receives
        <5>2. ASSUME NEW k \in 1..n, u = got[c] + k
              PROVE  u > got[Out[b]]
          BY <3>1, <4>1, <5>2
        <5>3. QED
          BY <5>1, <5>2 DEF ToSet
      <4>2. CASE Out[b] # c
        <5>1. Pending(Out[b])' = <<>>
          BY <2>1, <4>2 DEF Pending
        <5>2. QED
          BY <5>1 DEF ToSet
      <4>3. QED
        BY <4>1, <4>2
    <3>4. QED
      BY <2>1, <3>2, <3>3 DEF Ahead
  <2>2. CASE \E c \in Channels : RecvFirst(c) \/ RecvNext(c)
    BY <2>1, <2>2 DEF RecvFirst, RecvNext
  <2>3. CASE PutFirst \/ Spin
    <3>. DEFINE w == Least(Len(pend), Room(at))
                A == SubSeq(pend, 1, w)
                B == SubSeq(pend, w + 1, Len(pend))
    <3>1. at \in Channels /\ pend \in Seq(Units) /\ Room(at) \in Nat
      <4>1. at \in Channels /\ pend \in Seq(Units)
        BY <1>1, <2>3 DEF PutFirst, Spin, TypeOK
      <4>2. Len(fifo[at]) \in Nat /\ Len(fifo[at]) <= InCap
        BY <1>1, <4>1 DEF TypeOK
      <4>3. QED
        BY <4>1, <4>2, Sizes DEF Room
    <3>2. A \in Seq(Nat) /\ B \in Seq(Nat) /\ pend = A \o B
      BY <3>1, Accepted, UnitNumbers
    <3>3. /\ fifo' = [fifo EXCEPT ![at] = fifo[at] \o A] /\ got' = got
          /\ pend' = <<>> \/ (pend' = B /\ (B # <<>> => at' = at))
      BY <2>3 DEF PutFirst, Spin, past
    <3>. HIDE DEF A, B, w
    <3>4. ToSet(pend) = ToSet(A) \cup ToSet(B)
      BY <3>2, JoinedSet
    <3>5. ToSet(<<>>) = {}
      <4>1. DOMAIN <<>> = {}
        OBVIOUS
      <4>2. QED
        BY <4>1 DEF ToSet
    <3>6. fifo[at] \in Seq(Nat)
      BY <3>1, <1>1, PartTypes
    <3>7. CASE Out[b] = at
      <4>1. ToSet(fifo'[at]) = ToSet(fifo[at]) \cup ToSet(A)
        BY <1>1, <3>1, <3>2, <3>3, <3>6, JoinedSet DEF TypeOK
      <4>2. Pending(Out[b]) = pend /\ ToSet(Pending(Out[b])') \subseteq ToSet(B)
        BY <3>3, <3>5, <3>7 DEF Pending
      <4>3. QED
        BY <3>3, <3>4, <3>7, <4>1, <4>2 DEF Ahead
    <3>8. CASE Out[b] # at
      <4>1. fifo'[Out[b]] = fifo[Out[b]] /\ ToSet(Pending(Out[b])') = {}
        BY <1>1, <3>3, <3>5, <3>8 DEF Pending, TypeOK
      <4>2. QED
        BY <3>3, <4>1 DEF Ahead
    <3>9. QED
      BY <3>7, <3>8
  <2>4. CASE Setype \/ Attach \/ RecvAgain \/ \E c \in Channels : RecvEmpty(c)
    <3>1. UNCHANGED <<fifo, got, pend>> /\ (at' = at \/ pend = <<>>)
      BY <1>1, <2>4 DEF Setype, Attach, RecvAgain, RecvEmpty, past, HoldsNothing
    <3>2. Pending(Out[b])' = Pending(Out[b])
      BY <3>1 DEF Pending
    <3>3. QED
      BY <3>1, <3>2 DEF Ahead
  <2>5. QED
    BY <2>2, <2>3, <2>4 DEF MainStep
<1>6. QED
  BY <1>2, <1>4, <1>5, VisitedGrows

\* The media thread's steps but PadPut, and those of the http threads.
LEMMA CopyOther ==
    ASSUME CopyInv, NEW b \in Buffers, NEW u \in Units,
           \/ FirstTask \/ PollEmpty \/ PollGet \/ Consume \/ PadNext \/ TaskNext
           \/ \E a \in Buffers : AddLock(a) \/ AddPad(a) \/ Drain(a)
           \/ UNCHANGED vars
    PROVE  put'[b] = put[b] /\ Visited(b, u) \subseteq Visited(b, u)'
<1>1. TypeOK /\ Out[b] \in Channels
  BY RelayAssumption DEF CopyInv, FlowInv
<1>2. UNCHANGED <<main, tasks, got, put>>
  BY DEF FirstTask, PollEmpty, PollGet, Consume, PadNext, TaskNext, AddLock, AddPad, Drain, vars, past
<1>3. Pending(Out[b])' = Pending(Out[b])
  BY <1>2 DEF Pending, main
<1>4. CASE PollGet
  <2>. DEFINE s == fifo[Source]
              n == Least(ChunkLen, Len(s))
              A == SubSeq(s, 1, n)
              B == SubSeq(s, n + 1, Len(s))
  <2>1. Source \in Channels /\ s \in Seq(Units)
    BY <1>1, <1>4, SourceChannel DEF PollGet, TypeOK
  <2>2. A \in Seq(Nat) /\ B \in Seq(Nat) /\ s = A \o B
    <3>1. Len(s) \in Nat
      BY <2>1, LenProperties
    <3>2. n \in 0..Len(s)
      BY <3>1, LeastRange, Sizes
    <3>. HIDE DEF n
    <3>3. QED
      BY <2>1, <3>2, Cut, UnitNumbers
  <2>3. /\ fifo' = [fifo EXCEPT ![Source] = B] /\ chunk' = A /\ mediaPc' = "consume"
        /\ UNCHANGED <<current, pads>>
    BY <1>4 DEF PollGet, http
  <2>. HIDE DEF A, B, n
  <2>4. ToSet(s) = ToSet(A) \cup ToSet(B)
    BY <2>2, JoinedSet
  <2>. HIDE DEF s
  <2>5. ToSet(fifo'[Out[b]]) \subseteq ToSet(fifo[Out[b]])
    BY <1>1, <2>1, <2>3, <2>4 DEF TypeOK, s
  <2>6. u \in ToSet(InHand(Out[b])') => u \in ToSet(fifo[Out[b]])
    <3>1. Source' = Source
      BY <1>2, <2>3 DEF Source
    <3>2. CASE Source = Out[b]
      BY <2>3, <2>4, <3>1, <3>2 DEF InHand, s
    <3>3. CASE Source # Out[b]
      <4>1. InHand(Out[b])' = <<>> /\ DOMAIN <<>> = {}
        BY <3>1, <3>3 DEF InHand
      <4>2. QED
        BY <4>1 DEF ToSet
    <3>4. QED
      BY <3>2, <3>3
  <2>7. Entries(b)' = Entries(b)
    BY <2>3, EntriesStay
  <2>8. Ahead(b, u)' => Ahead(b, u)
    BY <1>2, <1>3, <2>5 DEF Ahead
  <2>9. ~Ahead(b, u) => u \notin ToSet(InHand(Out[b]))'
    BY <2>6 DEF Ahead, ToSet
  <2>10. QED
    BY <1>2, <2>7, <2>8, <2>9, VisitedGrows
<1>5. CASE ~PollGet
  <2>1. fifo' = fifo
    BY <1>5 DEF FirstTask, PollEmpty, Consume, PadNext, TaskNext, AddLock, AddPad, Drain, vars
  <2>2. Ahead(b, u)' => Ahead(b, u)
    BY <1>2, <1>3, <2>1 DEF Ahead
  <2>3. ASSUME UNCHANGED media
        PROVE  InHand(Out[b])' = InHand(Out[b])
    BY <1>2, <2>3 DEF InHand, media, Source
  <2>4. CASE \E a \in Buffers : AddPad(a)
    <3>1. PICK a \in Buffers : AddPad(a)
      BY <2>4
    <3>. DEFINE L == Len(pads[Out[a]])
    <3>2. Out[a] \in Channels /\ pads \in [Channels -> Seq(Buffers)] /\ L \in Nat
      <4>1. Out[a] \in Channels
        BY RelayAssumption
      <4>2. QED
        BY <1>1, <4>1, LenProperties DEF TypeOK
    <3>3. UNCHANGED media /\ pads' = [pads EXCEPT ![Out[a]] = Append(pads[Out[a]], a)]
      BY <3>1 DEF AddPad
    <3>4. /\ DOMAIN Append(pads[Out[a]], a) = 1..(L + 1) /\ DOMAIN pads[Out[a]] = 1..L
          /\ \A i \in 1..L : Append(pads[Out[a]], a)[i] = pads[Out[a]][i]
      BY <3>2, AppendProperties
    <3>5. Entries(b) \subseteq Entries(b)'
      <4>1. CASE Out[a] = Out[b]
        <5>1. pads'[Out[b]] = Append(pads[Out[a]], a)
          BY <3>2, <3>3, <4>1
        <5>. HIDE DEF L
        <5>2. 1..L \subseteq 1..(L + 1)
          BY <3>2
        <5>3. QED
          BY <3>4, <4>1, <5>1, <5>2 DEF Entries
      <4>2. CASE Out[a] # Out[b]
        BY <1>1, <3>2, <3>3, <4>2 DEF Entries
      <4>3. QED
        BY <4>1, <4>2
    <3>6. Done(b) \subseteq Done(b)'
      BY <3>3, <3>5 DEF Done, media
    <3>7. QED
      BY <1>2, <2>2, <2>3, <3>3, <3>5, <3>6, VisitedGrows
  <2>5. CASE ~\E a \in Buffers : AddPad(a)
    <3>1. pads' = pads
      BY <1>5, <2>5 DEF FirstTask, PollEmpty, Consume, PadNext, TaskNext, AddLock, Drain, vars, http
    <3>2. Entries(b)' = Entries(b)
      BY <3>1, EntriesStay
    <3>3. CASE UNCHANGED media
      <4>1. Done(b)' = Done(b) /\ InHand(Out[b])' = InHand(Out[b])
        BY <2>3, <3>2, <3>3 DEF Done, media
      <4>2. QED
        BY <1>2, <2>2, <3>2, <4>1, VisitedGrows
    <3>4. CASE FirstTask \/ PollEmpty \/ TaskNext
      <4>1. InHand(Out[b])' = <<>> /\ DOMAIN <<>> = {}
        BY <3>4 DEF FirstTask, PollEmpty, TaskNext, InHand
      <4>2. u \notin ToSet(InHand(Out[b]))'
        BY <4>1 DEF ToSet
      <4>3. QED
        BY <1>2, <2>2, <3>2, <4>2, VisitedGrows
    <3>5. CASE Consume \/ PadNext
      <4>1. /\ mediaPc \in {"consume", "step"} /\ mediaPc' \in {"walk", "next"}
            /\ UNCHANGED <<chunk, current>>
        BY <3>5 DEF Consume, PadNext
      <4>2. Source' = Source
        BY <1>2, <4>1 DEF Source
      <4>3. u \in ToSet(InHand(Out[b]))' => mediaPc' = "walk" /\ Source = Out[b] /\ u \in ToSet(InHand(Out[b]))
        <5>1. CASE mediaPc' = "walk" /\ Source = Out[b]
          BY <4>1, <4>2, <5>1 DEF InHand, ToSet
        <5>2. CASE ~(mediaPc' = "walk" /\ Source = Out[b])
          <6>1. InHand(Out[b])' = <<>> /\ DOMAIN <<>> = {}
            BY <4>1, <4>2, <5>2 DEF InHand
          <6>2. QED
            BY <6>1 DEF ToSet
        <5>3. QED
          BY <5>1, <5>2
      <4>4. mediaPc' = "walk" /\ Source = Out[b] => Done(b) \subseteq Done(b)'
        <5>1. CASE Consume
          BY <5>1 DEF Consume, Done
        <5>2. ASSUME PadNext, mediaPc' = "walk", Source = Out[b]
              PROVE  Done(b) \subseteq Done(b)'
          <6>1. pad' = pad + 1 /\ mediaPc = "step" /\ pads[Source] \in Seq(Buffers) /\ pad \in DOMAIN pads[Source]
            BY <1>1, <5>2 DEF PadNext, TypeOK
          <6>2. pad \in Nat /\ \A i \in Entries(b) : i \in Nat
            BY <5>2, <6>1, LenProperties DEF Entries
          <6>3. \A i \in Entries(b) : i <= pad => i < pad + 1
            BY <6>2
          <6>4. ASSUME NEW i \in Done(b)
                PROVE  i \in Done(b)'
            <7>1. i \in Entries(b) /\ i <= pad
              BY <6>1, <6>4 DEF Done
            <7>2. i \in Entries(b)' /\ i < pad' /\ mediaPc' = "walk"
              BY <3>2, <5>2, <6>1, <6>3, <7>1
            <7>3. QED
              BY <7>2 DEF Done
          <6>5. QED
            BY <6>4
        <5>3. QED
          BY <3>5, <5>1, <5>2
      <4>5. QED
        BY <1>2, <2>2, <3>2, <4>3, <4>4, VisitedGrows
    <3>6. QED
      BY <1>5, <2>5, <3>3, <3>4, <3>5 DEF AddLock, Drain, vars
  <2>6. QED
    BY <2>4, <2>5
<1>6. QED
  BY <1>4, <1>5

\* A chunk is put to a pad: a unit of it was put to the pads before, and is now
\* put once more.
LEMMA CopyPadPut ==
    ASSUME CopyInv, TypeOK', PadPut, NEW b \in Buffers, NEW u \in Units
    PROVE  Bounded(b, u)'
<1>. DEFINE a == pads[Source][pad]
            room == OutCap - Len(obuf[a])
            w == Least(Len(chunk), room)
            A == SubSeq(chunk, 1, w)
            B == SubSeq(chunk, w + 1, Len(chunk))
<1>1. /\ TypeOK /\ Source \in Channels /\ pad \in DOMAIN pads[Source] /\ chunk \in Seq(Units)
      /\ mediaPc = "walk" /\ mediaPc' = "step" /\ Source' = Source /\ Bounded(b, u)
      /\ UNCHANGED <<main, fifo, pack, tasks, current, chunk, pad, http, got, odd, ignored>>
  BY SourceChannel DEF PadPut, Source, CopyInv, FlowInv, TypeOK
<1>2. a \in Buffers /\ Out[a] = Source /\ pad \in Nat
  <2>1. pads[Source] \in Seq(Buffers)
    BY <1>1 DEF TypeOK
  <2>2. a \in Buffers /\ pad \in Nat
    BY <1>1, <2>1, ElementOfSeq, LenProperties
  <2>3. QED
    BY <1>1, <2>2 DEF CopyInv, Owners
<1>3. A \in Seq(Nat) /\ B \in Seq(Nat) /\ chunk = A \o B
  <2>1. Len(obuf[a]) \in Nat /\ Len(obuf[a]) <= OutCap
    BY <1>1, <1>2 DEF TypeOK
  <2>2. room \in Nat
    BY <2>1, Sizes
  <2>. HIDE DEF room
  <2>3. QED
    BY <1>1, <2>2, Accepted, UnitNumbers
<1>4. put' = [put EXCEPT ![a] = put[a] \o A] /\ put \in [Buffers -> Seq(Units)]
  BY <1>1 DEF PadPut, TypeOK
<1>5. a = b => pad \in Entries(b)
  BY <1>1, <1>2 DEF Entries
<1>. HIDE DEF a, A, B, w, room
<1>6. Entries(b)' = Entries(b) /\ \A i \in Entries(b) : i \in Nat
  <2>1. pads[Out[b]] \in Seq(Buffers)
    BY <1>1, RelayAssumption DEF TypeOK
  <2>2. QED
    BY <1>1, <2>1, EntriesStay, LenProperties DEF http, Entries
<1>7. /\ Done(b) = {i \in Entries(b) : i < pad} /\ Done(b)' = {i \in Entries(b) : i <= pad}
      /\ Done(b) \subseteq Done(b)'
  <2>1. Done(b) = {i \in Entries(b) : i < pad} /\ Done(b)' = {i \in Entries(b) : i <= pad}
    BY <1>1, <1>6 DEF Done
  <2>2. QED
    BY <1>2, <1>6, <2>1
<1>8. InHand(Out[b])' = InHand(Out[b]) /\ Ahead(b, u)' = Ahead(b, u)
  <2>1. Pending(Out[b])' = Pending(Out[b])
    BY <1>1 DEF Pending, main
  <2>2. QED
    BY <1>1, <2>1 DEF InHand, Ahead
<1>9. Visited(b, u) \subseteq Visited(b, u)'
  <2>1. u \in ToSet(InHand(Out[b]))' <=> u \in ToSet(InHand(Out[b]))
    BY <1>8 DEF ToSet
  <2>2. QED
    BY <1>6, <1>7, <1>8, <2>1, VisitedGrows
<1>10. CASE a # b
  <2>1. put'[b] = put[b]
    BY <1>4, <1>10
  <2>2. QED
    BY <1>1, <1>9, <2>1, BoundedStays
<1>11. CASE a = b
  <2>. DEFINE n == Len(put[b])
  <2>1. put[b] \in Seq(Nat) /\ put'[b] = put[b] \o A /\ n \in Nat /\ Len(A) \in Nat
    BY <1>3, <1>4, <1>11, UnitNumbers, LenProperties
  <2>2. /\ DOMAIN put'[b] = 1..(n + Len(A)) /\ DOMAIN put[b] = 1..n
        /\ \A i \in 1..n : put'[b][i] = put[b][i]
        /\ \A i \in 1..Len(A) : put'[b][n + i] = A[i]
        /\ DOMAIN A = 1..Len(A)
    BY <1>3, <2>1, Joined, LenProperties
  <2>. HIDE DEF n
  <2>3. ASSUME NEW i \in 1..(n + Len(A)), put'[b][i] = u
        PROVE  i \in Places(b, u) \/ (i - n \in 1..Len(A) /\ A[i - n] = u)
    <3>1. CASE i <= n
      <4>1. i \in 1..n
        BY <2>1, <3>1
      <4>2. QED
        BY <2>2, <2>3, <4>1 DEF Places
    <3>2. CASE i > n
      <4>1. i - n \in 1..Len(A) /\ n + (i - n) = i
        BY <2>1, <3>2
      <4>2. QED
        BY <2>2, <2>3, <4>1
    <3>3. i <= n \/ i > n
      BY <2>1
    <3>4. QED
      BY <3>1, <3>2, <3>3
  <2>4. Places(b, u) \subseteq Places(b, u)'
    <3>1. \A i \in 1..n : i \in 1..(n + Len(A))
      BY <2>1
    <3>2. QED
      BY <2>2, <3>1 DEF Places
  <2>5. IsFiniteSet(Places(b, u)) /\ IsFiniteSet(Visited(b, u))
    BY <1>1, CopyFinite
  <2>6. CASE \A j \in 1..Len(A) : A[j] # u
    <3>1. Places(b, u)' = Places(b, u)
      BY <2>2, <2>3, <2>4, <2>6 DEF Places
    <3>2. IsFiniteSet(Visited(b, u)')
      <4>1. pads'[Out[b]] \in Seq(Buffers)
        BY RelayAssumption DEF TypeOK
      <4>2. IsFiniteSet(Entries(b)') /\ Visited(b, u)' \subseteq Entries(b)'
        BY <4>1, FiniteIndices DEF Entries, Visited, Done
      <4>3. QED
        BY <4>2, FS_Subset
    <3>3. Cardinality(Visited(b, u)) <= Cardinality(Visited(b, u)')
      BY <1>9, <3>2, FS_Subset
    <3>4. /\ Cardinality(Visited(b, u)) \in Nat /\ Cardinality(Visited(b, u)') \in Nat
          /\ Cardinality(Places(b, u)) \in Nat
      BY <2>5, <3>2, FS_CardinalityType
    <3>5. QED
      BY <1>1, <3>1, <3>3, <3>4 DEF Bounded
  <2>7. ASSUME NEW j \in 1..Len(A), A[j] = u
        PROVE  Bounded(b, u)'
    <3>1. /\ InHand(Out[b]) = A \o B /\ fifo[Out[b]] \in Seq(Nat) /\ Pending(Out[b]) \in Seq(Nat)
          /\ InFlight(Out[b]) = ((A \o B) \o fifo[Out[b]]) \o Pending(Out[b]) /\ got[Out[b]] \in Nat
          /\ Flows(InFlight(Out[b]), got[Out[b]], ignored[Out[b]])
      <4>1. InHand(Out[b]) = A \o B
        BY <1>1, <1>2, <1>3, <1>11 DEF InHand
      <4>2. Out[b] \in Channels
        BY RelayAssumption
      <4>3. QED
        BY <4>1, <4>2, PartTypes DEF CopyInv, FlowInv, Flow
    <3>. DEFINE F == fifo[Out[b]]
                Q == Pending(Out[b])
    <3>2. Flows(A \o (B \o (F \o Q)), got[Out[b]], ignored[Out[b]])
      <4>1. A \o B \in Seq(Nat) /\ F \o Q \in Seq(Nat)
        BY <1>3, <3>1, ConcatProperties
      <4>2. ((A \o B) \o F) \o Q = (A \o B) \o (F \o Q)
        BY <3>1, <4>1, Regrouped
      <4>3. (A \o B) \o (F \o Q) = A \o (B \o (F \o Q))
        BY <1>3, <4>1, Regrouped
      <4>4. QED
        BY <3>1, <4>2, <4>3
    <3>3. /\ B \o (F \o Q) \in Seq(Nat)
          /\ ToSet(B \o (F \o Q)) = ToSet(B) \cup (ToSet(F) \cup ToSet(Q))
          /\ ToSet(A \o B) = ToSet(A) \cup ToSet(B)
      <4>1. F \o Q \in Seq(Nat) /\ B \o (F \o Q) \in Seq(Nat)
        BY <1>3, <3>1, ConcatProperties
      <4>2. ToSet(F \o Q) = ToSet(F) \cup ToSet(Q) /\ ToSet(A \o B) = ToSet(A) \cup ToSet(B)
        BY <1>3, <3>1, JoinedSet
      <4>. HIDE DEF F, Q
      <4>3. ToSet(B \o (F \o Q)) = ToSet(B) \cup ToSet(F \o Q)
        BY <1>3, <4>1, JoinedSet
      <4>4. QED
        BY <4>1, <4>2, <4>3
    <3>. HIDE DEF F, Q
    <3>4. /\ \A v \in ToSet(A) : v \notin ToSet(B \o (F \o Q)) /\ v <= got[Out[b]]
          /\ \A i, k \in 1..Len(A) : A[i] = A[k] => i = k
      BY <1>3, <3>1, <3>2, <3>3, FlowsApart
    <3>5. u \in ToSet(A)
      BY <2>2, <2>7 DEF ToSet
    <3>6. ~Ahead(b, u) /\ u \in ToSet(InHand(Out[b]))
      <4>1. ~(u > got[Out[b]])
        BY <3>1, <3>4, <3>5, UnitsInt
      <4>2. QED
        BY <3>1, <3>3, <3>4, <3>5, <4>1 DEF Ahead, F, Q
    <3>7. Visited(b, u) = Done(b) /\ Visited(b, u)' = Done(b)'
      <4>1. u \in ToSet(InHand(Out[b]))'
        BY <1>8, <3>6 DEF ToSet
      <4>2. QED
        BY <1>8, <3>6, <4>1 DEF Visited
    <3>8. Visited(b, u)' = Visited(b, u) \cup {pad} /\ pad \notin Visited(b, u)
      <4>1. pad \in Entries(b)
        BY <1>5, <1>11
      <4>2. \A i \in Entries(b) : i <= pad <=> i < pad \/ i = pad
        BY <1>2, <1>6
      <4>3. ~(pad < pad)
        BY <1>2
      <4>4. QED
        BY <1>7, <3>7, <4>1, <4>2, <4>3
    <3>9. Places(b, u)' = Places(b, u) \cup {n + j}
      <4>1. n + j \in Places(b, u)'
        <5>1. n + j \in 1..(n + Len(A))
          BY <2>1
        <5>2. QED
          BY <2>2, <2>7, <5>1 DEF Places
      <4>2. ASSUME NEW i \in Places(b, u)'
            PROVE  i \in Places(b, u) \/ i = n + j
        <5>1. i \in 1..(n + Len(A)) /\ put'[b][i] = u
          BY <2>2, <4>2 DEF Places
        <5>2. CASE i - n \in 1..Len(A) /\ A[i - n] = u
          <6>1. i - n = j
            BY <2>7, <3>4, <5>2
          <6>2. QED
            BY <2>1, <5>1, <6>1
        <5>3. QED
          BY <2>3, <5>1, <5>2
      <4>3. QED
        BY <2>4, <4>1, <4>2
    <3>10. n + j \notin Places(b, u)
      <4>1. ~(n + j \in 1..n)
        BY <2>1
      <4>2. QED
        BY <2>2, <4>1 DEF Places
    <3>11. /\ Cardinality(Places(b, u)') = Cardinality(Places(b, u)) + 1
           /\ Cardinality(Visited(b, u)') = Cardinality(Visited(b, u)) + 1
      BY <2>5, <3>8, <3>9, <3>10, FS_AddElement
    <3>12. Cardinality(Places(b, u)) \in Nat /\ Cardinality(Visited(b, u)) \in Nat
      BY <2>5, FS_CardinalityType
    <3>13. QED
      BY <1>1, <3>11, <3>12 DEF Bounded
  <2>8. QED
    BY <2>6, <2>7
<1>12. QED
  BY <1>10, <1>11

LEMMA CopyStep ==
    ASSUME CopyInv, TypeOK', [Next]_vars, NEW b \in Buffers, NEW u \in Units
    PROVE  Bounded(b, u)'
<1>1. TypeOK /\ Bounded(b, u)
  BY DEF CopyInv, FlowInv
<1>2. CASE PadPut
  BY <1>2, CopyPadPut
<1>3. CASE MainStep \/ \E c \in Channels : RecvFirst(c) \/ RecvNext(c) \/ RecvEmpty(c)
  BY <1>1, <1>3, CopyMain, BoundedStays
<1>4. CASE \/ FirstTask \/ PollEmpty \/ PollGet \/ Consume \/ PadNext \/ TaskNext
           \/ \E a \in Buffers : AddLock(a) \/ AddPad(a) \/ Drain(a)
           \/ UNCHANGED vars
  BY <1>1, <1>4, CopyOther, BoundedStays
<1>5. QED
  BY <1>2, <1>3, <1>4 DEF Next, MediaStep

\* A buffer gets a unit at most once for each of its registrations, however
\* many there are, although do_pack_ts2ts walks the list of pads without the
\* lock under which http.c appends to it.
THEOREM CopiesBounded == Spec => []Copies
<1>1. Init => CopyInv
  <2>. SUFFICES ASSUME Init
                PROVE  CopyInv
    OBVIOUS
  <2>1. FlowInv
    BY InitFlow
  <2>2. DOMAIN <<>> = {} /\ \A b \in Buffers : Out[b] \in Channels
    BY RelayAssumption
  <2>3. Owners
    BY <2>2 DEF Init, Owners
  <2>4. ASSUME NEW b \in Buffers, NEW u \in Units
        PROVE  Bounded(b, u)
    <3>1. Places(b, u) = {} /\ Entries(b) = {}
      BY <2>2 DEF Init, Places, Entries
    <3>2. Visited(b, u) = {}
      BY <3>1 DEF Visited, Done
    <3>3. QED
      BY <3>1, <3>2, FS_EmptySet DEF Bounded
  <2>5. QED
    BY <2>1, <2>3, <2>4 DEF CopyInv
<1>2. CopyInv /\ [Next]_vars => CopyInv'
  <2>. SUFFICES ASSUME CopyInv, [Next]_vars
                PROVE  CopyInv'
    OBVIOUS
  <2>1. FlowInv' /\ TypeOK'
    BY StepFlow DEF CopyInv, FlowInv
  <2>2. Owners'
    BY OwnersStep DEF CopyInv, FlowInv
  <2>3. QED
    BY <2>1, <2>2, CopyStep DEF CopyInv
<1>3. CopyInv => Copies
  BY BoundedCopies
<1>4. QED
  BY <1>1, <1>2, <1>3, PTL DEF Spec
=============================================================================
