----------------------------- MODULE HttpProofs -----------------------------
(***************************************************************************)
(* Proofs about module HttpServer, for any clients, descriptors, names,    *)
(* configuration and sizes.                                                *)
(***************************************************************************)
EXTENDS HttpServer, SequenceTheorems, FiniteSetTheorems, WellFoundedInduction, TLAPS

----------------------------------------------------------------------------
(* Lemmas on the operators.                                                *)

\* Any set of numbers that is not empty has a least one, and Min is it.
LEMMA Lowest ==
    ASSUME NEW S, S \subseteq Nat, S # {}
    PROVE  Min(S) \in S /\ \A x \in S : Min(S) <= x
<1>. DEFINE Less == {ss \in Nat \X Nat : ss[1] < ss[2]}
<1>1. IsWellFoundedOn(Less, Nat)
  BY NatLessThanWellFounded DEF OpToRel
<1>2. PICK x \in S : \A y \in S : ~(<<y, x>> \in Less)
  <2>. HIDE DEF Less
  <2>1. \E x \in S : \A y \in S : ~(<<y, x>> \in Less)
    BY <1>1, WFMin
  <2>2. QED
    BY <2>1
<1>3. \A y \in S : ~(y < x)
  BY <1>2
<1>4. \E z \in S : \A y \in S : z <= y
  BY <1>3
<1>5. QED
  BY <1>4 DEF Min

\* A sequence that grows behind.
LEMMA Grown ==
    ASSUME NEW S, NEW s \in Seq(S), NEW e \in S
    PROVE  /\ Append(s, e) \in Seq(S) /\ Len(Append(s, e)) = Len(s) + 1
           /\ DOMAIN Append(s, e) = 1..Len(s) + 1
           /\ \A i \in 1..Len(s) : Append(s, e)[i] = s[i]
           /\ Append(s, e)[Len(s) + 1] = e
           /\ ToSet(Append(s, e)) = ToSet(s) \cup {e}
<1>1. /\ Append(s, e) \in Seq(S) /\ Len(Append(s, e)) = Len(s) + 1
      /\ \A i \in 1..Len(s) : Append(s, e)[i] = s[i]
      /\ Append(s, e)[Len(s) + 1] = e
  BY AppendProperties
<1>2. DOMAIN s = 1..Len(s) /\ Len(s) \in Nat
  OBVIOUS
<1>3. DOMAIN Append(s, e) = 1..Len(s) + 1
  BY <1>1
<1>4. 1..Len(s) + 1 = 1..Len(s) \cup {Len(s) + 1}
  BY <1>2
<1>. DEFINE a == Append(s, e)
<1>. HIDE DEF a
<1>5. ToSet(a) = ToSet(s) \cup {e}
  BY <1>1, <1>2, <1>3, <1>4 DEF a, ToSet
<1>6. QED
  BY <1>1, <1>3, <1>5 DEF a

\* A sequence without its entry i.
LEMMA Removed ==
    ASSUME NEW S, NEW s \in Seq(S), NEW i \in 1..Len(s)
    PROVE  /\ RemoveAt(s, i) \in Seq(S) /\ Len(RemoveAt(s, i)) = Len(s) - 1
           /\ \A j \in 1..Len(s) - 1 :
                 RemoveAt(s, i)[j] = IF j < i THEN s[j] ELSE s[j + 1]
<1>. DEFINE n == Len(s)
            p == SubSeq(s, 1, i - 1)
            q == SubSeq(s, i + 1, n)
<1>1. n \in Nat /\ i \in Int /\ \A j \in 1..n : s[j] \in S
  BY ElementOfSeq
<1>2. /\ p \in Seq(S) /\ Len(p) = i - 1
      /\ \A j \in 1..i-1 : p[j] = s[j]
  BY <1>1, SubSeqProperties
<1>3. /\ q \in Seq(S) /\ Len(q) = n - i
      /\ \A j \in 1..n-i : q[j] = s[i + j]
  BY <1>1, SubSeqProperties
<1>. HIDE DEF p, q
<1>4. /\ p \o q \in Seq(S) /\ Len(p \o q) = n - 1
      /\ \A j \in 1..n-1 : (p \o q)[j] = IF j < i THEN p[j] ELSE q[j - (i - 1)]
  <2>1. /\ p \o q \in Seq(S) /\ Len(p \o q) = Len(p) + Len(q)
        /\ \A j \in 1..Len(p) + Len(q) :
              (p \o q)[j] = IF j <= Len(p) THEN p[j] ELSE q[j - Len(p)]
    BY <1>2, <1>3, ConcatProperties
  <2>2. Len(p) = i - 1 /\ Len(p) + Len(q) = n - 1
    BY <1>1, <1>2, <1>3
  <2>3. \A j \in 1..n-1 : j <= i - 1 <=> j < i
    BY <1>1
  <2>4. QED
    BY <2>1, <2>2, <2>3
<1>5. ASSUME NEW j \in 1..n-1
      PROVE  (p \o q)[j] = IF j < i THEN s[j] ELSE s[j + 1]
  <2>1. CASE j < i
    BY <1>1, <1>2, <1>4, <2>1
  <2>2. CASE ~(j < i)
    <3>1. j - (i - 1) \in 1..n-i /\ i + (j - (i - 1)) = j + 1
      BY <1>1, <2>2
    <3>2. QED
      BY <1>3, <1>4, <2>2, <3>1
  <2>3. QED
    BY <2>1, <2>2
<1>6. RemoveAt(s, i) = p \o q
  BY DEF RemoveAt, p, q
<1>7. QED
  BY <1>4, <1>5, <1>6

\* Without duplicates, the entry removed is gone and the others stay.
NoDuplicate(s) == \A i, j \in DOMAIN s : s[i] = s[j] => i = j

LEMMA RemovedMembers ==
    ASSUME NEW S, NEW s \in Seq(S), NEW i \in 1..Len(s)
    PROVE  /\ ToSet(RemoveAt(s, i)) \subseteq ToSet(s)
           /\ ToSet(s) \subseteq ToSet(RemoveAt(s, i)) \cup {s[i]}
           /\ NoDuplicate(s) => /\ NoDuplicate(RemoveAt(s, i))
                               /\ s[i] \notin ToSet(RemoveAt(s, i))
<1>. DEFINE r == RemoveAt(s, i)
            n == Len(s)
<1>1. n \in Nat /\ DOMAIN s = 1..n /\ i \in 1..n
  OBVIOUS
<1>2. r \in Seq(S) /\ Len(r) = n - 1
  BY Removed
<1>3. \A j \in 1..n-1 : r[j] = IF j < i THEN s[j] ELSE s[j + 1]
  BY Removed
<1>4. DOMAIN r = 1..n-1
  BY <1>2
<1>. HIDE DEF r, n
<1>5. \A j \in 1..n-1 : \E k \in 1..n : k # i /\ r[j] = s[k] /\ k = IF j < i THEN j ELSE j + 1
  BY <1>1, <1>3
<1>6. ToSet(r) \subseteq ToSet(s)
  BY <1>1, <1>4, <1>5 DEF ToSet
<1>7. ASSUME NoDuplicate(s)
      PROVE  NoDuplicate(r) /\ s[i] \notin ToSet(r)
  <2>1. s[i] \notin ToSet(r)
    BY <1>1, <1>4, <1>5, <1>7 DEF ToSet, NoDuplicate
  <2>2. ASSUME NEW j \in 1..n-1, NEW l \in 1..n-1, r[j] = r[l]
        PROVE  j = l
    <3>1. PICK k \in 1..n : r[j] = s[k] /\ k = IF j < i THEN j ELSE j + 1
      BY <1>5
    <3>2. PICK h \in 1..n : r[l] = s[h] /\ h = IF l < i THEN l ELSE l + 1
      BY <1>5
    <3>3. k = h
      BY <1>1, <1>7, <2>2, <3>1, <3>2 DEF NoDuplicate
    <3>4. QED
      BY <1>1, <3>1, <3>2, <3>3
  <2>3. QED
    BY <1>4, <2>1, <2>2 DEF NoDuplicate
<1>8. ToSet(s) \subseteq ToSet(r) \cup {s[i]}
  <2>1. ASSUME NEW k \in 1..n, k # i PROVE \E j \in 1..n-1 : r[j] = s[k]
    <3>1. CASE k < i
      BY <1>1, <1>3, <3>1
    <3>2. CASE k > i
      <4>1. k - 1 \in 1..n-1 /\ ~(k - 1 < i) /\ (k - 1) + 1 = k
        BY <1>1, <3>2
      <4>2. QED
        BY <1>3, <4>1
    <3>3. QED
      BY <1>1, <2>1, <3>1, <3>2
  <2>2. QED
    BY <1>1, <1>4, <2>1 DEF ToSet
<1>9. QED
  BY <1>6, <1>7, <1>8 DEF r

LEMMA GrownApart ==
    ASSUME NEW S, NEW s \in Seq(S), NEW e \in S, NoDuplicate(s), e \notin ToSet(s)
    PROVE  NoDuplicate(Append(s, e))
<1>. DEFINE a == Append(s, e)
            n == Len(s)
<1>1. n \in Nat /\ DOMAIN s = 1..n
  OBVIOUS
<1>2. /\ DOMAIN a = 1..n + 1 /\ a[n + 1] = e
      /\ \A i \in 1..n : a[i] = s[i]
  BY Grown
<1>3. \A i \in 1..n : s[i] # e
  BY <1>1 DEF ToSet
<1>. HIDE DEF a, n
<1>4. \A i, j \in 1..n + 1 : a[i] = a[j] => i = j
  <2>. SUFFICES ASSUME NEW i \in 1..n + 1, NEW j \in 1..n + 1, a[i] = a[j]
                PROVE  i = j
    OBVIOUS
  <2>1. (i \in 1..n \/ i = n + 1) /\ (j \in 1..n \/ j = n + 1)
    BY <1>1
  <2>2. QED
    BY <1>1, <1>2, <1>3, <2>1 DEF NoDuplicate
<1>5. QED
  BY <1>2, <1>4 DEF NoDuplicate, a

----------------------------------------------------------------------------
(* The invariant behind the types and the descriptors.                     *)

\* Whose handler can be at work, and where the streamer can be.
Phases ==
    /\ \A c \in batch : c # Listener => skt[c] \in Fds /\ link[c] \in {"open", "closed"}
    /\ evPc \in {"wait", "dispatch"} => con = Nobody
    /\ evPc \in {"task", "client", "pad", "head"} =>
          /\ con \in Clients /\ name \in Names /\ known > 0
          /\ skt[con] \in Fds /\ link[con] \in {"open", "closed"}
          /\ name \in asked[con]
    /\ evPc \in {"client", "pad", "head"} => Matching(name) # {}
    /\ evPc = "client" => Len(cells) > 0 /\ cells[Len(cells)].by = con
    /\ stPc \in {"walk", "drop"} => current > 0 /\ pos > 0
    /\ stPc = "drop" => InList

\* A connection that is open, its place in epoll's interest list and its
\* descriptor belong together.
Wired ==
    /\ \A c \in Clients : link[c] = "open" <=> c \in watched
    /\ \A f \in Fds : owner[f] # Nobody => owner[f] \in watched /\ skt[owner[f]] = f
    /\ \A c \in watched : skt[c] \in Fds /\ owner[skt[c]] = c

TypeInv == TypeOK /\ Phases /\ Wired

LEMMA TypesInit == Init => TypeInv
<1>. SUFFICES ASSUME Init PROVE TypeInv
  OBVIOUS
<1>. USE DEF Init
<1>1. KernelTypes
  BY DEF KernelTypes
<1>2. EventTypes
  BY DEF EventTypes
<1>3. SharedTypes
  <2>1. tasks = <<>> /\ cells = <<>> /\ DOMAIN tasks = {}
    OBVIOUS
  <2>2. pads \in [DOMAIN Config -> [Media -> Seq(Nat)]]
    OBVIOUS
  <2>3. known \in 0..Len(Config)
    BY HttpAssumption
  <2>4. QED
    BY <2>1, <2>2, <2>3 DEF SharedTypes
<1>4. StreamTypes
  BY DEF StreamTypes, Chunks, NoChunk
<1>5. PastTypes
  <2>1. got \in [Clients -> Seq(Items)]
    OBVIOUS
  <2>2. asked \in [Clients -> SUBSET Names] /\ fed \in [DOMAIN Config -> Nat]
    OBVIOUS
  <2>3. failed \subseteq Clients /\ misled \in BOOLEAN
    OBVIOUS
  <2>4. QED
    BY <2>1, <2>2, <2>3 DEF PastTypes
<1>6. Phases
  BY DEF Phases
<1>7. Wired
  BY DEF Wired
<1>8. QED
  BY <1>1, <1>2, <1>3, <1>4, <1>5, <1>6, <1>7 DEF TypeInv, TypeOK

\* close(f) keeps the descriptors in order, and closes the one client that f
\* leads to, if any.
LEMMA Closed ==
    ASSUME TypeInv, NEW f \in Fds, Close(f)
    PROVE  /\ link' \in [Clients -> {"away", "knocking", "open", "closed"}]
           /\ owner' \in [Fds -> Clients \cup {Nobody}] /\ watched' \subseteq Clients
           /\ skt' = skt => Wired'
           /\ \A c \in Clients : c # owner[f] => link'[c] = link[c]
           /\ owner[f] # Nobody =>
                 owner[f] \in Clients /\ link[owner[f]] = "open" /\ link'[owner[f]] = "closed"
           /\ \A c \in Clients : link[c] = "closed" => link'[c] = "closed"
<1>. USE DEF Close
<1>1. KernelTypes /\ Wired
  BY DEF TypeInv, TypeOK
<1>2. Nobody \notin Clients
  BY HttpAssumption
<1>3. CASE owner[f] = Nobody
  <2>1. link' = link /\ owner' = owner /\ watched' = watched
    BY <1>1, <1>2, <1>3 DEF KernelTypes
  <2>2. QED
    BY <1>1, <1>3, <2>1 DEF KernelTypes, Wired
<1>4. CASE owner[f] # Nobody
  <2>1. owner[f] \in Clients /\ owner[f] \in watched /\ skt[owner[f]] = f
    BY <1>1, <1>4 DEF KernelTypes, Wired
  <2>2. /\ link' = [link EXCEPT ![owner[f]] = "closed"]
        /\ owner' = [owner EXCEPT ![f] = Nobody]
        /\ watched' = watched \ {owner[f]}
    BY <1>4
  <2>3. link[owner[f]] = "open"
    BY <1>1, <2>1 DEF Wired
  <2>4. /\ link' \in [Clients -> {"away", "knocking", "open", "closed"}]
        /\ owner' \in [Fds -> Clients \cup {Nobody}] /\ watched' \subseteq Clients
    BY <1>1, <2>1, <2>2 DEF KernelTypes
  <2>5. /\ \A c \in Clients : c # owner[f] => link'[c] = link[c]
        /\ link'[owner[f]] = "closed"
    BY <1>1, <2>1, <2>2 DEF KernelTypes
  <2>6. ASSUME skt' = skt PROVE Wired'
    <3>1. \A c \in Clients : link'[c] = "open" <=> c \in watched'
      BY <1>1, <2>1, <2>2, <2>5 DEF KernelTypes, Wired
    <3>2. \A g \in Fds : owner'[g] # Nobody => owner'[g] \in watched' /\ skt'[owner'[g]] = g
      BY <1>1, <2>1, <2>2, <2>6 DEF KernelTypes, Wired
    <3>3. \A c \in watched' : skt'[c] \in Fds /\ owner'[skt'[c]] = c
      BY <1>1, <2>1, <2>2, <2>6 DEF KernelTypes, Wired
    <3>4. QED
      BY <3>1, <3>2, <3>3 DEF Wired
  <2>7. QED
    BY <2>1, <2>3, <2>4, <2>5, <2>6
<1>5. QED
  BY <1>3, <1>4

\* What is written reaches at most the client that f leads to, behind all
\* that it has.
LEMMA Received ==
    ASSUME PastTypes, NEW f, NEW item \in Items
    PROVE  /\ Receives(f, item) \in [Clients -> Seq(Items)]
           /\ \A c \in Clients :
                 \/ Receives(f, item)[c] = got[c]
                 \/ /\ Receives(f, item)[c] = Append(got[c], item)
                    /\ c = owner[f] /\ c # Nobody
<1>1. got \in [Clients -> Seq(Items)]
  BY DEF PastTypes
<1>2. \A c \in Clients : Append(got[c], item) \in Seq(Items)
  BY <1>1, AppendProperties
<1>3. QED
  BY <1>1, <1>2 DEF Receives

\* What is written is lost, or reaches the client.
LEMMA WrittenOrLost ==
    ASSUME NEW f, NEW item, got' \in Written(f, item)
    PROVE  got' \in {got, Receives(f, item)}
  BY DEF Written

----------------------------------------------------------------------------
(* Types.                                                                  *)

\* A buffer takes no more than it has room for.
LEMMA Filled ==
    ASSUME NEW b \in Seq(Chunks), Len(b) <= BufCap, NEW n \in Nat, NEW e \in Chunks
    PROVE  \E w \in Nat :
              /\ Fill(b, n, e) \in Seq(Chunks)
              /\ Len(Fill(b, n, e)) = Len(b) + w /\ Len(b) + w <= BufCap
              /\ \A j \in 1..Len(b) : Fill(b, n, e)[j] = b[j]
              /\ \A j \in 1..Len(b) + w : j > Len(b) => Fill(b, n, e)[j] = e
<1>. DEFINE room == BufCap - Len(b)
            w == Min({n, room})
            p == [k \in 1..w |-> e]
<1>1. Len(b) \in Nat /\ BufCap \in Nat /\ room \in Nat
  BY HttpAssumption
<1>2. w \in Nat /\ w <= room
  <2>1. {n, room} \subseteq Nat /\ {n, room} # {}
    BY <1>1
  <2>. HIDE DEF room
  <2>2. QED
    BY <2>1, Lowest
<1>. HIDE DEF w
<1>3. p \in Seq(Chunks) /\ Len(p) = w /\ \A k \in 1..w : p[k] = e
  BY <1>2
<1>. HIDE DEF p
<1>4. /\ b \o p \in Seq(Chunks) /\ Len(b \o p) = Len(b) + w
      /\ \A j \in 1..Len(b) + w :
            (b \o p)[j] = IF j <= Len(b) THEN b[j] ELSE p[j - Len(b)]
  <2>1. /\ b \o p \in Seq(Chunks) /\ Len(b \o p) = Len(b) + Len(p)
        /\ \A j \in 1..Len(b) + Len(p) :
              (b \o p)[j] = IF j <= Len(b) THEN b[j] ELSE p[j - Len(b)]
    BY <1>3, ConcatProperties
  <2>2. QED
    BY <1>3, <2>1
<1>5. \A j \in 1..Len(b) : (b \o p)[j] = b[j]
  BY <1>1, <1>2, <1>4
<1>6. ASSUME NEW j \in 1..Len(b) + w, j > Len(b)
      PROVE  (b \o p)[j] = e
  <2>1. j - Len(b) \in 1..w /\ ~(j <= Len(b))
    BY <1>1, <1>2, <1>6
  <2>2. QED
    BY <1>3, <1>4, <2>1
<1>7. Fill(b, n, e) = b \o p
  BY DEF Fill, p, w, room
<1>8. /\ Fill(b, n, e) \in Seq(Chunks)
      /\ Len(Fill(b, n, e)) = Len(b) + w /\ Len(b) + w <= BufCap
      /\ \A j \in 1..Len(b) : Fill(b, n, e)[j] = b[j]
      /\ \A j \in 1..Len(b) + w : j > Len(b) => Fill(b, n, e)[j] = e
  <2>1. Len(b) + w <= BufCap
    BY <1>1, <1>2
  <2>. HIDE DEF room
  <2>2. QED
    BY <1>4, <1>5, <1>6, <1>7, <2>1
<1>9. QED
  BY <1>2, <1>8

\* One task changes, but keeps its name.
LEMMA TaskChanged ==
    ASSUME tasks \in Seq(Tasks), NEW t \in DOMAIN tasks, NEW r \in Tasks,
           tasks' = [tasks EXCEPT ![t] = r], r.name = tasks[t].name
    PROVE  /\ tasks' \in Seq(Tasks) /\ Len(tasks') = Len(tasks) /\ DOMAIN tasks' = DOMAIN tasks
           /\ \A u \in DOMAIN tasks : tasks'[u].name = tasks[u].name
           /\ \A u \in DOMAIN tasks : u # t => tasks'[u] = tasks[u]
           /\ tasks'[t] = r
<1>1. DOMAIN tasks = 1..Len(tasks)
  OBVIOUS
<1>2. tasks' \in Seq(Tasks) /\ Len(tasks') = Len(tasks)
  BY <1>1, ExceptSeq
<1>3. DOMAIN tasks' = DOMAIN tasks
  OBVIOUS
<1>4. QED
  BY <1>2, <1>3

LEMMA BufferChanged ==
    ASSUME tasks \in Seq(Tasks), NEW t \in DOMAIN tasks, NEW b \in Seq(Chunks),
           tasks' = [tasks EXCEPT ![t].buf = b]
    PROVE  /\ tasks' \in Seq(Tasks) /\ Len(tasks') = Len(tasks) /\ DOMAIN tasks' = DOMAIN tasks
           /\ \A u \in DOMAIN tasks : tasks'[u].name = tasks[u].name
           /\ \A u \in DOMAIN tasks : u # t => tasks'[u] = tasks[u]
           /\ tasks'[t].buf = b /\ tasks'[t].clients = tasks[t].clients
<1>. DEFINE r == [tasks[t] EXCEPT !.buf = b]
<1>1. tasks[t] \in Tasks
  OBVIOUS
<1>2. /\ r \in Tasks /\ r.name = tasks[t].name
      /\ r.buf = b /\ r.clients = tasks[t].clients
  BY <1>1 DEF Tasks
<1>3. tasks' = [tasks EXCEPT ![t] = r]
  OBVIOUS
<1>. HIDE DEF r
<1>4. QED
  BY <1>2, <1>3, TaskChanged

LEMMA ListChanged ==
    ASSUME tasks \in Seq(Tasks), NEW t \in DOMAIN tasks, NEW l \in Seq(Nat),
           tasks' = [tasks EXCEPT ![t].clients = l]
    PROVE  /\ tasks' \in Seq(Tasks) /\ Len(tasks') = Len(tasks) /\ DOMAIN tasks' = DOMAIN tasks
           /\ \A u \in DOMAIN tasks : tasks'[u].name = tasks[u].name
           /\ \A u \in DOMAIN tasks : u # t => tasks'[u] = tasks[u]
           /\ tasks'[t].clients = l /\ tasks'[t].buf = tasks[t].buf
<1>. DEFINE r == [tasks[t] EXCEPT !.clients = l]
<1>1. tasks[t] \in Tasks
  OBVIOUS
<1>2. /\ r \in Tasks /\ r.name = tasks[t].name
      /\ r.clients = l /\ r.buf = tasks[t].buf
  BY <1>1 DEF Tasks
<1>3. tasks' = [tasks EXCEPT ![t] = r]
  OBVIOUS
<1>. HIDE DEF r
<1>4. QED
  BY <1>2, <1>3, TaskChanged

LEMMA FreeFdFound ==
    ASSUME FreeFds # {}
    PROVE  Min(FreeFds) \in Fds /\ owner[Min(FreeFds)] = Nobody
<1>1. FreeFds \subseteq Nat
  BY HttpAssumption DEF FreeFds
<1>2. Min(FreeFds) \in FreeFds
  BY <1>1, Lowest
<1>3. QED
  BY <1>2 DEF FreeFds

\* The streamer's cell is one that was allocated.
LEMMA CellFound ==
    ASSUME TypeInv, stPc \in {"walk", "drop"}, InList
    PROVE  /\ current \in DOMAIN tasks /\ pos \in 1..Len(tasks[current].clients)
           /\ tasks[current].clients \in Seq(Nat)
           /\ Cell \in Listed(current) /\ Cell \in DOMAIN cells
           /\ cells[Cell] \in Cells /\ CellFds \subseteq Fds
<1>1. SharedTypes /\ StreamTypes /\ current > 0 /\ pos > 0
  BY DEF TypeInv, TypeOK, Phases
<1>2. DOMAIN tasks = 1..Len(tasks) /\ Len(tasks) \in Nat
  BY <1>1 DEF SharedTypes
<1>3. current \in DOMAIN tasks
  BY <1>1, <1>2 DEF StreamTypes
<1>4. tasks[current] \in Tasks
  BY <1>1, <1>3 DEF SharedTypes
<1>5. tasks[current].clients \in Seq(Nat)
  BY <1>4 DEF Tasks
<1>6. pos \in 1..Len(tasks[current].clients)
  BY <1>1, <1>5 DEF StreamTypes, InList
<1>7. Cell \in Listed(current)
  <2>1. DOMAIN tasks[current].clients = 1..Len(tasks[current].clients)
    BY <1>5
  <2>2. QED
    BY <1>6, <2>1 DEF Cell, Listed, ToSet
<1>8. Cell \in DOMAIN cells
  BY <1>1, <1>3, <1>7 DEF SharedTypes
<1>9. cells[Cell] \in Cells
  BY <1>1, <1>8 DEF SharedTypes
<1>10. CellFds \subseteq Fds
  BY <1>9 DEF CellFds, Cells
<1>11. QED
  BY <1>3, <1>5, <1>6, <1>7, <1>8, <1>9, <1>10

\* What DropClient does to the tasks and cells: the client's cell leaves the
\* list, and is freed; when it was freed before, a later one k may be freed.
LEMMA ClientRemoved ==
    ASSUME TypeInv, DropClient
    PROVE  /\ current \in DOMAIN tasks /\ pos \in 1..Len(tasks[current].clients)
           /\ tasks[current].clients \in Seq(Nat) /\ Cell = tasks[current].clients[pos]
           /\ Cell \in Listed(current) /\ Cell \in DOMAIN cells
           /\ tasks' \in Seq(Tasks) /\ Len(tasks') = Len(tasks) /\ DOMAIN tasks' = DOMAIN tasks
           /\ \A u \in DOMAIN tasks : tasks'[u].name = tasks[u].name
           /\ \A u \in DOMAIN tasks : tasks'[u].buf = tasks[u].buf
           /\ \A u \in DOMAIN tasks : u # current => tasks'[u] = tasks[u]
           /\ tasks'[current].clients = RemoveAt(tasks[current].clients, pos)
           /\ cells' \in Seq(Cells) /\ Len(cells') = Len(cells) /\ DOMAIN cells' = DOMAIN cells
           /\ \A j \in DOMAIN cells : cells'[j].by = cells[j].by /\ cells'[j].fd = cells[j].fd
           /\ ~cells'[Cell].live
           /\ \E f \in CellFds, k \in DOMAIN cells :
                 /\ f \in Fds /\ CloseFailed(f, k)
                 /\ k = Cell \/ (~cells[Cell].live /\ k > Cell)
                 /\ ~cells'[k].live
                 /\ \A j \in DOMAIN cells : j # k => cells'[j] = cells[j]
<1>0. stPc = "drop" /\ InList
  BY DEF DropClient, TypeInv, Phases
<1>1. /\ current \in DOMAIN tasks /\ pos \in 1..Len(tasks[current].clients)
      /\ tasks[current].clients \in Seq(Nat) /\ Cell = tasks[current].clients[pos]
      /\ Cell \in Listed(current) /\ Cell \in DOMAIN cells /\ CellFds \subseteq Fds
  BY <1>0, CellFound DEF Cell
<1>2. tasks \in Seq(Tasks) /\ cells \in Seq(Cells)
  BY DEF TypeInv, TypeOK, SharedTypes
<1>3. RemoveAt(tasks[current].clients, pos) \in Seq(Nat)
  BY <1>1, Removed
<1>4. tasks' = [tasks EXCEPT ![current].clients = RemoveAt(tasks[current].clients, pos)]
  BY DEF DropClient
<1>5. /\ tasks' \in Seq(Tasks) /\ Len(tasks') = Len(tasks) /\ DOMAIN tasks' = DOMAIN tasks
      /\ \A u \in DOMAIN tasks : tasks'[u].name = tasks[u].name
      /\ \A u \in DOMAIN tasks : u # current => tasks'[u] = tasks[u]
      /\ tasks'[current].buf = tasks[current].buf
      /\ tasks'[current].clients = RemoveAt(tasks[current].clients, pos)
  BY <1>1, <1>2, <1>3, <1>4, ListChanged
<1>6. PICK f \in CellFds, k \in Freed(Cell) :
          CloseFailed(f, k) /\ cells' = [cells EXCEPT ![k].live = FALSE]
  BY DEF DropClient
<1>7. k \in DOMAIN cells /\ (k = Cell \/ (~cells[Cell].live /\ k > Cell))
  BY <1>1, <1>6 DEF Freed
<1>8. cells[k] \in Cells
  BY <1>2, <1>7
<1>9. PICK r \in Cells : /\ cells' = [cells EXCEPT ![k] = r] /\ ~r.live
                         /\ r.by = cells[k].by /\ r.fd = cells[k].fd
  <2>. DEFINE r == [cells[k] EXCEPT !.live = FALSE]
  <2>1. r \in Cells /\ ~r.live /\ r.by = cells[k].by /\ r.fd = cells[k].fd
    BY <1>8 DEF Cells
  <2>2. cells' = [cells EXCEPT ![k] = r]
    BY <1>6
  <2>. HIDE DEF r
  <2>3. QED
    BY <2>1, <2>2
<1>10. DOMAIN cells = 1..Len(cells)
  BY <1>2
<1>11. cells' \in Seq(Cells) /\ Len(cells') = Len(cells)
  BY <1>2, <1>7, <1>9, <1>10, ExceptSeq
<1>12. DOMAIN cells' = DOMAIN cells
  BY <1>9
<1>13. /\ \A j \in DOMAIN cells : cells'[j].by = cells[j].by /\ cells'[j].fd = cells[j].fd
       /\ \A j \in DOMAIN cells : j # k => cells'[j] = cells[j]
       /\ ~cells'[k].live
  BY <1>7, <1>9
<1>14. ~cells'[Cell].live
  BY <1>1, <1>7, <1>13
<1>15. \A u \in DOMAIN tasks : tasks'[u].buf = tasks[u].buf
  BY <1>5
<1>16. \E g \in CellFds, j \in DOMAIN cells :
          /\ g \in Fds /\ CloseFailed(g, j)
          /\ j = Cell \/ (~cells[Cell].live /\ j > Cell)
          /\ ~cells'[j].live
          /\ \A i \in DOMAIN cells : i # j => cells'[i] = cells[i]
  BY <1>1, <1>6, <1>7, <1>13
<1>17. QED
  BY <1>1, <1>5, <1>11, <1>12, <1>13, <1>14, <1>15, <1>16

LEMMA KernelKept == TypeInv /\ [Next]_vars => KernelTypes'
<1>. SUFFICES ASSUME TypeInv, [Next]_vars PROVE KernelTypes'
  OBVIOUS
<1>1. KernelTypes /\ Phases /\ EventTypes
  BY DEF TypeInv, TypeOK
<1>2. ASSUME UNCHANGED kernel PROVE KernelTypes'
  BY <1>1, <1>2 DEF KernelTypes, kernel
<1>3. ASSUME NEW c \in Clients, Connect(c) \/ Send(c) \/ Leave(c)
      PROVE  KernelTypes'
  BY <1>1, <1>3 DEF KernelTypes, Connect, Send, Leave
<1>4. CASE Accept
  BY <1>1, <1>4, FreeFdFound DEF KernelTypes, Accept
<1>5. ASSUME NEW c \in Clients, RecvEnd(c) \/ RecvRead(c)
      PROVE  KernelTypes'
  <2>1. skt[c] \in Fds
    BY <1>1, <1>5, HttpAssumption DEF RecvEnd, RecvRead, Phases
  <2>2. Close(skt[c]) \/ UNCHANGED <<link, owner, watched>>
    BY <1>5 DEF RecvEnd, RecvRead, CoreClose
  <2>3. /\ link' \in [Clients -> {"away", "knocking", "open", "closed"}]
        /\ owner' \in [Fds -> Clients \cup {Nobody}] /\ watched' \subseteq Clients
    BY <1>1, <2>1, <2>2, Closed DEF KernelTypes
  <2>4. UNCHANGED <<eof, sends>> /\ inbox' \in [Clients -> Segments \cup {"none"}]
    BY <1>1, <1>5 DEF RecvEnd, RecvRead, KernelTypes
  <2>5. QED
    BY <1>1, <2>3, <2>4 DEF KernelTypes
<1>6. CASE DropClient
  <2>1. PICK f \in Fds : Close(f)
    BY <1>6, ClientRemoved DEF CloseFailed
  <2>2. UNCHANGED <<eof, inbox, sends>>
    BY <1>6 DEF DropClient
  <2>3. QED
    BY <1>1, <2>1, <2>2, Closed DEF KernelTypes
<1>7. CASE ChannelAdd \/ \E i \in DOMAIN Config : Feed(i)
  BY <1>2, <1>7 DEF ChannelAdd, Feed
<1>8. CASE \/ EventWait \/ BatchDone \/ AddTask \/ AddClient \/ AddOutput \/ SendHead
           \/ \E c \in Clients : RecvAgain(c)
  BY <1>2, <1>8 DEF EventWait, BatchDone, AddTask, AddClient, AddOutput, SendHead, RecvAgain
<1>9. CASE PollEmpty \/ PollGet \/ Write \/ WriteFails \/ FreeAborts \/ WalkDone
  BY <1>2, <1>9 DEF PollEmpty, PollGet, Write, WriteFails, FreeAborts, WalkDone
<1>10. CASE UNCHANGED vars
  BY <1>2, <1>10 DEF vars
<1>11. QED
  BY <1>3, <1>4, <1>5, <1>6, <1>7, <1>8, <1>9, <1>10
     DEF Next, Environment, EventStep, StreamStep

LEMMA EventKept == TypeInv /\ [Next]_vars => EventTypes'
<1>. SUFFICES ASSUME TypeInv, [Next]_vars PROVE EventTypes'
  OBVIOUS
<1>1. KernelTypes /\ EventTypes /\ Phases
  BY DEF TypeInv, TypeOK
<1>2. ASSUME UNCHANGED event PROVE EventTypes'
  BY <1>1, <1>2 DEF EventTypes, event
<1>3. Listener \notin Clients
  BY HttpAssumption
<1>4. CASE \/ ChannelAdd \/ \E i \in DOMAIN Config : Feed(i)
           \/ \E c \in Clients : Connect(c) \/ Send(c) \/ Leave(c)
  BY <1>2, <1>4 DEF ChannelAdd, Feed, Connect, Send, Leave
<1>5. CASE PollEmpty \/ PollGet \/ Write \/ WriteFails \/ DropClient \/ WalkDone
  BY <1>2, <1>5 DEF PollEmpty, PollGet, Write, WriteFails, DropClient, WalkDone
<1>6. CASE EventWait
  BY <1>1, <1>6 DEF EventTypes, EventWait, KernelTypes
<1>7. CASE BatchDone
  BY <1>1, <1>7 DEF EventTypes, BatchDone
<1>8. CASE Accept
  BY <1>1, <1>3, <1>8, FreeFdFound DEF EventTypes, Accept, Abort
<1>9. ASSUME NEW c \in Clients, RecvEnd(c) PROVE EventTypes'
  BY <1>1, <1>9 DEF EventTypes, RecvEnd, CoreClose
<1>10. ASSUME NEW c \in Clients, RecvAgain(c) PROVE EventTypes'
  BY <1>1, <1>10 DEF EventTypes, RecvAgain
<1>11. ASSUME NEW c \in Clients, RecvRead(c) PROVE EventTypes'
  <2>. DEFINE d == owner[skt[c]]
              n == Found(c, inbox[d])
  <2>1. skt[c] \in Fds /\ d # Nobody /\ inbox[d] # "none"
    BY <1>1, <1>3, <1>11 DEF RecvRead, Phases
  <2>2. inbox[d] \in Segments
    BY <1>1, <2>1 DEF KernelTypes
  <2>3. n \in Names \cup {Nobody}
    BY <1>1, <2>2, HttpAssumption DEF Found, EventTypes, Segments
  <2>. HIDE DEF n
  <2>4. held' \in [Clients -> Uncut \cup {"empty", "cut"}]
    BY <1>1, <1>11 DEF EventTypes, RecvRead
  <2>5. /\ batch' = batch \ {c} /\ errs' = errs /\ c \notin errs
        /\ UNCHANGED <<skt, index>>
    BY <1>11 DEF RecvRead
  <2>6. CASE ChannelFind(n) = 0
    <3>1. CoreClose(c) /\ UNCHANGED <<con, name>>
      BY <1>11, <2>6 DEF RecvRead, n
    <3>2. QED
      BY <1>1, <2>4, <2>5, <3>1 DEF EventTypes, CoreClose
  <2>7. CASE ChannelFind(n) # 0
    <3>1. con' = c /\ name' = n /\ evPc' = "task" /\ done' = done
      BY <1>11, <2>7 DEF RecvRead, n
    <3>2. QED
      BY <1>1, <2>3, <2>4, <2>5, <3>1 DEF EventTypes
  <2>8. QED
    BY <2>6, <2>7
<1>12. CASE AddTask \/ SendHead
  BY <1>1, <1>12 DEF EventTypes, AddTask, SendHead
<1>13. CASE AddClient
  <2>1. index' \in Nat
    <3>1. CASE \E t \in Matching(name) : t >= index
      <4>. DEFINE M == {u \in Matching(name) : u >= index}
      <4>1. M \subseteq Nat /\ M # {}
        BY <3>1 DEF Matching, TypeInv, TypeOK, SharedTypes
      <4>2. Min(M) \in Nat
        BY <4>1, Lowest
      <4>3. index' = Min(M) + 1
        BY <1>13, <3>1 DEF AddClient
      <4>4. QED
        BY <4>2, <4>3
    <3>2. QED
      BY <1>13, <3>1 DEF AddClient
  <2>2. evPc' \in {evPc, "pad"} /\ evPc = "client"
    BY <1>13 DEF AddClient
  <2>3. UNCHANGED <<skt, held, done, batch, errs, con, name>>
    BY <1>13 DEF AddClient
  <2>4. QED
    BY <1>1, <2>1, <2>2, <2>3 DEF EventTypes
<1>14. CASE AddOutput \/ FreeAborts
  BY <1>1, <1>14 DEF EventTypes, AddOutput, FreeAborts, Abort
<1>15. CASE UNCHANGED vars
  BY <1>2, <1>15 DEF vars
<1>16. QED
  BY <1>4, <1>5, <1>6, <1>7, <1>8, <1>9, <1>10, <1>11, <1>12, <1>13, <1>14, <1>15
     DEF Next, Environment, EventStep, StreamStep

\* A list of tasks of which each keeps its name.
LEMMA FeedTasks ==
    ASSUME TypeInv, NEW i \in DOMAIN Config, Feed(i)
    PROVE  /\ tasks' \in Seq(Tasks) /\ Len(tasks') = Len(tasks)
           /\ DOMAIN tasks' = DOMAIN tasks
           /\ [ch |-> i, n |-> fed[i] + 1] \in Chunks
           /\ \A t \in DOMAIN tasks :
                 /\ tasks'[t].name = tasks[t].name
                 /\ tasks'[t].clients = tasks[t].clients
                 /\ \E n \in Nat : tasks'[t].buf = Fill(tasks[t].buf, n, [ch |-> i, n |-> fed[i] + 1])
<1>. DEFINE to(t) == {p \in DOMAIN pads[i]["TS"] : pads[i]["TS"][p] = t}
            e == [ch |-> i, n |-> fed[i] + 1]
            new(t) == [tasks[t] EXCEPT !.buf = Fill(@, Cardinality(to(t)), e)]
<1>1. SharedTypes /\ fed \in [DOMAIN Config -> Nat]
  BY DEF TypeInv, TypeOK, PastTypes
<1>2. e \in Chunks
  <2>1. i \in Nat /\ fed[i] + 1 \in Nat
    BY <1>1, HttpAssumption
  <2>2. QED
    BY <2>1 DEF Chunks
<1>3. ASSUME NEW t PROVE Cardinality(to(t)) \in Nat
  <2>1. pads[i]["TS"] \in Seq(Nat)
    BY <1>1 DEF SharedTypes, Media
  <2>2. DOMAIN pads[i]["TS"] = 1..Len(pads[i]["TS"]) /\ Len(pads[i]["TS"]) \in Nat
    BY <2>1
  <2>3. IsFiniteSet(1..Len(pads[i]["TS"])) /\ to(t) \subseteq 1..Len(pads[i]["TS"])
    BY <2>2, FS_Interval
  <2>4. IsFiniteSet(to(t))
    BY <2>3, FS_Subset
  <2>5. QED
    BY <2>4, FS_CardinalityType
<1>. HIDE DEF to, e
<1>4. DOMAIN tasks = 1..Len(tasks) /\ Len(tasks) \in Nat
  BY <1>1 DEF SharedTypes
<1>5. ASSUME NEW t \in DOMAIN tasks
      PROVE  /\ new(t) \in Tasks
             /\ new(t).name = tasks[t].name /\ new(t).clients = tasks[t].clients
             /\ new(t).buf = Fill(tasks[t].buf, Cardinality(to(t)), e)
  <2>1. tasks[t] \in Tasks /\ Len(tasks[t].buf) <= BufCap
    BY <1>1, <1>4 DEF SharedTypes
  <2>2. Fill(tasks[t].buf, Cardinality(to(t)), e) \in Seq(Chunks)
    BY <1>2, <1>3, <2>1, Filled DEF Tasks
  <2>3. QED
    BY <2>1, <2>2 DEF Tasks
<1>6. tasks' = [t \in 1..Len(tasks) |-> new(t)]
  <2>1. fed'[i] = fed[i] + 1
    BY <1>1 DEF Feed
  <2>2. QED
    BY <1>4, <2>1 DEF Feed, to, e
<1>. HIDE DEF new
<1>7. tasks' \in [1..Len(tasks) -> Tasks]
  BY <1>4, <1>5, <1>6
<1>8. tasks' \in Seq(Tasks)
  BY <1>4, <1>7, SeqDef
<1>9. Len(tasks') = Len(tasks) /\ DOMAIN tasks' = DOMAIN tasks
  BY <1>4, <1>7, <1>8, LenProperties
<1>10. \A t \in DOMAIN tasks :
                 /\ tasks'[t].name = tasks[t].name
                 /\ tasks'[t].clients = tasks[t].clients
                 /\ \E n \in Nat : tasks'[t].buf = Fill(tasks[t].buf, n, e)
  BY <1>3, <1>4, <1>5, <1>6
<1>11. QED
  BY <1>2, <1>8, <1>9, <1>10 DEF e

\* What AddTask does to the tasks and cells.
LEMMA TaskAdded ==
    ASSUME TypeInv, AddTask
    PROVE  /\ tasks' \in Seq(Tasks) /\ DOMAIN tasks \subseteq DOMAIN tasks'
           /\ Len(tasks) <= Len(tasks')
           /\ \A t \in DOMAIN tasks : tasks'[t] = tasks[t]
           /\ \A t \in DOMAIN tasks' : t \notin DOMAIN tasks =>
                 tasks'[t] = [name |-> name, buf |-> <<>>, clients |-> <<>>]
           /\ Matching(name) = {} =>
                 Len(tasks) + 1 \in DOMAIN tasks' /\ Len(tasks) + 1 \notin DOMAIN tasks
           /\ cells' \in Seq(Cells) /\ Len(cells') = Len(cells) + 1
           /\ DOMAIN cells' = DOMAIN cells \cup {Len(cells')}
           /\ Len(cells') \notin DOMAIN cells
           /\ \A k \in DOMAIN cells : cells'[k] = cells[k]
           /\ cells'[Len(cells')].by = con /\ cells'[Len(cells')].live
           /\ cells'[Len(cells')].fd = skt[con]
<1>. DEFINE cell == [fd |-> skt[con], by |-> con, live |-> TRUE]
            task == [name |-> name, buf |-> <<>>, clients |-> <<>>]
<1>1. /\ tasks \in Seq(Tasks) /\ cells \in Seq(Cells)
      /\ con \in Clients /\ skt[con] \in Fds /\ name \in Names
  BY DEF TypeInv, TypeOK, SharedTypes, Phases, AddTask
<1>2. DOMAIN tasks = 1..Len(tasks) /\ Len(tasks) \in Nat
  BY <1>1
<1>3. DOMAIN cells = 1..Len(cells) /\ Len(cells) \in Nat
  BY <1>1
<1>4. cell \in Cells /\ cell.by = con /\ cell.live /\ cell.fd = skt[con]
  BY <1>1 DEF Cells
<1>5. task \in Tasks
  <2>1. <<>> \in Seq(Chunks) /\ <<>> \in Seq(Nat)
    BY EmptySeq
  <2>2. QED
    BY <1>1, <2>1 DEF Tasks
<1>. HIDE DEF cell, task
<1>6. cells' = Append(cells, cell)
  BY DEF AddTask, cell
<1>7. /\ cells' \in Seq(Cells) /\ Len(cells') = Len(cells) + 1
      /\ DOMAIN cells' = 1..Len(cells) + 1
      /\ \A k \in 1..Len(cells) : cells'[k] = cells[k]
      /\ cells'[Len(cells) + 1] = cell
  BY <1>1, <1>4, <1>6, Grown
<1>8. DOMAIN cells' = DOMAIN cells \cup {Len(cells')} /\ Len(cells') \notin DOMAIN cells
  BY <1>3, <1>7
<1>9. CASE Matching(name) # {}
  <2>1. tasks' = tasks
    BY <1>9 DEF AddTask
  <2>2. QED
    BY <1>1, <1>2, <1>3, <1>4, <1>7, <1>8, <1>9, <2>1
<1>10. CASE Matching(name) = {}
  <2>1. tasks' = Append(tasks, task)
    BY <1>10 DEF AddTask, task
  <2>2. /\ tasks' \in Seq(Tasks)
        /\ Len(tasks') = Len(tasks) + 1
        /\ DOMAIN tasks' = 1..Len(tasks) + 1
        /\ \A t \in 1..Len(tasks) : tasks'[t] = tasks[t]
        /\ tasks'[Len(tasks) + 1] = task
    BY <1>1, <1>5, <2>1, Grown
  <2>3. \A t \in DOMAIN tasks' : t \notin DOMAIN tasks => tasks'[t] = task
    BY <1>2, <2>2
  <2>4. QED
    BY <1>2, <1>3, <1>4, <1>7, <1>8, <2>2, <2>3 DEF task
<1>11. QED
  BY <1>9, <1>10

\* What AddClient does to the tasks.
LEMMA ClientAdded ==
    ASSUME TypeInv, AddClient
    PROVE  /\ tasks' \in Seq(Tasks) /\ Len(tasks') = Len(tasks) /\ DOMAIN tasks' = DOMAIN tasks
           /\ Len(cells) \in DOMAIN cells
           /\ \/ /\ UNCHANGED tasks /\ evPc' = "pad"
              \/ \E t \in Matching(name) :
                    /\ t \in DOMAIN tasks /\ t >= index
                    /\ \A u \in Matching(name) : u >= index => u >= t
                    /\ ~Locked(t)
                    /\ \A u \in DOMAIN tasks : tasks'[u].name = tasks[u].name
                    /\ \A u \in DOMAIN tasks : u # t => tasks'[u] = tasks[u]
                    /\ tasks'[t].buf = tasks[t].buf
                    /\ tasks'[t].clients = Append(tasks[t].clients, Len(cells))
                    /\ tasks[t].clients \in Seq(Nat)
                    /\ index' = t + 1 /\ evPc' = "client"
<1>1. /\ tasks \in Seq(Tasks) /\ cells \in Seq(Cells) /\ index \in Nat
      /\ evPc = "client" /\ Len(cells) > 0
  BY DEF TypeInv, TypeOK, SharedTypes, EventTypes, Phases, AddClient
<1>2. Len(cells) \in DOMAIN cells /\ Len(cells) \in Nat
  BY <1>1
<1>3. CASE \E t \in Matching(name) : t >= index
  <2>. DEFINE M == {u \in Matching(name) : u >= index}
              t == Min(M)
  <2>1. M \subseteq Nat /\ M # {}
    BY <1>1, <1>3 DEF Matching
  <2>2. t \in M /\ \A u \in M : t <= u
    BY <2>1, Lowest
  <2>3. /\ ~Locked(t) /\ tasks' = [tasks EXCEPT ![t].clients = Append(@, Len(cells))]
        /\ index' = t + 1 /\ evPc' = evPc
    BY <1>3 DEF AddClient
  <2>. HIDE DEF t
  <2>4. t \in Matching(name) /\ t \in DOMAIN tasks /\ t >= index /\ t \in Nat
    BY <1>1, <2>2, <2>1 DEF Matching
  <2>5. tasks[t] \in Tasks
    BY <1>1, <2>4
  <2>6. /\ tasks[t].buf \in Seq(Chunks) /\ tasks[t].clients \in Seq(Nat)
        /\ Append(tasks[t].clients, Len(cells)) \in Seq(Nat)
    BY <1>2, <2>5, AppendProperties DEF Tasks
  <2>7. tasks' = [tasks EXCEPT ![t].clients = Append(tasks[t].clients, Len(cells))]
    BY <2>3
  <2>8. /\ tasks' \in Seq(Tasks) /\ Len(tasks') = Len(tasks) /\ DOMAIN tasks' = DOMAIN tasks
        /\ \A u \in DOMAIN tasks : tasks'[u].name = tasks[u].name
        /\ \A u \in DOMAIN tasks : u # t => tasks'[u] = tasks[u]
        /\ tasks'[t].buf = tasks[t].buf
        /\ tasks'[t].clients = Append(tasks[t].clients, Len(cells))
    BY <1>1, <2>4, <2>6, <2>7, ListChanged
  <2>9. \A u \in Matching(name) : u >= index => u >= t
    BY <1>1, <2>1, <2>2
  <2>10. QED
    BY <1>1, <1>2, <2>3, <2>4, <2>6, <2>8, <2>9
<1>4. CASE ~\E t \in Matching(name) : t >= index
  <2>1. UNCHANGED tasks /\ evPc' = "pad"
    BY <1>4 DEF AddClient
  <2>2. QED
    BY <1>1, <1>2, <2>1
<1>5. QED
  BY <1>3, <1>4

\* What PollGet does to the tasks.
LEMMA ChunkTaken ==
    ASSUME TypeInv, PollGet
    PROVE  /\ tasks' \in Seq(Tasks) /\ Len(tasks') = Len(tasks) /\ DOMAIN tasks' = DOMAIN tasks
           /\ current \in DOMAIN tasks
           /\ \A u \in DOMAIN tasks : tasks'[u].name = tasks[u].name
           /\ \A u \in DOMAIN tasks : tasks'[u].clients = tasks[u].clients
           /\ \A u \in DOMAIN tasks : u # current => tasks'[u] = tasks[u]
           /\ tasks[current].buf \in Seq(Chunks) /\ Len(tasks[current].buf) > 0
           /\ tasks'[current].buf = Tail(tasks[current].buf)
           /\ tasks'[current].buf \in Seq(Chunks)
           /\ Len(tasks'[current].buf) = Len(tasks[current].buf) - 1
           /\ \A j \in 1..Len(tasks[current].buf) - 1 :
                 tasks'[current].buf[j] = tasks[current].buf[j + 1]
           /\ chunk' = tasks[current].buf[1] /\ chunk' \in Chunks
<1>1. tasks \in Seq(Tasks) /\ current \in DOMAIN tasks
  BY DEF TypeInv, TypeOK, SharedTypes, StreamTypes, PollGet
<1>. DEFINE b == tasks[current].buf
<1>2. b \in Seq(Chunks) /\ tasks[current].clients \in Seq(Nat) /\ b # <<>>
  <2>1. tasks[current] \in Tasks
    BY <1>1
  <2>2. QED
    BY <2>1 DEF Tasks, PollGet
<1>3. /\ chunk' = Head(b) /\ tasks' = [tasks EXCEPT ![current].buf = Tail(b)]
  BY DEF PollGet
<1>. HIDE DEF b
<1>4. /\ Tail(b) \in Seq(Chunks) /\ Len(Tail(b)) = Len(b) - 1 /\ Len(b) > 0
      /\ \A j \in 1..Len(b) - 1 : Tail(b)[j] = b[j + 1]
      /\ Head(b) = b[1] /\ Head(b) \in Chunks
  <2>1. Len(b) \in Nat \ {0}
    BY <1>2, EmptySeq
  <2>2. /\ Head(b) \in Chunks /\ Tail(b) \in Seq(Chunks) /\ Len(Tail(b)) = Len(b) - 1
        /\ \A j \in 1..Len(Tail(b)) : Tail(b)[j] = b[j + 1]
    BY <1>2, HeadTailProperties
  <2>3. Head(b) = b[1]
    BY <1>2, <2>1
  <2>4. QED
    BY <2>1, <2>2, <2>3
<1>5. /\ tasks' \in Seq(Tasks) /\ Len(tasks') = Len(tasks) /\ DOMAIN tasks' = DOMAIN tasks
      /\ \A u \in DOMAIN tasks : tasks'[u].name = tasks[u].name
      /\ \A u \in DOMAIN tasks : u # current => tasks'[u] = tasks[u]
      /\ tasks'[current].buf = Tail(b) /\ tasks'[current].clients = tasks[current].clients
  BY <1>1, <1>3, <1>4, BufferChanged
<1>6. \A u \in DOMAIN tasks : tasks'[u].clients = tasks[u].clients
  BY <1>5
<1>7. QED
  BY <1>1, <1>2, <1>3, <1>4, <1>5, <1>6 DEF b

LEMMA SharedKept == TypeInv /\ [Next]_vars => SharedTypes'
<1>. SUFFICES ASSUME TypeInv, [Next]_vars PROVE SharedTypes'
  OBVIOUS
<1>1. SharedTypes
  BY DEF TypeInv, TypeOK
<1>2. ASSUME UNCHANGED <<known, tasks, cells, pads>> PROVE SharedTypes'
  BY <1>1, <1>2 DEF SharedTypes, Listed
<1>3. CASE ChannelAdd
  BY <1>1, <1>3, HttpAssumption DEF SharedTypes, ChannelAdd, Listed
<1>4. ASSUME NEW i \in DOMAIN Config, Feed(i) PROVE SharedTypes'
  <2>1. /\ tasks' \in Seq(Tasks) /\ DOMAIN tasks' = DOMAIN tasks
        /\ [ch |-> i, n |-> fed[i] + 1] \in Chunks
    BY <1>4, FeedTasks
  <2>2. ASSUME NEW t \in DOMAIN tasks
        PROVE  Len(tasks'[t].buf) <= BufCap /\ Listed(t)' \subseteq DOMAIN cells
    <3>1. /\ tasks[t] \in Tasks /\ Len(tasks[t].buf) <= BufCap
          /\ Listed(t) \subseteq DOMAIN cells
      BY <1>1 DEF SharedTypes
    <3>2. PICK n \in Nat : tasks'[t].buf = Fill(tasks[t].buf, n, [ch |-> i, n |-> fed[i] + 1])
      BY <1>4, FeedTasks
    <3>3. tasks[t].buf \in Seq(Chunks)
      BY <3>1 DEF Tasks
    <3>4. Len(tasks'[t].buf) <= BufCap
      <4>. DEFINE b == tasks[t].buf
                  e == [ch |-> i, n |-> fed[i] + 1]
      <4>1. b \in Seq(Chunks) /\ Len(b) <= BufCap /\ e \in Chunks
        BY <2>1, <3>1, <3>3
      <4>. HIDE DEF b, e
      <4>2. \E w \in Nat : Len(Fill(b, n, e)) = Len(b) + w /\ Len(b) + w <= BufCap
        BY <4>1, Filled
      <4>3. QED
        BY <3>2, <4>2 DEF b, e
    <3>5. tasks'[t].clients = tasks[t].clients
      BY <1>4, FeedTasks
    <3>6. QED
      BY <3>1, <3>4, <3>5 DEF Listed
  <2>3. UNCHANGED <<known, cells, pads>>
    BY <1>4 DEF Feed
  <2>4. QED
    BY <1>1, <2>1, <2>2, <2>3 DEF SharedTypes
<1>5. CASE AddTask
  <2>1. /\ tasks' \in Seq(Tasks) /\ cells' \in Seq(Cells) /\ DOMAIN cells \subseteq DOMAIN cells'
        /\ \A t \in DOMAIN tasks : tasks'[t] = tasks[t]
        /\ \A t \in DOMAIN tasks' : t \notin DOMAIN tasks =>
              tasks'[t] = [name |-> name, buf |-> <<>>, clients |-> <<>>]
    BY <1>5, TaskAdded
  <2>2. ASSUME NEW t \in DOMAIN tasks'
        PROVE  Len(tasks'[t].buf) <= BufCap /\ Listed(t)' \subseteq DOMAIN cells'
    <3>1. CASE t \in DOMAIN tasks
      BY <1>1, <2>1, <3>1 DEF SharedTypes, Listed
    <3>2. CASE t \notin DOMAIN tasks
      <4>1. tasks'[t].buf = <<>> /\ tasks'[t].clients = <<>>
        BY <2>1, <3>2
      <4>2. QED
        BY <4>1, HttpAssumption DEF Listed, ToSet
    <3>3. QED
      BY <3>1, <3>2
  <2>3. UNCHANGED <<known, pads>>
    BY <1>5 DEF AddTask
  <2>4. QED
    BY <1>1, <2>1, <2>2, <2>3 DEF SharedTypes
<1>6. CASE AddClient
  <2>1. tasks' \in Seq(Tasks) /\ DOMAIN tasks' = DOMAIN tasks /\ Len(cells) \in DOMAIN cells
    BY <1>6, ClientAdded
  <2>2. UNCHANGED <<known, cells, pads>>
    BY <1>6 DEF AddClient
  <2>3. CASE UNCHANGED tasks
    BY <1>2, <2>2, <2>3
  <2>4. ASSUME NEW u \in DOMAIN tasks,
               \A t \in DOMAIN tasks : t # u => tasks'[t] = tasks[t],
               tasks'[u].buf = tasks[u].buf, tasks[u].clients \in Seq(Nat),
               tasks'[u].clients = Append(tasks[u].clients, Len(cells))
        PROVE  SharedTypes'
    <3>1. Len(cells) \in Nat
      BY <1>1 DEF SharedTypes
    <3>2. Listed(u)' = Listed(u) \cup {Len(cells)}
      BY <2>4, <3>1, Grown DEF Listed
    <3>3. \A t \in DOMAIN tasks :
              Len(tasks'[t].buf) <= BufCap /\ Listed(t)' \subseteq DOMAIN cells
      BY <1>1, <2>1, <2>4, <3>2 DEF SharedTypes, Listed
    <3>4. QED
      BY <1>1, <2>1, <2>2, <3>3 DEF SharedTypes
  <2>5. QED
    BY <1>6, <2>3, <2>4, ClientAdded
<1>7. CASE AddOutput
  <2>1. UNCHANGED <<known, tasks, cells>>
    BY <1>7 DEF AddOutput
  <2>2. pads' \in [DOMAIN Config -> [Media -> Seq(Nat)]]
    <3>1. CASE Kind[name] \in Config[ChannelFind(name)].media
      <4>. DEFINE i == ChannelFind(name)
                  t == Min(Matching(name))
      <4>1. pads' = [pads EXCEPT ![i][Kind[name]] = Append(@, t)]
        BY <1>7, <3>1 DEF AddOutput
      <4>2. t \in Nat
        <5>1. Matching(name) \subseteq Nat /\ Matching(name) # {}
          BY <1>1, <1>7 DEF Matching, SharedTypes, AddOutput, TypeInv, Phases
        <5>2. QED
          BY <5>1, Lowest
      <4>. HIDE DEF t, i
      <4>3. \A j \in DOMAIN Config, m \in Media : Append(pads[j][m], t) \in Seq(Nat)
        BY <1>1, <4>2, AppendProperties DEF SharedTypes
      <4>4. QED
        BY <1>1, <4>1, <4>3 DEF SharedTypes
    <3>2. CASE Kind[name] \notin Config[ChannelFind(name)].media
      BY <1>1, <1>7, <3>2 DEF AddOutput, SharedTypes
    <3>3. QED
      BY <3>1, <3>2
  <2>3. QED
    BY <1>1, <2>1, <2>2 DEF SharedTypes, Listed
<1>8. CASE PollGet
  <2>1. /\ tasks' \in Seq(Tasks) /\ DOMAIN tasks' = DOMAIN tasks
        /\ \A t \in DOMAIN tasks : tasks'[t].clients = tasks[t].clients
        /\ \A t \in DOMAIN tasks : t # current => tasks'[t] = tasks[t]
        /\ Len(tasks'[current].buf) = Len(tasks[current].buf) - 1
        /\ tasks[current].buf \in Seq(Chunks)
    BY <1>8, ChunkTaken
  <2>2. UNCHANGED <<known, cells, pads>>
    BY <1>8 DEF PollGet
  <2>3. \A t \in DOMAIN tasks : Len(tasks'[t].buf) <= BufCap
    BY <1>1, <2>1, HttpAssumption, SMTT(30) DEF SharedTypes
  <2>4. QED
    BY <1>1, <2>1, <2>2, <2>3 DEF SharedTypes, Listed
<1>9. CASE DropClient
  <2>1. /\ tasks' \in Seq(Tasks) /\ DOMAIN tasks' = DOMAIN tasks
        /\ cells' \in Seq(Cells) /\ DOMAIN cells' = DOMAIN cells
        /\ \A t \in DOMAIN tasks : tasks'[t].buf = tasks[t].buf
        /\ \A t \in DOMAIN tasks : t # current => tasks'[t] = tasks[t]
        /\ tasks'[current].clients = RemoveAt(tasks[current].clients, pos)
        /\ tasks[current].clients \in Seq(Nat) /\ pos \in 1..Len(tasks[current].clients)
    BY <1>9, ClientRemoved
  <2>2. UNCHANGED <<known, pads>>
    BY <1>9 DEF DropClient
  <2>4. \A t \in DOMAIN tasks : Listed(t)' \subseteq Listed(t)
    <3>1. ToSet(tasks'[current].clients) \subseteq ToSet(tasks[current].clients)
      BY <2>1, RemovedMembers
    <3>2. QED
      BY <2>1, <3>1 DEF Listed
  <2>5. QED
    BY <1>1, <2>1, <2>2, <2>4 DEF SharedTypes
<1>10. CASE \/ EventWait \/ BatchDone \/ Accept \/ SendHead
            \/ \E c \in Clients : RecvEnd(c) \/ RecvAgain(c) \/ RecvRead(c)
  BY <1>2, <1>10 DEF EventWait, BatchDone, Accept, SendHead, RecvEnd, RecvAgain, RecvRead
<1>11. CASE \/ PollEmpty \/ Write \/ WriteFails \/ FreeAborts \/ WalkDone
            \/ \E c \in Clients : Connect(c) \/ Send(c) \/ Leave(c)
  BY <1>2, <1>11 DEF PollEmpty, Write, WriteFails, FreeAborts, WalkDone, Connect, Send, Leave
<1>12. CASE UNCHANGED vars
  BY <1>2, <1>12 DEF vars
<1>13. QED
  BY <1>3, <1>4, <1>5, <1>6, <1>7, <1>8, <1>9, <1>10, <1>11, <1>12
     DEF Next, Environment, EventStep, StreamStep

LEMMA StreamKept == TypeInv /\ [Next]_vars => StreamTypes'
<1>. SUFFICES ASSUME TypeInv, [Next]_vars PROVE StreamTypes'
  OBVIOUS
<1>1. SharedTypes /\ StreamTypes /\ Len(tasks) \in Nat
  BY DEF TypeInv, TypeOK, SharedTypes
<1>2. ASSUME UNCHANGED <<tasks, stream>> PROVE StreamTypes'
  BY <1>1, <1>2 DEF StreamTypes, stream
<1>3. ASSUME UNCHANGED stream, Len(tasks') \in Nat, Len(tasks) <= Len(tasks')
      PROVE  StreamTypes'
  BY <1>1, <1>3 DEF StreamTypes, stream
<1>4. ASSUME NEW i \in DOMAIN Config, Feed(i) PROVE StreamTypes'
  <2>1. UNCHANGED stream
    BY <1>4 DEF Feed
  <2>2. Len(tasks') = Len(tasks)
    BY <1>4, FeedTasks
  <2>3. QED
    BY <1>1, <1>3, <2>1, <2>2
<1>5. CASE AddTask
  <2>1. UNCHANGED stream
    BY <1>5 DEF AddTask
  <2>2. Len(tasks') \in Nat
    BY <1>5, TaskAdded
  <2>3. QED
    BY <1>3, <1>5, <2>1, <2>2, TaskAdded
<1>6. CASE AddClient
  <2>1. UNCHANGED stream
    BY <1>6 DEF AddClient
  <2>2. QED
    BY <1>1, <1>3, <1>6, <2>1, ClientAdded
<1>7. CASE Accept \/ AddOutput \/ WriteFails \/ FreeAborts
  BY <1>1, <1>7 DEF Accept, AddOutput, WriteFails, FreeAborts, Abort, StreamTypes
<1>8. NextTask \in 0..Len(tasks)
  BY <1>1 DEF NextTask, StreamTypes
<1>9. CASE PollEmpty
  BY <1>1, <1>8, <1>9 DEF PollEmpty, StreamTypes
<1>10. CASE WalkDone
  BY <1>1, <1>8, <1>10 DEF WalkDone, StreamTypes, NoChunk, Chunks
<1>11. CASE PollGet
  <2>1. chunk' \in Chunks /\ Len(tasks') = Len(tasks)
    BY <1>11, ChunkTaken
  <2>2. QED
    BY <1>1, <1>11, <2>1 DEF PollGet, StreamTypes
<1>12. CASE Write \/ DropClient
  <2>1. Len(tasks') = Len(tasks)
    BY <1>12, ClientRemoved DEF Write
  <2>2. QED
    BY <1>1, <1>12, <2>1 DEF Write, DropClient, StreamTypes
<1>13. CASE \/ EventWait \/ BatchDone \/ SendHead \/ ChannelAdd
            \/ \E c \in Clients : RecvEnd(c) \/ RecvAgain(c) \/ RecvRead(c)
  BY <1>2, <1>13 DEF EventWait, BatchDone, SendHead, ChannelAdd, RecvEnd, RecvAgain, RecvRead
<1>14. CASE \E c \in Clients : Connect(c) \/ Send(c) \/ Leave(c)
  BY <1>2, <1>14 DEF Connect, Send, Leave
<1>15. CASE UNCHANGED vars
  BY <1>2, <1>15 DEF vars
<1>16. QED
  BY <1>4, <1>5, <1>6, <1>7, <1>9, <1>10, <1>11, <1>12, <1>13, <1>14, <1>15
     DEF Next, Environment, EventStep, StreamStep

LEMMA PastKept == TypeInv /\ [Next]_vars => PastTypes'
<1>. SUFFICES ASSUME TypeInv, [Next]_vars PROVE PastTypes'
  OBVIOUS
<1>1. PastTypes /\ KernelTypes /\ EventTypes /\ StreamTypes /\ Phases
  BY DEF TypeInv, TypeOK
<1>2. ASSUME UNCHANGED <<fed, past>> PROVE PastTypes'
  BY <1>1, <1>2 DEF PastTypes, past
<1>3. ASSUME NEW i \in DOMAIN Config, Feed(i) PROVE PastTypes'
  <2>1. fed' \in [DOMAIN Config -> Nat] /\ UNCHANGED past
    BY <1>1, <1>3 DEF PastTypes, Feed
  <2>2. QED
    BY <1>1, <2>1 DEF PastTypes, past
<1>4. ASSUME NEW c \in Clients, RecvEnd(c) PROVE PastTypes'
  BY <1>1, <1>4 DEF PastTypes, RecvEnd, CoreClose
<1>5. Head200 \in Items /\ NotFound404 \in Items
  BY DEF Head200, NotFound404, Reply, Items
<1>6. ASSUME NEW c \in Clients, RecvRead(c) PROVE PastTypes'
  <2>. DEFINE d == owner[skt[c]]
              n == Found(c, inbox[d])
  <2>1. n \in Names \cup {Nobody}
    <3>1. skt[c] \in Fds /\ inbox[d] # "none" /\ d # Nobody
      BY <1>1, <1>6, HttpAssumption DEF RecvRead, Phases
    <3>2. inbox[d] \in Segments
      BY <1>1, <3>1 DEF KernelTypes
    <3>3. QED
      BY <1>1, <3>2, HttpAssumption DEF Found, EventTypes, Segments
  <2>. HIDE DEF n
  <2>2. got' \in {got, Receives(skt[c], NotFound404)}
    BY <1>6, WrittenOrLost DEF RecvRead
  <2>3. got' \in [Clients -> Seq(Items)]
    BY <1>1, <1>5, <2>2, Received DEF PastTypes
  <2>4. UNCHANGED <<fed, failed>>
    BY <1>6 DEF RecvRead
  <2>5. CASE ChannelFind(n) = 0
    <3>1. asked' = asked /\ misled' \in BOOLEAN
      BY <1>6, <2>5 DEF RecvRead, CoreClose, n
    <3>2. QED
      BY <1>1, <2>3, <2>4, <3>1 DEF PastTypes
  <2>6. CASE ChannelFind(n) # 0
    <3>1. asked' = [asked EXCEPT ![c] = @ \cup {n}] /\ misled' \in BOOLEAN
      BY <1>6, <2>6 DEF RecvRead, n
    <3>2. n \in Names
      BY <2>1, <2>6 DEF ChannelFind
    <3>3. QED
      BY <1>1, <2>3, <2>4, <3>1, <3>2 DEF PastTypes
  <2>7. QED
    BY <2>5, <2>6
<1>7. CASE SendHead
  <2>1. got' \in {got, Receives(skt[con], Head200)}
    BY <1>7, WrittenOrLost DEF SendHead
  <2>2. got' \in [Clients -> Seq(Items)]
    BY <1>1, <1>5, <2>1, Received DEF PastTypes
  <2>3. UNCHANGED <<fed, asked, failed, misled>>
    BY <1>7 DEF SendHead
  <2>4. QED
    BY <1>1, <2>2, <2>3 DEF PastTypes
<1>8. CASE Write
  <2>. DEFINE item == [task |-> current, ch |-> chunk.ch, n |-> chunk.n]
  <2>1. item \in Items
    BY <1>1 DEF StreamTypes, Chunks, Items
  <2>2. PICK f \in CellFds : got' \in {got, Receives(f, item)}
    BY <1>8, WrittenOrLost DEF Write
  <2>3. misled' \in BOOLEAN /\ UNCHANGED <<fed, asked, failed>>
    BY <1>8 DEF Write
  <2>. HIDE DEF item
  <2>4. got' \in [Clients -> Seq(Items)]
    BY <1>1, <2>1, <2>2, Received DEF PastTypes
  <2>5. QED
    BY <1>1, <2>3, <2>4 DEF PastTypes
<1>9. CASE DropClient
  <2>1. PICK f \in CellFds, k \in DOMAIN cells : f \in Fds /\ CloseFailed(f, k)
    BY <1>9, ClientRemoved
  <2>3. failed' \subseteq Clients /\ misled' \in BOOLEAN
    BY <1>1, <2>1 DEF CloseFailed, KernelTypes, PastTypes
  <2>4. UNCHANGED <<fed, asked, got>>
    BY <1>9 DEF DropClient
  <2>5. QED
    BY <1>1, <2>3, <2>4 DEF PastTypes
<1>10. CASE \/ EventWait \/ BatchDone \/ Accept \/ AddTask \/ AddClient \/ AddOutput
            \/ ChannelAdd \/ \E c \in Clients : RecvAgain(c)
  BY <1>2, <1>10 DEF EventWait, BatchDone, Accept, AddTask, AddClient, AddOutput, ChannelAdd, RecvAgain
<1>11. CASE \/ PollEmpty \/ PollGet \/ WriteFails \/ FreeAborts \/ WalkDone
            \/ \E c \in Clients : Connect(c) \/ Send(c) \/ Leave(c)
  BY <1>2, <1>11 DEF PollEmpty, PollGet, WriteFails, FreeAborts, WalkDone, Connect, Send, Leave
<1>12. CASE UNCHANGED vars
  BY <1>2, <1>12 DEF vars
<1>13. QED
  BY <1>3, <1>4, <1>6, <1>7, <1>8, <1>9, <1>10, <1>11, <1>12
     DEF Next, Environment, EventStep, StreamStep

\* The tasks that match a name stay the same while each keeps its name.
LEMMA SameMatching ==
    ASSUME DOMAIN tasks' = DOMAIN tasks,
           \A t \in DOMAIN tasks : tasks'[t].name = tasks[t].name
    PROVE  \A n : Matching(n)' = Matching(n)
  BY DEF Matching

LEMMA WiredKept == TypeInv /\ [Next]_vars => Wired'
<1>. SUFFICES ASSUME TypeInv, [Next]_vars PROVE Wired'
  OBVIOUS
<1>1. KernelTypes /\ EventTypes /\ Phases /\ Wired
  BY DEF TypeInv, TypeOK
<1>2. Nobody \notin Clients /\ Listener \notin Clients
  BY HttpAssumption
<1>3. ASSUME UNCHANGED <<link, owner, watched, skt>> PROVE Wired'
  BY <1>1, <1>3 DEF Wired
<1>4. ASSUME NEW c \in Clients, Connect(c) PROVE Wired'
  <2>1. /\ link[c] = "away" /\ link' = [link EXCEPT ![c] = "knocking"]
        /\ UNCHANGED <<owner, watched, skt>>
    BY <1>4 DEF Connect, event
  <2>2. \A d \in Clients : link'[d] = "open" <=> link[d] = "open"
    BY <1>1, <2>1 DEF KernelTypes
  <2>3. QED
    BY <1>1, <2>1, <2>2 DEF Wired
<1>5. CASE Accept
  <2>. DEFINE f == Min(FreeFds)
  <2>1. CASE UNCHANGED <<link, skt, owner, watched>>
    BY <1>3, <2>1
  <2>2. CASE ~UNCHANGED <<link, skt, owner, watched>>
    <3>0. FreeFds # {}
      BY <1>5, <2>2 DEF Accept
    <3>1. PICK c \in Clients :
              /\ link[c] = "knocking"
              /\ link' = [link EXCEPT ![c] = "open"]
              /\ skt' = [skt EXCEPT ![c] = f]
              /\ owner' = [owner EXCEPT ![f] = c]
              /\ watched' = watched \cup {c}
      BY <1>5, <2>2 DEF Accept
    <3>2. f \in Fds /\ owner[f] = Nobody
      BY <3>0, FreeFdFound
    <3>. HIDE DEF f
    <3>3. c \notin watched /\ \A g \in Fds : owner[g] # c
      BY <1>1, <1>2, <3>1 DEF Wired
    <3>4. \A d \in Clients : link'[d] = "open" <=> d \in watched'
      BY <1>1, <3>1 DEF KernelTypes, Wired
    <3>5. \A g \in Fds : owner'[g] # Nobody => owner'[g] \in watched' /\ skt'[owner'[g]] = g
      <4>. SUFFICES ASSUME NEW g \in Fds, owner'[g] # Nobody
                    PROVE  owner'[g] \in watched' /\ skt'[owner'[g]] = g
        OBVIOUS
      <4>1. CASE g = f
        BY <1>1, <3>1, <3>2, <4>1 DEF KernelTypes, EventTypes
      <4>2. CASE g # f
        <5>1. owner'[g] = owner[g] /\ owner[g] \in Clients /\ owner[g] # c
          BY <1>1, <3>1, <3>3, <4>2 DEF KernelTypes
        <5>2. skt'[owner[g]] = skt[owner[g]]
          BY <1>1, <3>1, <5>1 DEF EventTypes
        <5>3. QED
          BY <1>1, <3>1, <5>1, <5>2 DEF Wired
      <4>3. QED
        BY <4>1, <4>2
    <3>6. \A d \in watched' : skt'[d] \in Fds /\ owner'[skt'[d]] = d
      <4>. SUFFICES ASSUME NEW d \in watched' PROVE skt'[d] \in Fds /\ owner'[skt'[d]] = d
        OBVIOUS
      <4>1. CASE d = c
        BY <1>1, <3>1, <3>2, <4>1 DEF KernelTypes, EventTypes
      <4>2. CASE d # c
        <5>1. d \in watched /\ d \in Clients /\ skt'[d] = skt[d]
          BY <1>1, <3>1, <4>2 DEF KernelTypes, EventTypes
        <5>2. skt[d] # f
          BY <1>1, <1>2, <3>2, <5>1 DEF Wired
        <5>3. QED
          BY <1>1, <3>1, <5>1, <5>2 DEF Wired, KernelTypes
      <4>3. QED
        BY <4>1, <4>2
    <3>7. QED
      BY <3>4, <3>5, <3>6 DEF Wired
  <2>3. QED
    BY <2>1, <2>2
<1>6. ASSUME NEW c \in Clients, RecvEnd(c) \/ RecvRead(c) PROVE Wired'
  <2>1. skt[c] \in Fds /\ skt' = skt
    BY <1>1, <1>2, <1>6 DEF RecvEnd, RecvRead, Phases
  <2>2. CASE Close(skt[c])
    BY <2>1, <2>2, Closed
  <2>3. CASE UNCHANGED <<link, owner, watched>>
    BY <1>3, <2>1, <2>3
  <2>4. QED
    BY <1>6, <2>2, <2>3 DEF RecvEnd, RecvRead, CoreClose
<1>7. CASE DropClient
  <2>1. PICK f \in Fds : Close(f)
    BY <1>7, ClientRemoved DEF CloseFailed
  <2>2. skt' = skt
    BY <1>7 DEF DropClient, event
  <2>3. QED
    BY <2>1, <2>2, Closed
<1>8. CASE \/ EventWait \/ BatchDone \/ AddTask \/ AddClient \/ AddOutput \/ SendHead
           \/ ChannelAdd \/ \E i \in DOMAIN Config : Feed(i)
  BY <1>3, <1>8
     DEF EventWait, BatchDone, AddTask, AddClient, AddOutput, SendHead, ChannelAdd, Feed, kernel, event
<1>9. CASE \/ PollEmpty \/ PollGet \/ Write \/ WriteFails \/ FreeAborts \/ WalkDone
           \/ \E c \in Clients : RecvAgain(c) \/ Send(c) \/ Leave(c)
  BY <1>3, <1>9
     DEF PollEmpty, PollGet, Write, WriteFails, FreeAborts, WalkDone, RecvAgain, Send, Leave,
         kernel, event
<1>10. CASE UNCHANGED vars
  BY <1>3, <1>10 DEF vars, kernel, event
<1>11. QED
  BY <1>4, <1>5, <1>6, <1>7, <1>8, <1>9, <1>10
     DEF Next, Environment, EventStep, StreamStep

LEMMA ClosesOne ==
    ASSUME TypeInv, NEW f \in Fds, Close(f) \/ UNCHANGED <<link, owner, watched>>
    PROVE  \A e \in Clients : \/ link'[e] = link[e]
                              \/ link[e] = "open" /\ link'[e] = "closed"
<1>1. CASE UNCHANGED link
  BY <1>1
<1>2. CASE Close(f)
  <2>. SUFFICES ASSUME NEW e \in Clients, link'[e] # link[e]
                PROVE  link[e] = "open" /\ link'[e] = "closed"
    OBVIOUS
  <2>1. e = owner[f]
    BY <1>2, Closed
  <2>2. owner[f] # Nobody
    BY <2>1, HttpAssumption
  <2>3. QED
    BY <1>2, <2>1, <2>2, Closed
<1>3. QED
  BY <1>1, <1>2

\* A connection that was accepted stays so, under its descriptor number, and
\* a closed one stays closed; what the clients did is not forgotten.
LEMMA ClientsKept ==
    ASSUME TypeInv, [Next]_vars
    PROVE  /\ \A c \in Clients : link[c] \in {"open", "closed"} =>
                 link'[c] \in {"open", "closed"} /\ skt'[c] = skt[c]
           /\ \A c \in Clients : link[c] = "closed" => link'[c] = "closed"
           /\ eof \subseteq eof' /\ done \subseteq done' /\ failed \subseteq failed'
           /\ misled => misled'
           /\ \A c \in Clients : asked[c] \subseteq asked'[c]
<1>. DEFINE Kept ==
              /\ \A c \in Clients : link[c] \in {"open", "closed"} =>
                    link'[c] \in {"open", "closed"} /\ skt'[c] = skt[c]
              /\ \A c \in Clients : link[c] = "closed" => link'[c] = "closed"
              /\ eof \subseteq eof' /\ done \subseteq done' /\ failed \subseteq failed'
              /\ misled => misled'
              /\ \A c \in Clients : asked[c] \subseteq asked'[c]
<1>1. KernelTypes /\ EventTypes /\ Phases /\ PastTypes
  BY DEF TypeInv, TypeOK
<1>2. ASSUME UNCHANGED <<link, skt, eof, done, failed, misled, asked>> PROVE Kept
  BY <1>2
<1>3. ASSUME NEW c \in Clients, Connect(c) \/ Leave(c) PROVE Kept
  BY <1>1, <1>3 DEF Connect, Leave, event, past, KernelTypes
<1>4. CASE Accept
  <2>1. UNCHANGED <<eof, done, failed, misled, asked>>
    BY <1>4 DEF Accept, past
  <2>2. \/ UNCHANGED <<link, skt>>
        \/ \E c \in Clients : /\ link[c] = "knocking" /\ link' = [link EXCEPT ![c] = "open"]
                              /\ skt' = [skt EXCEPT ![c] = Min(FreeFds)]
    BY <1>4 DEF Accept
  <2>3. QED
    BY <1>1, <2>1, <2>2 DEF KernelTypes, EventTypes
<1>5. ASSUME NEW c \in Clients, RecvEnd(c) \/ RecvRead(c) PROVE Kept
  <2>1. skt[c] \in Fds /\ skt' = skt
    BY <1>1, <1>5, HttpAssumption DEF RecvEnd, RecvRead, Phases
  <2>2. Close(skt[c]) \/ UNCHANGED <<link, owner, watched>>
    BY <1>5 DEF RecvEnd, RecvRead, CoreClose
  <2>3. \A e \in Clients : \/ link'[e] = link[e]
                           \/ link[e] = "open" /\ link'[e] = "closed"
    BY <2>1, <2>2, ClosesOne
  <2>4. UNCHANGED <<eof, failed>> /\ done \subseteq done' /\ (misled => misled')
    BY <1>5 DEF RecvEnd, RecvRead, CoreClose
  <2>5. \A e \in Clients : asked[e] \subseteq asked'[e]
    <3>1. asked' = asked \/ \E n : asked' = [asked EXCEPT ![c] = @ \cup {n}]
      BY <1>5 DEF RecvEnd, RecvRead
    <3>2. QED
      BY <1>1, <3>1 DEF PastTypes
  <2>6. QED
    BY <2>1, <2>3, <2>4, <2>5
<1>6. CASE DropClient
  <2>1. PICK f \in CellFds, k \in DOMAIN cells : f \in Fds /\ CloseFailed(f, k)
    BY <1>6, ClientRemoved
  <2>2. failed \subseteq failed' /\ (misled => misled') /\ Close(f)
    BY <2>1 DEF CloseFailed
  <2>3. \A e \in Clients : \/ link'[e] = link[e]
                           \/ link[e] = "open" /\ link'[e] = "closed"
    BY <2>1, <2>2, ClosesOne
  <2>4. UNCHANGED <<eof, skt, done, asked>>
    BY <1>6 DEF DropClient, event
  <2>5. QED
    BY <2>2, <2>3, <2>4
<1>7. CASE Write
  BY <1>7 DEF Write, kernel, event
<1>8. CASE \/ EventWait \/ BatchDone \/ AddTask \/ AddClient \/ AddOutput \/ SendHead
           \/ ChannelAdd \/ \E i \in DOMAIN Config : Feed(i)
  BY <1>2, <1>8
     DEF EventWait, BatchDone, AddTask, AddClient, AddOutput, SendHead, ChannelAdd, Feed,
         kernel, event, past
<1>9. CASE \/ PollEmpty \/ PollGet \/ WriteFails \/ FreeAborts \/ WalkDone
           \/ \E c \in Clients : RecvAgain(c) \/ Send(c)
  BY <1>2, <1>9
     DEF PollEmpty, PollGet, WriteFails, FreeAborts, WalkDone, RecvAgain, Send, kernel, event, past
<1>10. CASE UNCHANGED vars
  BY <1>2, <1>10 DEF vars, kernel, event, past
<1>11. QED
  BY <1>3, <1>4, <1>5, <1>6, <1>7, <1>8, <1>9, <1>10
     DEF Next, Environment, EventStep, StreamStep

\* Tasks and cells are only added, and keep their names and owners.
LEMMA TasksKept ==
    ASSUME TypeInv, [Next]_vars
    PROVE  /\ DOMAIN tasks \subseteq DOMAIN tasks'
           /\ \A t \in DOMAIN tasks : tasks'[t].name = tasks[t].name
           /\ DOMAIN cells \subseteq DOMAIN cells'
           /\ \A k \in DOMAIN cells : cells'[k].by = cells[k].by
           /\ AddTask \/ Len(cells') = Len(cells)
           /\ known <= known'
<1>. DEFINE Kept ==
              /\ DOMAIN tasks \subseteq DOMAIN tasks'
              /\ \A t \in DOMAIN tasks : tasks'[t].name = tasks[t].name
              /\ DOMAIN cells \subseteq DOMAIN cells'
              /\ \A k \in DOMAIN cells : cells'[k].by = cells[k].by
              /\ AddTask \/ Len(cells') = Len(cells)
              /\ known <= known'
<1>1. known \in Nat
  BY HttpAssumption DEF TypeInv, TypeOK, SharedTypes
<1>2. ASSUME UNCHANGED <<tasks, cells, known>> PROVE Kept
  BY <1>1, <1>2
<1>3. CASE ChannelAdd
  BY <1>1, <1>3 DEF ChannelAdd
<1>4. ASSUME NEW i \in DOMAIN Config, Feed(i) PROVE Kept
  <2>1. UNCHANGED <<cells, known>>
    BY <1>4 DEF Feed
  <2>2. DOMAIN tasks' = DOMAIN tasks /\ \A t \in DOMAIN tasks : tasks'[t].name = tasks[t].name
    BY <1>4, FeedTasks
  <2>3. QED
    BY <1>1, <2>1, <2>2
<1>5. CASE AddTask
  <2>1. known' = known
    BY <1>5 DEF AddTask
  <2>2. DOMAIN tasks \subseteq DOMAIN tasks' /\ \A t \in DOMAIN tasks : tasks'[t] = tasks[t]
    BY <1>5, TaskAdded
  <2>3. DOMAIN cells \subseteq DOMAIN cells' /\ \A k \in DOMAIN cells : cells'[k] = cells[k]
    BY <1>5, TaskAdded
  <2>4. QED
    BY <1>1, <1>5, <2>1, <2>2, <2>3
<1>6. CASE AddClient
  <2>1. UNCHANGED <<cells, known>>
    BY <1>6 DEF AddClient
  <2>2. DOMAIN tasks' = DOMAIN tasks /\ \A t \in DOMAIN tasks : tasks'[t].name = tasks[t].name
    BY <1>6, ClientAdded
  <2>3. QED
    BY <1>1, <2>1, <2>2
<1>7. CASE PollGet
  <2>1. UNCHANGED <<cells, known>>
    BY <1>7 DEF PollGet
  <2>2. QED
    BY <1>1, <1>7, <2>1, ChunkTaken
<1>8. CASE DropClient
  <2>1. known' = known
    BY <1>8 DEF DropClient
  <2>2. QED
    BY <1>1, <1>8, <2>1, ClientRemoved
<1>9. CASE \/ EventWait \/ BatchDone \/ Accept \/ AddOutput \/ SendHead
           \/ \E c \in Clients : RecvEnd(c) \/ RecvAgain(c) \/ RecvRead(c)
  BY <1>2, <1>9 DEF EventWait, BatchDone, Accept, AddOutput, SendHead, RecvEnd, RecvAgain, RecvRead
<1>10. CASE \/ PollEmpty \/ Write \/ WriteFails \/ FreeAborts \/ WalkDone
            \/ \E c \in Clients : Connect(c) \/ Send(c) \/ Leave(c)
  BY <1>2, <1>10 DEF PollEmpty, Write, WriteFails, FreeAborts, WalkDone, Connect, Send, Leave
<1>11. CASE UNCHANGED vars
  BY <1>2, <1>11 DEF vars
<1>12. QED
  BY <1>3, <1>4, <1>5, <1>6, <1>7, <1>8, <1>9, <1>10, <1>11
     DEF Next, Environment, EventStep, StreamStep

LEMMA MatchingKept ==
    ASSUME TypeInv, [Next]_vars
    PROVE  \A n : Matching(n) \subseteq Matching(n)'
  BY TasksKept DEF Matching

\* While the streamer has the lock, only the streamer changes the list.
LEMMA LockedList ==
    ASSUME TypeInv, [Next]_vars, ~DropClient, stPc \in {"walk", "drop"}
    PROVE  current \in DOMAIN tasks /\ tasks'[current].clients = tasks[current].clients
<1>1. current \in DOMAIN tasks
  BY DEF TypeInv, TypeOK, Phases, SharedTypes, StreamTypes
<1>2. CASE UNCHANGED tasks
  BY <1>1, <1>2
<1>3. CASE \E i \in DOMAIN Config : Feed(i)
  BY <1>1, <1>3, FeedTasks
<1>4. CASE AddTask
  BY <1>1, <1>4, TaskAdded
<1>5. CASE AddClient
  BY <1>1, <1>5, ClientAdded DEF Locked
<1>6. CASE \/ ChannelAdd \/ \E c \in Clients : Connect(c) \/ Send(c) \/ Leave(c)
           \/ EventWait \/ BatchDone \/ Accept \/ AddOutput \/ SendHead
           \/ \E c \in Clients : RecvEnd(c) \/ RecvAgain(c) \/ RecvRead(c)
  BY <1>2, <1>6
     DEF ChannelAdd, Connect, Send, Leave, EventWait, BatchDone, Accept, AddOutput, SendHead,
         RecvEnd, RecvAgain, RecvRead
<1>7. CASE PollEmpty \/ PollGet \/ Write \/ WriteFails \/ FreeAborts \/ WalkDone
  BY <1>2, <1>7 DEF PollEmpty, PollGet, Write, WriteFails, FreeAborts, WalkDone
<1>8. CASE UNCHANGED vars
  BY <1>2, <1>8 DEF vars
<1>9. QED
  BY <1>3, <1>4, <1>5, <1>6, <1>7, <1>8 DEF Next, Environment, EventStep, StreamStep

\* A failed write is followed by the close of the descriptor.
LEMMA DropStays ==
    ASSUME [Next]_vars
    PROVE  /\ stPc' = "drop" => stPc = "drop" \/ WriteFails
           /\ stPc = "drop" /\ stPc' = "drop" => UNCHANGED stream
<1>1. CASE UNCHANGED stream
  BY <1>1 DEF stream
<1>2. CASE \/ ChannelAdd \/ \E c \in Clients : Connect(c) \/ Send(c) \/ Leave(c)
           \/ \E i \in DOMAIN Config : Feed(i)
           \/ EventWait \/ BatchDone \/ AddTask \/ AddClient \/ SendHead
           \/ \E c \in Clients : RecvEnd(c) \/ RecvAgain(c) \/ RecvRead(c)
  BY <1>1, <1>2 DEF ChannelAdd, Connect, Send, Leave, Feed, EventWait, BatchDone, AddTask,
                    AddClient, SendHead, RecvEnd, RecvAgain, RecvRead
<1>3. CASE Accept \/ AddOutput \/ FreeAborts
  BY <1>3 DEF Accept, AddOutput, FreeAborts, Abort, stream
<1>4. CASE PollEmpty \/ PollGet \/ Write \/ WriteFails \/ DropClient \/ WalkDone
  BY <1>4 DEF PollEmpty, PollGet, Write, WriteFails, DropClient, WalkDone
<1>5. CASE UNCHANGED vars
  BY <1>1, <1>5 DEF vars
<1>6. QED
  BY <1>2, <1>3, <1>4, <1>5 DEF Next, Environment, EventStep, StreamStep

LEMMA PhasesKept == TypeInv /\ [Next]_vars => Phases'
<1>. SUFFICES ASSUME TypeInv, [Next]_vars PROVE Phases'
  OBVIOUS
<1>1. KernelTypes /\ EventTypes /\ SharedTypes /\ StreamTypes /\ PastTypes /\ Phases /\ Wired
  BY DEF TypeInv, TypeOK
<1>2. Nobody \notin Clients /\ Listener \notin Clients
  BY HttpAssumption
<1>. DEFINE Batch == \A c \in batch : c # Listener =>
                        skt[c] \in Fds /\ link[c] \in {"open", "closed"}
            Idle == evPc \in {"wait", "dispatch"} => con = Nobody
            Busy == evPc \in {"task", "client", "pad", "head"} =>
                        /\ con \in Clients /\ name \in Names /\ known > 0
                        /\ skt[con] \in Fds /\ link[con] \in {"open", "closed"}
                        /\ name \in asked[con]
            Match == evPc \in {"client", "pad", "head"} => Matching(name) # {}
            Mine == evPc = "client" => Len(cells) > 0 /\ cells[Len(cells)].by = con
            Walk == /\ stPc \in {"walk", "drop"} => current > 0 /\ pos > 0
                    /\ stPc = "drop" => InList
<1>3. Batch /\ Idle /\ Busy /\ Match /\ Mine /\ Walk
  BY <1>1 DEF Phases
<1>4. ASSUME Batch', Idle', Busy', Match', Mine', Walk' PROVE Phases'
  BY <1>4 DEF Phases
<1>5. Len(cells) > 0 => Len(cells) \in DOMAIN cells
  BY <1>1 DEF SharedTypes
<1>6. ASSUME batch' \subseteq batch PROVE Batch'
  BY <1>1, <1>3, <1>6, ClientsKept DEF EventTypes
<1>7. ASSUME UNCHANGED <<evPc, con, name>> PROVE Idle' /\ Busy' /\ Match'
  <2>1. Idle' /\ Match'
    BY <1>3, <1>7, MatchingKept
  <2>2. known \in Nat /\ known' \in Nat /\ known <= known'
    <3>1. SharedTypes'
      BY SharedKept
    <3>2. QED
      BY <1>1, <3>1, TasksKept, HttpAssumption DEF SharedTypes
  <2>3. Busy'
    BY <1>3, <1>7, <2>2, ClientsKept
  <2>4. QED
    BY <2>1, <2>3
<1>8. ASSUME UNCHANGED <<evPc, con, Len(cells)>> PROVE Mine'
  BY <1>3, <1>5, <1>8, TasksKept
<1>. HIDE DEF Batch, Idle, Busy, Match, Mine, Walk
<1>9. ASSUME UNCHANGED <<batch, evPc, con, name>>, AddTask \/ Len(cells') = Len(cells), ~AddTask, Walk'
      PROVE  Phases'
  BY <1>4, <1>6, <1>7, <1>8, <1>9
<1>10. ASSUME UNCHANGED stream PROVE Walk'
  <2>1. ~DropClient
    BY <1>10 DEF DropClient, stream
  <2>2. stPc = "drop" => InList'
    BY <1>3, <1>10, <2>1, LockedList DEF stream, Walk, InList
  <2>3. QED
    BY <1>3, <1>10, <2>2 DEF stream, Walk
<1>11. ASSUME UNCHANGED <<event, stream>> PROVE Phases'
  <2>1. ~AddTask
    BY <1>11 DEF AddTask, event
  <2>2. QED
    BY <1>9, <1>10, <1>11, <2>1, TasksKept DEF event
<1>12. ASSUME UNCHANGED event, Walk' PROVE Phases'
  <2>1. ~AddTask
    BY <1>12 DEF AddTask, event
  <2>2. QED
    BY <1>9, <1>12, <2>1, TasksKept DEF event
<1>13. ASSUME UNCHANGED stream, batch' \subseteq batch, evPc' \in {"wait", "dispatch"}, con' = Nobody
       PROVE  Phases'
  <2>1. Idle' /\ Busy' /\ Match' /\ Mine'
    BY <1>13 DEF Idle, Busy, Match, Mine
  <2>2. QED
    BY <1>4, <1>6, <1>10, <1>13, <2>1
<1>14. CASE \/ ChannelAdd \/ \E i \in DOMAIN Config : Feed(i)
            \/ \E c \in Clients : Connect(c) \/ Send(c) \/ Leave(c)
  BY <1>11, <1>14 DEF ChannelAdd, Feed, Connect, Send, Leave
<1>15. CASE PollEmpty
  BY <1>12, <1>15 DEF PollEmpty, Walk
<1>16. CASE PollGet
  BY <1>12, <1>16 DEF PollGet, Walk
<1>17. CASE Write \/ DropClient
  <2>1. /\ pos' = pos + 1 /\ pos \in Nat /\ UNCHANGED <<event, current>>
        /\ stPc' = "walk" /\ stPc \in {"walk", "drop"}
    BY <1>1, <1>17 DEF Write, DropClient, StreamTypes
  <2>2. Walk'
    BY <1>3, <2>1 DEF Walk
  <2>3. QED
    BY <1>12, <2>1, <2>2
<1>18. CASE WalkDone
  BY <1>12, <1>18 DEF WalkDone, Walk
<1>31. CASE WriteFails
  <2>1. UNCHANGED <<event, tasks, current, pos>> /\ stPc = "walk" /\ InList
    BY <1>31 DEF WriteFails
  <2>2. Walk'
    BY <1>3, <2>1 DEF Walk, InList
  <2>3. QED
    BY <1>12, <2>1, <2>2
<1>32. ASSUME Abort, batch' \subseteq batch PROVE Phases'
  <2>1. Idle' /\ Busy' /\ Match' /\ Mine' /\ Walk'
    BY <1>32 DEF Abort, Idle, Busy, Match, Mine, Walk
  <2>2. QED
    BY <1>4, <1>6, <1>32, <2>1
<1>33. CASE FreeAborts
  BY <1>32, <1>33 DEF FreeAborts
<1>19. CASE EventWait
  <2>1. Batch'
    <3>1. ASSUME NEW c \in batch', c # Listener
          PROVE  skt[c] \in Fds /\ link[c] = "open"
      <4>1. c \in Clients /\ c \in watched
        BY <1>19, <3>1 DEF EventWait, Ready
      <4>2. QED
        BY <1>1, <4>1 DEF Wired
    <3>2. skt' = skt /\ link' = link
      BY <1>19 DEF EventWait, kernel
    <3>3. QED
      BY <3>1, <3>2 DEF Batch
  <2>2. evPc' = "dispatch" /\ con' = Nobody /\ UNCHANGED stream
    BY <1>3, <1>19 DEF EventWait, Idle
  <2>3. Idle' /\ Busy' /\ Match' /\ Mine'
    BY <2>2 DEF Idle, Busy, Match, Mine
  <2>4. QED
    BY <1>4, <1>10, <2>1, <2>2, <2>3
<1>20. CASE BatchDone
  BY <1>3, <1>13, <1>20 DEF BatchDone, Idle
<1>21. CASE Accept
  <2>1. CASE Abort
    BY <1>21, <1>32, <2>1 DEF Accept
  <2>2. CASE ~Abort
    <3>1. /\ UNCHANGED <<stPc, current, chunk, pos, con, evPc>> /\ evPc = "dispatch"
          /\ batch' \subseteq batch
      BY <1>21, <2>2 DEF Accept
    <3>2. UNCHANGED stream /\ con' = Nobody
      BY <1>3, <3>1 DEF stream, Idle
    <3>3. QED
      BY <1>13, <3>1, <3>2
  <2>3. QED
    BY <2>1, <2>2
<1>22. ASSUME NEW c \in Clients, RecvEnd(c) \/ RecvAgain(c) PROVE Phases'
  BY <1>3, <1>13, <1>22 DEF RecvEnd, RecvAgain, CoreClose, Idle
<1>23. ASSUME NEW c \in Clients, RecvRead(c) PROVE Phases'
  <2>. DEFINE d == owner[skt[c]]
              n == Found(c, inbox[d])
  <2>1. /\ c \in batch /\ c # Listener /\ inbox[d] # "none" /\ d # Nobody
        /\ batch' = batch \ {c} /\ UNCHANGED <<stream, known, skt>> /\ evPc = "dispatch"
    BY <1>2, <1>23 DEF RecvRead
  <2>2. skt[c] \in Fds /\ link[c] \in {"open", "closed"}
    BY <1>3, <2>1 DEF Batch
  <2>3. inbox[d] \in Segments
    BY <1>1, <2>1, <2>2 DEF KernelTypes
  <2>4. n \in Names \cup {Nobody}
    BY <1>1, <2>3, HttpAssumption DEF Found, EventTypes, Segments
  <2>. HIDE DEF n
  <2>5. CASE ChannelFind(n) = 0
    <3>1. evPc' = "dispatch" /\ con' = con
      BY <1>23, <2>5 DEF RecvRead, CoreClose, n
    <3>2. con' = Nobody
      BY <1>3, <2>1, <3>1 DEF Idle
    <3>3. QED
      BY <1>13, <2>1, <3>1, <3>2
  <2>6. CASE ChannelFind(n) # 0
    <3>1. /\ con' = c /\ name' = n /\ evPc' = "task" /\ link' = link
          /\ asked' = [asked EXCEPT ![c] = @ \cup {n}]
      BY <1>23, <2>6 DEF RecvRead, n
    <3>2. n \in Names /\ known > 0
      BY <1>1, <2>4, <2>6, HttpAssumption DEF ChannelFind, SharedTypes
    <3>3. Busy'
      BY <1>1, <2>1, <2>2, <3>1, <3>2 DEF Busy, PastTypes
    <3>4. Idle' /\ Match' /\ Mine'
      BY <3>1 DEF Idle, Match, Mine
    <3>5. QED
      BY <1>4, <1>6, <1>10, <2>1, <3>3, <3>4
  <2>7. QED
    BY <2>5, <2>6
<1>24. ASSUME UNCHANGED <<con, name, asked, skt, link, known>>,
              {evPc, evPc'} \subseteq {"task", "client", "pad", "head"}
       PROVE  Idle' /\ Busy'
  BY <1>3, <1>24 DEF Idle, Busy
<1>25. CASE AddTask
  <2>1. /\ evPc = "task" /\ evPc' = "client"
        /\ UNCHANGED <<batch, con, name, asked, skt, link, known, stream>>
    BY <1>25 DEF AddTask, kernel, past
  <2>2. Idle' /\ Busy'
    BY <1>24, <2>1
  <2>3. Mine'
    <3>1. Len(cells') = Len(cells) + 1 /\ cells'[Len(cells')].by = con
      BY <1>25, TaskAdded
    <3>2. Len(cells) \in Nat
      BY <1>1 DEF SharedTypes
    <3>3. QED
      BY <2>1, <3>1, <3>2 DEF Mine
  <2>4. Match'
    <3>1. CASE Matching(name) # {}
      BY <2>1, <3>1, MatchingKept DEF Match
    <3>2. CASE Matching(name) = {}
      <4>. DEFINE t == Len(tasks) + 1
      <4>1. t \in DOMAIN tasks' /\ tasks'[t].name = name
        BY <1>25, <3>2, TaskAdded
      <4>2. Starts(name, name)
        BY <1>3, <2>1, HttpAssumption DEF Busy
      <4>3. t \in Matching(name)'
        BY <2>1, <4>1, <4>2 DEF Matching
      <4>4. QED
        BY <4>3 DEF Match
    <3>3. QED
      BY <3>1, <3>2
  <2>5. QED
    BY <1>4, <1>6, <1>10, <2>1, <2>2, <2>3, <2>4
<1>26. CASE AddClient
  <2>1. /\ evPc = "client" /\ evPc' \in {"client", "pad"}
        /\ UNCHANGED <<batch, con, name, asked, skt, link, known, stream, cells>>
    BY <1>26 DEF AddClient, kernel, past
  <2>2. Idle' /\ Busy'
    BY <1>24, <2>1
  <2>3. Match'
    BY <1>3, <2>1, MatchingKept DEF Match
  <2>4. Mine'
    BY <1>3, <2>1 DEF Mine
  <2>5. QED
    BY <1>4, <1>6, <1>10, <2>1, <2>2, <2>3, <2>4
<1>27. CASE AddOutput
  <2>1. /\ evPc = "pad" /\ evPc' \in {"head", "aborted"}
        /\ UNCHANGED <<batch, con, name, asked, skt, link, known, tasks, current, pos>>
        /\ stPc' \in {stPc, "aborted"}
    BY <1>27 DEF AddOutput, Abort, kernel, past
  <2>2. Idle' /\ Mine'
    BY <2>1 DEF Idle, Mine
  <2>3. Busy' /\ Match'
    BY <1>3, <2>1 DEF Busy, Match, Matching
  <2>4. Walk'
    BY <1>3, <2>1 DEF Walk, InList
  <2>5. QED
    BY <1>4, <1>6, <2>1, <2>2, <2>3, <2>4
<1>28. CASE SendHead
  BY <1>13, <1>28 DEF SendHead
<1>29. CASE UNCHANGED vars
  BY <1>11, <1>29 DEF vars
<1>30. QED
  BY <1>14, <1>15, <1>16, <1>17, <1>18, <1>19, <1>20, <1>21, <1>22, <1>23, <1>25, <1>26,
     <1>27, <1>28, <1>29, <1>31, <1>33
     DEF Next, Environment, EventStep, StreamStep

LEMMA TypesKept == TypeInv /\ [Next]_vars => TypeInv'
  BY KernelKept, EventKept, SharedKept, StreamKept, PastKept, PhasesKept, WiredKept
     DEF TypeInv, TypeOK

\* The types, the phases and the wiring always hold together.
THEOREM TypesHold == Spec => []TypeInv
<1>1. Init => TypeInv
  BY TypesInit
<1>2. TypeInv /\ [Next]_vars => TypeInv'
  BY TypesKept
<1>3. QED
  BY <1>1, <1>2, PTL DEF Spec

\* The variables keep their types: no descriptor number, cell, task or place
\* in a list that either thread uses was ever out of range.
THEOREM TypeCorrect == Spec => []TypeOK
<1>1. TypeInv => TypeOK
  BY DEF TypeInv
<1>2. QED
  BY <1>1, TypesHold, PTL

\* Whatever descriptors the two threads close and the kernel gives out again,
\* a connection that is open is watched, and one that is not is not.
THEOREM Watched == Spec => []OpenIsWatched
<1>1. TypeInv => OpenIsWatched
  BY DEF TypeInv, Wired, OpenIsWatched
<1>2. QED
  BY <1>1, TypesHold, PTL

----------------------------------------------------------------------------
(* Who is closed, and why.                                                 *)

\* A cell has the descriptor of a client that was accepted.
Booked ==
    \A k \in DOMAIN cells : link[cells[k].by] \in {"open", "closed"}
                           /\ cells[k].fd = skt[cells[k].by]

\* The client of a cell that was freed is closed, and the one whose cell is
\* about to be freed has left or is closed.
DeadClosed == \A k \in DOMAIN cells : cells[k].live \/ link[cells[k].by] = "closed"
Dropping   == stPc = "drop" =>
                 cells[Cell].by \in eof \/ link[cells[Cell].by] = "closed"

Innocent == Booked /\ (misled \/ (DeadClosed /\ Dropping)) /\ NoInnocentClosed

LEMMA CellsClients ==
    ASSUME TypeInv
    PROVE  \A k \in DOMAIN cells : /\ cells[k].by \in Clients /\ cells[k].fd \in Fds
                                  /\ cells[k].live \in BOOLEAN
<1>1. \A k \in DOMAIN cells : cells[k] \in Cells
  BY DEF TypeInv, TypeOK, SharedTypes
<1>2. QED
  BY <1>1 DEF Cells

\* What happens to the cells.
LEMMA CellsKept ==
    ASSUME TypeInv, [Next]_vars
    PROVE  UNCHANGED cells \/ AddTask \/ DropClient
<1>1. CASE \/ ChannelAdd \/ \E c \in Clients : Connect(c) \/ Send(c) \/ Leave(c)
           \/ \E i \in DOMAIN Config : Feed(i)
           \/ EventWait \/ BatchDone \/ Accept \/ AddClient \/ AddOutput \/ SendHead
           \/ \E c \in Clients : RecvEnd(c) \/ RecvAgain(c) \/ RecvRead(c)
  BY <1>1 DEF ChannelAdd, Connect, Send, Leave, Feed, EventWait, BatchDone, Accept, AddClient,
              AddOutput, SendHead, RecvEnd, RecvAgain, RecvRead
<1>2. CASE PollEmpty \/ PollGet \/ Write \/ WriteFails \/ FreeAborts \/ WalkDone
  BY <1>2 DEF PollEmpty, PollGet, Write, WriteFails, FreeAborts, WalkDone
<1>3. CASE UNCHANGED vars
  BY <1>3 DEF vars
<1>4. QED
  BY <1>1, <1>2, <1>3 DEF Next, Environment, EventStep, StreamStep

LEMMA BookedKept == TypeInv /\ Booked /\ [Next]_vars => Booked'
<1>. SUFFICES ASSUME TypeInv, Booked, [Next]_vars, NEW k \in DOMAIN cells'
              PROVE  link'[cells'[k].by] \in {"open", "closed"}
                     /\ cells'[k].fd = skt'[cells'[k].by]
  BY DEF Booked
<1>1. ASSUME k \in DOMAIN cells, cells'[k].by = cells[k].by, cells'[k].fd = cells[k].fd
      PROVE  link'[cells'[k].by] \in {"open", "closed"}
             /\ cells'[k].fd = skt'[cells'[k].by]
  <2>. DEFINE c == cells[k].by
  <2>1. c \in Clients /\ link[c] \in {"open", "closed"} /\ cells[k].fd = skt[c]
    BY <1>1, CellsClients DEF Booked
  <2>2. link'[c] \in {"open", "closed"} /\ skt'[c] = skt[c]
    BY <2>1, ClientsKept
  <2>3. QED
    BY <1>1, <2>1, <2>2
<1>2. CASE UNCHANGED cells
  BY <1>1, <1>2
<1>3. CASE DropClient
  BY <1>1, <1>3, ClientRemoved
<1>4. CASE AddTask
  <2>1. CASE k \in DOMAIN cells
    BY <1>1, <1>4, <2>1, TaskAdded
  <2>2. CASE k \notin DOMAIN cells
    <3>1. cells'[k].by = con /\ cells'[k].fd = skt[con]
      BY <1>4, <2>2, TaskAdded
    <3>2. link[con] \in {"open", "closed"} /\ UNCHANGED <<link, skt>>
      BY <1>4 DEF TypeInv, Phases, AddTask, kernel
    <3>3. QED
      BY <3>1, <3>2
  <2>3. QED
    BY <2>1, <2>2
<1>5. QED
  BY <1>2, <1>3, <1>4, CellsKept

\* Freeing a cell closes its client.
LEMMA DeadClosedKept ==
    ASSUME TypeInv, Booked, DeadClosed, [Next]_vars, ~misled'
    PROVE  DeadClosed'
<1>. SUFFICES ASSUME NEW k \in DOMAIN cells', ~cells'[k].live
              PROVE  link'[cells'[k].by] = "closed"
  BY CellsClients, TypesKept DEF DeadClosed
<1>1. ASSUME k \in DOMAIN cells, cells'[k].by = cells[k].by, ~cells[k].live
      PROVE  link'[cells'[k].by] = "closed"
  <2>1. link[cells[k].by] = "closed" /\ cells[k].by \in Clients
    BY <1>1, CellsClients DEF DeadClosed
  <2>2. QED
    BY <1>1, <2>1, ClientsKept
<1>2. CASE UNCHANGED cells
  BY <1>1, <1>2
<1>3. CASE AddTask
  BY <1>1, <1>3, TaskAdded
<1>4. CASE DropClient
  <2>1. PICK f \in CellFds, j \in DOMAIN cells :
            /\ f \in Fds /\ CloseFailed(f, j)
            /\ \A i \in DOMAIN cells : i # j => cells'[i] = cells[i]
    BY <1>4, ClientRemoved
  <2>2. /\ k \in DOMAIN cells /\ cells'[k].by = cells[k].by
        /\ Cell \in DOMAIN cells
    BY <1>4, ClientRemoved
  <2>3. j = Cell /\ owner[f] \in {cells[Cell].by, Nobody} /\ Close(f)
    BY <2>1 DEF CloseFailed
  <2>4. CASE ~cells[k].live
    BY <1>1, <2>2, <2>4
  <2>5. CASE cells[k].live
    <3>. DEFINE c == cells[k].by
    <3>1. k = Cell
      BY <2>1, <2>2, <2>3, <2>5
    <3>2. f = skt[c] /\ c \in Clients /\ link[c] \in {"open", "closed"}
      BY <2>1, <2>2, <2>5, <3>1, CellsClients DEF CellFds, Booked
    <3>3. CASE link[c] = "closed"
      BY <2>2, <3>2, <3>3, ClientsKept
    <3>4. CASE link[c] = "open"
      <4>1. owner[f] = c /\ c # Nobody
        BY <3>2, <3>4, HttpAssumption DEF TypeInv, Wired
      <4>2. QED
        BY <2>1, <2>2, <2>3, <4>1, Closed
    <3>5. QED
      BY <3>2, <3>3, <3>4
  <2>6. QED
    BY <2>4, <2>5
<1>5. QED
  BY <1>2, <1>3, <1>4, CellsKept

\* A write fails only when the client has left, or its descriptor is closed.
LEMMA DroppingKept ==
    ASSUME TypeInv, Booked, DeadClosed, Dropping, [Next]_vars
    PROVE  Dropping'
<1>. SUFFICES ASSUME stPc' = "drop"
              PROVE  Cell' \in DOMAIN cells /\ cells'[Cell'].by = cells[Cell'].by /\
                     (cells[Cell'].by \in eof' \/ link'[cells[Cell'].by] = "closed")
  BY DEF Dropping
<1>1. ASSUME stPc = "drop" \/ WriteFails
      PROVE  Cell' = Cell /\ Cell \in DOMAIN cells /\ cells'[Cell].by = cells[Cell].by
  <2>1. ~DropClient /\ stPc \in {"walk", "drop"} /\ InList
    BY <1>1 DEF DropClient, WriteFails, TypeInv, Phases
  <2>2. tasks'[current].clients = tasks[current].clients
    BY <2>1, LockedList
  <2>3. current' = current /\ pos' = pos
    <3>1. CASE WriteFails
      BY <3>1 DEF WriteFails
    <3>2. CASE ~WriteFails
      BY <1>1, <3>2, DropStays DEF stream
    <3>3. QED
      BY <3>1, <3>2
  <2>4. Cell \in DOMAIN cells
    BY <2>1, CellFound
  <2>5. QED
    BY <2>2, <2>3, <2>4, TasksKept DEF Cell
<1>2. CASE stPc = "drop"
  <2>1. cells[Cell].by \in eof \/ link[cells[Cell].by] = "closed"
    BY <1>2 DEF Dropping
  <2>2. cells[Cell].by \in Clients
    BY <1>1, <1>2, CellsClients
  <2>3. cells[Cell].by \in eof' \/ link'[cells[Cell].by] = "closed"
    BY <2>1, <2>2, ClientsKept
  <2>4. QED
    BY <1>1, <1>2, <2>3
<1>3. CASE WriteFails
  <2>. DEFINE c == cells[Cell].by
  <2>1. c \in Clients /\ link[c] \in {"open", "closed"} /\ cells[Cell].fd = skt[c]
    BY <1>1, <1>3, CellsClients DEF Booked
  <2>2. c \in eof \/ link[c] = "closed"
    <3>1. CASE ~cells[Cell].live
      BY <1>1, <1>3, <3>1 DEF DeadClosed
    <3>2. CASE cells[Cell].live /\ link[c] = "open"
      <4>1. PICK f \in CellFds : owner[f] = Nobody \/ owner[f] \in eof
        BY <1>3 DEF WriteFails
      <4>2. f = skt[c]
        BY <2>1, <3>2, <4>1 DEF CellFds
      <4>3. owner[f] = c /\ c # Nobody
        BY <2>1, <3>2, <4>2, HttpAssumption DEF TypeInv, Wired
      <4>4. QED
        BY <4>1, <4>3
    <3>3. QED
      BY <2>1, <3>1, <3>2
  <2>3. UNCHANGED <<eof, link>>
    BY <1>3 DEF WriteFails, kernel
  <2>4. QED
    BY <1>1, <1>3, <2>2, <2>3
<1>4. QED
  BY <1>2, <1>3, DropStays

\* A step closes a client that stays only in answer to its own request, or
\* because a stale event or cell led to it.
LEMMA ClosedKept == TypeInv /\ Innocent /\ [Next]_vars => NoInnocentClosed'
<1>. SUFFICES ASSUME TypeInv, Innocent, [Next]_vars, ~misled'
              PROVE  \A c \in Clients : link'[c] = "closed" => c \in eof' \/ c \in done'
  BY DEF NoInnocentClosed
<1>1. KernelTypes /\ Phases /\ Nobody \notin Clients /\ Listener \notin Clients
  BY HttpAssumption DEF TypeInv, TypeOK
<1>2. ~misled /\ eof \subseteq eof' /\ done \subseteq done'
  BY ClientsKept
<1>3. \A c \in Clients : link[c] = "closed" => c \in eof \/ c \in done
  BY <1>2 DEF Innocent, NoInnocentClosed
<1>4. ASSUME \A c \in Clients : link'[c] = "closed" => link[c] = "closed"
      PROVE  \A c \in Clients : link'[c] = "closed" => c \in eof' \/ c \in done'
  BY <1>2, <1>3, <1>4
<1>5. ASSUME NEW c \in Clients, RecvEnd(c) \/ RecvRead(c)
      PROVE  \A e \in Clients : link'[e] = "closed" => e \in eof' \/ e \in done'
  <2>1. skt[c] \in Fds
    BY <1>1, <1>5 DEF RecvEnd, RecvRead, Phases
  <2>2. CASE UNCHANGED link
    BY <1>2, <1>3, <2>2
  <2>3. CASE CoreClose(c)
    <3>1. Close(skt[c]) /\ c \in done' /\ owner[skt[c]] \in {c, Nobody}
      BY <2>3 DEF CoreClose
    <3>2. \A e \in Clients : e # c => link'[e] = link[e]
      BY <1>1, <2>1, <3>1, Closed
    <3>3. QED
      BY <1>2, <1>3, <3>1, <3>2
  <2>4. QED
    BY <1>5, <2>2, <2>3 DEF RecvEnd, RecvRead
<1>6. CASE DropClient
  <2>1. PICK f \in CellFds, k \in DOMAIN cells : f \in Fds /\ CloseFailed(f, k)
    BY <1>6, ClientRemoved
  <2>2. Close(f) /\ owner[f] \in {cells[Cell].by, Nobody}
    BY <2>1 DEF CloseFailed
  <2>3. \A e \in Clients : e # owner[f] => link'[e] = link[e]
    BY <2>1, <2>2, Closed
  <2>4. cells[Cell].by \in eof \/ link[cells[Cell].by] = "closed"
    BY <1>2, <1>6 DEF Innocent, Dropping, DropClient
  <2>5. QED
    BY <1>1, <1>2, <1>3, <2>2, <2>3, <2>4
<1>7. CASE Accept \/ \E c \in Clients : Connect(c) \/ Send(c) \/ Leave(c)
  <2>1. link' = link \/ \E c \in Clients, l \in {"open", "knocking"} : link' = [link EXCEPT ![c] = l]
    BY <1>7 DEF Accept, Connect, Send, Leave
  <2>2. QED
    BY <1>1, <1>4, <2>1 DEF KernelTypes
<1>8. CASE \/ EventWait \/ BatchDone \/ AddTask \/ AddClient \/ AddOutput \/ SendHead
           \/ ChannelAdd \/ \E i \in DOMAIN Config : Feed(i)
  BY <1>4, <1>8
     DEF EventWait, BatchDone, AddTask, AddClient, AddOutput, SendHead, ChannelAdd, Feed, kernel
<1>9. CASE \/ PollEmpty \/ PollGet \/ Write \/ WriteFails \/ FreeAborts \/ WalkDone
           \/ \E c \in Clients : RecvAgain(c)
  BY <1>4, <1>9 DEF PollEmpty, PollGet, Write, WriteFails, FreeAborts, WalkDone, RecvAgain, kernel
<1>10. CASE UNCHANGED vars
  BY <1>4, <1>10 DEF vars, kernel
<1>11. QED
  BY <1>5, <1>6, <1>7, <1>8, <1>9, <1>10
     DEF Next, Environment, EventStep, StreamStep

\* The two threads close descriptors that the kernel gives out again at once;
\* as long as no stale event or cell was used, no client that stays is closed
\* but by the answer to its own request. The streamer closes a descriptor some
\* time after it failed to write to it, so what holds of the client whose cell
\* is about to be freed has to be known as well.
THEOREM InnocentStay == Spec => []NoInnocentClosed
<1>1. Init => Innocent
  BY DEF Init, Innocent, Booked, DeadClosed, Dropping, NoInnocentClosed
<1>2. TypeInv /\ Innocent /\ [Next]_vars => Innocent'
  <2>. SUFFICES ASSUME TypeInv, Innocent, [Next]_vars PROVE Innocent'
    OBVIOUS
  <2>1. Booked' /\ NoInnocentClosed'
    BY BookedKept, ClosedKept DEF Innocent
  <2>2. ASSUME ~misled' PROVE DeadClosed' /\ Dropping'
    <3>1. ~misled
      BY <2>2, ClientsKept
    <3>2. QED
      BY <2>2, <3>1, DeadClosedKept, DroppingKept DEF Innocent
  <2>3. QED
    BY <2>1, <2>2 DEF Innocent
<1>3. Innocent => NoInnocentClosed
  BY DEF Innocent
<1>4. QED
  BY <1>1, <1>2, <1>3, TypesHold, PTL DEF Spec

\* Another cell than k is the client's.
Others(c, k) == \E j \in DOMAIN cells \ {k} : cells[j].by = c

\* Each cell, listed or not, is of a client that is open, or was closed by the
\* event thread, or by the streamer through this cell or another one.
Excuse(k) ==
    LET c == cells[k].by IN
    \/ link[c] = "open" \/ c \in done
    \/ c \in failed /\ (~cells[k].live \/ Others(c, k))

Coming == \/ link[con] = "open" \/ con \in done
          \/ con \in failed /\ \E j \in DOMAIN cells : cells[j].by = con

Excused == misled \/ ((\A k \in DOMAIN cells : Excuse(k)) /\ (evPc = "task" => Coming))

\* Closing the client of a cell excuses all its cells.
LEMMA ExcusedKept == TypeInv /\ Excused /\ [Next]_vars => Excused'
<1>. SUFFICES ASSUME TypeInv, Excused, [Next]_vars, ~misled'
              PROVE  (\A k \in DOMAIN cells' : Excuse(k)') /\ (evPc' = "task" => Coming')
  BY DEF Excused
<1>. DEFINE Goal == (\A k \in DOMAIN cells' : Excuse(k)') /\ (evPc' = "task" => Coming')
<1>1. KernelTypes /\ SharedTypes /\ Phases /\ Nobody \notin Clients /\ Listener \notin Clients
  BY HttpAssumption DEF TypeInv, TypeOK
<1>2. ~misled /\ done \subseteq done' /\ failed \subseteq failed'
  BY ClientsKept
<1>3. (\A k \in DOMAIN cells : Excuse(k)) /\ (evPc = "task" => Coming)
  BY <1>2 DEF Excused
<1>4. \A k \in DOMAIN cells : cells[k].by \in Clients
  <2>1. \A k \in DOMAIN cells : cells[k] \in Cells
    BY <1>1 DEF SharedTypes
  <2>2. QED
    BY <2>1 DEF Cells
<1>5. evPc = "task" => con \in Clients
  BY <1>1 DEF Phases
<1>6. ASSUME UNCHANGED cells, evPc' = "task" => evPc = "task" /\ con' = con,
             \A c \in Clients : link[c] = "open" => link'[c] = "open" \/ c \in done'
      PROVE  Goal
  <2>1. ASSUME NEW k \in DOMAIN cells' PROVE Excuse(k)'
    <3>1. Excuse(k) /\ cells[k].by \in Clients
      BY <1>3, <1>4, <1>6, <2>1
    <3>2. QED
      BY <1>2, <1>6, <3>1 DEF Excuse, Others
  <2>2. ASSUME evPc' = "task" PROVE Coming'
    <3>1. Coming /\ con \in Clients /\ con' = con
      BY <1>3, <1>5, <1>6, <2>2
    <3>2. QED
      BY <1>2, <1>6, <3>1 DEF Coming
  <2>3. QED
    BY <2>1, <2>2
<1>7. ASSUME UNCHANGED <<cells, evPc, con, link>> PROVE Goal
  BY <1>6, <1>7
<1>. HIDE DEF Goal
<1>8. ASSUME NEW c \in Clients, RecvEnd(c) \/ RecvRead(c) PROVE Goal
  <2>1. skt[c] \in Fds /\ UNCHANGED cells /\ evPc = "dispatch"
    BY <1>1, <1>8 DEF RecvEnd, RecvRead, Phases
  <2>2. CASE CoreClose(c)
    <3>1. /\ Close(skt[c]) /\ c \in done' /\ owner[skt[c]] \in {c, Nobody} /\ evPc' = "dispatch"
      BY <2>2 DEF CoreClose
    <3>2. \A e \in Clients : e # c => link'[e] = link[e]
      BY <1>1, <2>1, <3>1, Closed
    <3>3. QED
      BY <1>6, <2>1, <3>1, <3>2
  <2>3. CASE ~CoreClose(c)
    <3>1. RecvRead(c) /\ ~(ChannelFind(Found(c, inbox[owner[skt[c]]])) = 0)
      BY <1>8, <2>3 DEF RecvEnd, RecvRead
    <3>2. /\ con' = c /\ misled' = (misled \/ c # owner[skt[c]])
          /\ UNCHANGED <<link, owner, watched, done>>
      BY <3>1 DEF RecvRead
    <3>3. owner[skt[c]] = c /\ c \in watched /\ link[c] = "open"
      <4>1. Wired /\ owner[skt[c]] = c /\ c # Nobody
        BY <1>1, <3>2 DEF TypeInv
      <4>2. QED
        BY <2>1, <4>1 DEF Wired
    <3>4. Coming'
      BY <3>2, <3>3 DEF Coming
    <3>5. \A k \in DOMAIN cells' : Excuse(k)'
      BY <1>2, <1>3, <2>1, <3>2 DEF Excuse, Others
    <3>6. QED
      BY <3>4, <3>5 DEF Goal
  <2>4. QED
    BY <2>2, <2>3
<1>9. CASE AddTask
  <2>1. /\ DOMAIN cells' = DOMAIN cells \cup {Len(cells')} /\ Len(cells') \notin DOMAIN cells
        /\ \A k \in DOMAIN cells : cells'[k] = cells[k]
        /\ cells'[Len(cells')].by = con
    BY <1>9, TaskAdded
  <2>2. evPc = "task" /\ evPc' = "client" /\ UNCHANGED <<link, done, failed>>
    BY <1>9 DEF AddTask, kernel, past
  <2>3. ASSUME NEW k \in DOMAIN cells PROVE Excuse(k)'
    <3>1. Excuse(k) /\ cells'[k] = cells[k]
      BY <1>3, <2>1, <2>3
    <3>2. Others(cells[k].by, k) => Others(cells[k].by, k)'
      BY <2>1 DEF Others
    <3>3. QED
      BY <2>2, <3>1, <3>2 DEF Excuse
  <2>4. ASSUME NEW n \in DOMAIN cells', n \notin DOMAIN cells PROVE Excuse(n)'
    <3>1. Coming
      BY <1>3, <2>2
    <3>2. \A j \in DOMAIN cells : j \in DOMAIN cells' \ {n} /\ cells'[j] = cells[j]
      BY <2>1, <2>4
    <3>3. cells'[n].by = con
      BY <2>1, <2>4
    <3>4. (link'[con] = "open" \/ con \in done') \/
          (con \in failed' /\ \E j \in DOMAIN cells' \ {n} : cells'[j].by = con)
      BY <2>2, <3>1, <3>2 DEF Coming
    <3>5. QED
      BY <3>3, <3>4 DEF Excuse, Others
  <2>5. QED
    BY <2>2, <2>3, <2>4 DEF Goal
<1>10. CASE DropClient
  <2>0. PICK f \in CellFds, d \in DOMAIN cells :
            /\ f \in Fds /\ CloseFailed(f, d)
            /\ \A k \in DOMAIN cells : k # d => cells'[k] = cells[k]
    BY <1>10, ClientRemoved
  <2>1. /\ Close(f) /\ owner[f] \in {cells[Cell].by, Nobody} /\ d = Cell
        /\ failed' = IF owner[f] = Nobody THEN failed ELSE failed \cup {owner[f]}
    BY <2>0 DEF CloseFailed
  <2>2. f \in Fds /\ UNCHANGED <<evPc, con, done>>
    BY <1>10, <2>0 DEF DropClient, event
  <2>3. /\ DOMAIN cells' = DOMAIN cells /\ Cell \in DOMAIN cells
        /\ \A k \in DOMAIN cells : cells'[k].by = cells[k].by
        /\ \A k \in DOMAIN cells : k # Cell => cells'[k] = cells[k]
        /\ ~cells'[Cell].live
    BY <1>10, <2>0, <2>1, ClientRemoved
  <2>4. \A c \in Clients : link'[c] # link[c] => c = cells[Cell].by /\ c \in failed'
    <3>. SUFFICES ASSUME NEW c \in Clients, link'[c] # link[c]
                  PROVE  c = cells[Cell].by /\ c \in failed'
      OBVIOUS
    <3>1. c = owner[f] /\ c # Nobody
      BY <1>1, <2>1, <2>2, Closed
    <3>2. QED
      BY <2>1, <3>1
  <2>5. ASSUME NEW k \in DOMAIN cells PROVE Excuse(k)'
    <3>1. /\ Excuse(k) /\ cells[k].by \in Clients /\ cells'[k].by = cells[k].by
          /\ ~cells[k].live => ~cells'[k].live
      BY <1>3, <1>4, <2>3
    <3>2. Others(cells[k].by, k) => Others(cells[k].by, k)'
      BY <2>3 DEF Others
    <3>3. CASE link'[cells[k].by] = link[cells[k].by]
      BY <1>2, <3>1, <3>2, <3>3 DEF Excuse
    <3>4. CASE cells[k].by = cells[Cell].by /\ cells[k].by \in failed'
      <4>1. k = Cell \/ Others(cells[k].by, k)'
        BY <2>3, <3>4 DEF Others
      <4>2. QED
        BY <2>3, <3>1, <3>4, <4>1 DEF Excuse
    <3>5. QED
      BY <2>4, <3>1, <3>3, <3>4
  <2>6. ASSUME evPc' = "task" PROVE Coming'
    <3>1. Coming /\ con \in Clients /\ con' = con
      BY <1>3, <1>5, <2>2, <2>6
    <3>2. CASE link'[con] = link[con]
      BY <1>2, <2>3, <3>1, <3>2 DEF Coming
    <3>3. CASE con = cells[Cell].by /\ con \in failed'
      BY <2>3, <3>1, <3>3 DEF Coming
    <3>4. QED
      BY <2>4, <3>1, <3>2, <3>3
  <2>7. QED
    BY <2>3, <2>5, <2>6 DEF Goal
<1>11. CASE Accept \/ \E c \in Clients : Connect(c) \/ Send(c) \/ Leave(c)
  <2>1. UNCHANGED <<cells, con>> /\ (evPc' = "task" => evPc = "task")
    BY <1>11 DEF Accept, Abort, Connect, Send, Leave, event
  <2>2. \/ link' = link
        \/ \E c \in Clients : link[c] # "open" /\ \E l : link' = [link EXCEPT ![c] = l]
    BY <1>11 DEF Accept, Connect, Send, Leave
  <2>3. \A c \in Clients : link[c] = "open" => link'[c] = "open"
    BY <1>1, <2>2 DEF KernelTypes
  <2>4. QED
    BY <1>6, <2>1, <2>3 DEF Goal
<1>12. CASE EventWait \/ BatchDone \/ AddClient \/ AddOutput \/ SendHead
  <2>1. UNCHANGED <<cells, link>> /\ evPc' # "task"
    BY <1>12 DEF EventWait, BatchDone, AddClient, AddOutput, Abort, SendHead, kernel
  <2>2. QED
    BY <1>6, <2>1 DEF Goal
<1>13. CASE \/ ChannelAdd \/ \E i \in DOMAIN Config : Feed(i)
            \/ PollEmpty \/ PollGet \/ Write \/ WriteFails \/ WalkDone
            \/ \E c \in Clients : RecvAgain(c)
  BY <1>7, <1>13
     DEF ChannelAdd, Feed, PollEmpty, PollGet, Write, WriteFails, WalkDone, RecvAgain, kernel,
         event, Goal
<1>16. CASE FreeAborts
  BY <1>6, <1>16 DEF FreeAborts, Abort, kernel, Goal
<1>14. CASE UNCHANGED vars
  BY <1>7, <1>14 DEF vars, kernel, event, Goal
<1>15. QED
  BY <1>8, <1>9, <1>10, <1>11, <1>12, <1>13, <1>14, <1>16
     DEF Next, Environment, EventStep, StreamStep, Goal

\* A list holds the descriptor of a closed client only if the event thread
\* closed it, or the streamer by this cell or another one of the client.
THEOREM StaleExcused == Spec => []StaleCells
<1>1. Init => Excused
  BY DEF Init, Excused
<1>2. TypeInv /\ Excused /\ [Next]_vars => Excused'
  BY ExcusedKept
<1>3. TypeInv /\ Excused => StaleCells
  <2>. SUFFICES ASSUME TypeInv, Excused, ~misled,
                       NEW t \in DOMAIN tasks, NEW k \in Listed(t)
                PROVE  LET c == cells[k].by IN
                       \/ link[c] = "open" \/ c \in done
                       \/ /\ c \in failed
                          /\ ~cells[k].live \/ \E j \in DOMAIN cells \ {k} : cells[j].by = c
    BY DEF StaleCells
  <2>1. k \in DOMAIN cells
    BY DEF TypeInv, TypeOK, SharedTypes
  <2>2. Excuse(k)
    BY <2>1 DEF Excused
  <2>3. QED
    BY <2>2 DEF Excuse, Others
<1>4. QED
  BY <1>1, <1>2, <1>3, TypesHold, PTL DEF Spec

----------------------------------------------------------------------------
(* Cells in two lists.                                                     *)

\* An earlier cell than k was in two lists and is freed: it may have been freed
\* again when its memory was that of k.
Recycled(k) == \E j \in 1..k-1 : ~cells[j].live /\ \E u \in DOMAIN tasks : Shared(j, u)

\* The cell k is in lists of the tasks that match n only, and has left one of
\* them if it is freed, or was freed for an earlier one.
Wanted(k, n) ==
    /\ \A t \in DOMAIN tasks : k \in Listed(t) => t \in Matching(n)
    /\ ~cells[k].live => Recycled(k) \/ \E t \in Matching(n) : k \notin Listed(t)

\* The cell that the event thread is adding is in no list from index on.
Adding(k) ==
    /\ \A t \in DOMAIN tasks : k \in Listed(t) => t \in Matching(name) /\ t < index
    /\ ~cells[k].live => Recycled(k) \/ \E t \in Matching(name) : t < index /\ k \notin Listed(t)

Sharing ==
    /\ \A t \in DOMAIN tasks : NoDuplicate(tasks[t].clients)
    /\ \A k \in DOMAIN cells : \E n \in asked[cells[k].by] : Wanted(k, n)
    /\ evPc = "client" => Adding(Len(cells))

LEMMA DeadStays ==
    ASSUME TypeInv, [Next]_vars, NEW j \in DOMAIN cells, ~cells[j].live
    PROVE  ~cells'[j].live
<1>1. CASE UNCHANGED cells
  BY <1>1
<1>2. CASE AddTask
  BY <1>2, TaskAdded
<1>3. CASE DropClient
  <2>1. PICK k \in DOMAIN cells :
            ~cells'[k].live /\ \A i \in DOMAIN cells : i # k => cells'[i] = cells[i]
    BY <1>3, ClientRemoved
  <2>2. QED
    BY <2>1
<1>4. QED
  BY <1>1, <1>2, <1>3, CellsKept

\* A cell that was freed stays so, and is not unshared.
LEMMA RecycledKept ==
    ASSUME TypeInv, [Next]_vars, NEW k \in DOMAIN cells, Recycled(k)
    PROVE  Recycled(k)'
<1>1. PICK j \in 1..k-1 : ~cells[j].live /\ \E u \in DOMAIN tasks : Shared(j, u)
  BY DEF Recycled
<1>2. PICK u \in DOMAIN tasks : Shared(j, u)
  BY <1>1
<1>3. j \in DOMAIN cells
  <2>1. DOMAIN cells = 1..Len(cells) /\ Len(cells) \in Nat
    BY DEF TypeInv, TypeOK, SharedTypes
  <2>2. QED
    BY <1>1, <2>1
<1>4. ~cells'[j].live
  BY <1>1, <1>3, DeadStays
<1>5. cells'[j].by = cells[j].by /\ cells[j].by \in Clients /\ u \in DOMAIN tasks'
  BY <1>2, <1>3, TasksKept, CellsClients
<1>6. PICK n \in asked[cells[j].by] : u \in Matching(n) /\ Matching(n) \ {u} # {}
  BY <1>2 DEF Shared
<1>7. n \in asked'[cells'[j].by] /\ u \in Matching(n)' /\ Matching(n)' \ {u} # {}
  BY <1>5, <1>6, ClientsKept, MatchingKept
<1>8. Shared(j, u)'
  BY <1>7 DEF Shared
<1>9. QED
  BY <1>4, <1>5, <1>8 DEF Recycled

\* What is wanted stays so while lists lose nothing, or only a freed cell.
LEMMA WantedKept ==
    ASSUME TypeInv, [Next]_vars, NEW k \in DOMAIN cells, NEW n, Wanted(k, n),
           \A t \in DOMAIN tasks : k \in Listed(t)' <=> k \in Listed(t),
           \A t \in DOMAIN tasks' : t \notin DOMAIN tasks => k \notin Listed(t)',
           cells'[k].live = cells[k].live
    PROVE  Wanted(k, n)'
<1>1. DOMAIN tasks \subseteq DOMAIN tasks' /\ Matching(n) \subseteq Matching(n)'
  BY TasksKept, MatchingKept
<1>2. Matching(n) \subseteq DOMAIN tasks
  BY DEF Matching
<1>3. ASSUME NEW t \in DOMAIN tasks', k \in Listed(t)' PROVE t \in Matching(n)'
  BY <1>1, <1>3 DEF Wanted
<1>4. ASSUME ~cells'[k].live, ~Recycled(k)'
      PROVE  \E t \in Matching(n)' : k \notin Listed(t)'
  <2>1. ~Recycled(k) /\ ~cells[k].live
    BY <1>4, RecycledKept
  <2>2. QED
    BY <1>1, <1>2, <2>1 DEF Wanted
<1>5. QED
  BY <1>3, <1>4 DEF Wanted

LEMMA SharingKept == TypeInv /\ Sharing /\ [Next]_vars => Sharing'
<1>. SUFFICES ASSUME TypeInv, Sharing, [Next]_vars PROVE Sharing'
  OBVIOUS
<1>. DEFINE Apart == \A t \in DOMAIN tasks : NoDuplicate(tasks[t].clients)
            Named == \A k \in DOMAIN cells : \E n \in asked[cells[k].by] : Wanted(k, n)
<1>1. SharedTypes /\ EventTypes /\ PastTypes /\ Phases
  BY DEF TypeInv, TypeOK
<1>2. Apart /\ Named /\ (evPc = "client" => Adding(Len(cells)))
  BY DEF Sharing
<1>3. ASSUME Apart', Named', evPc' = "client" => Adding(Len(cells))'
      PROVE  Sharing'
  BY <1>3 DEF Sharing
<1>4. \A k \in DOMAIN cells : cells[k].by \in Clients /\ cells'[k].by = cells[k].by
  <2>1. \A k \in DOMAIN cells : cells[k] \in Cells
    BY <1>1 DEF SharedTypes
  <2>2. QED
    BY <2>1, TasksKept DEF Cells
<1>5. \A c \in Clients : asked[c] \subseteq asked'[c]
  BY ClientsKept
<1>. HIDE DEF Apart, Named
<1>6. ASSUME UNCHANGED cells, DOMAIN tasks' = DOMAIN tasks,
             \A t \in DOMAIN tasks : tasks'[t].clients = tasks[t].clients,
             evPc' = "client" => evPc = "client" /\ UNCHANGED <<name, index>>
      PROVE  Sharing'
  <2>1. \A t \in DOMAIN tasks : Listed(t)' = Listed(t)
    BY <1>6 DEF Listed
  <2>2. Apart'
    BY <1>2, <1>6 DEF Apart
  <2>3. Named'
    <3>. SUFFICES ASSUME NEW k \in DOMAIN cells
                  PROVE  \E n \in asked'[cells'[k].by] : Wanted(k, n)'
      BY <1>6 DEF Named
    <3>1. PICK n \in asked[cells[k].by] : Wanted(k, n)
      BY <1>2 DEF Named
    <3>2. Wanted(k, n)'
      BY <1>6, <2>1, <3>1, WantedKept
    <3>3. n \in asked'[cells'[k].by]
      BY <1>4, <1>5, <3>1
    <3>4. QED
      BY <3>2, <3>3
  <2>4. ASSUME evPc' = "client" PROVE Adding(Len(cells))'
    <3>1. Adding(Len(cells)) /\ UNCHANGED <<name, index>> /\ Len(cells') = Len(cells)
      BY <1>2, <1>6, <2>4
    <3>2. Matching(name) \subseteq DOMAIN tasks /\ Matching(name) \subseteq Matching(name)'
      BY <3>1, MatchingKept DEF Matching
    <3>3. PICK k \in DOMAIN cells : k = Len(cells)
      BY <1>1, <1>6, <2>4 DEF Phases, SharedTypes
    <3>4. Recycled(k) => Recycled(k)'
      BY RecycledKept
    <3>5. Adding(k) /\ cells' = cells
      BY <1>6, <3>1, <3>3
    <3>6. \A t \in DOMAIN tasks' : k \in Listed(t)' => t \in Matching(name)' /\ t < index'
      BY <1>6, <2>1, <3>1, <3>2, <3>5 DEF Adding
    <3>7. ~cells'[k].live =>
             Recycled(k)' \/ \E t \in Matching(name)' : t < index' /\ k \notin Listed(t)'
      BY <2>1, <3>1, <3>2, <3>4, <3>5 DEF Adding
    <3>8. QED
      BY <3>3, <3>5, <3>6, <3>7 DEF Adding, Recycled
  <2>5. QED
    BY <1>3, <2>2, <2>3, <2>4
<1>7. ASSUME UNCHANGED <<cells, tasks>>, evPc' = "client" => evPc = "client" /\ UNCHANGED <<name, index>>
      PROVE  Sharing'
  BY <1>6, <1>7
<1>8. CASE AddTask
  <2>1. /\ DOMAIN tasks \subseteq DOMAIN tasks'
        /\ \A t \in DOMAIN tasks : tasks'[t] = tasks[t]
        /\ \A t \in DOMAIN tasks' : t \notin DOMAIN tasks =>
              tasks'[t] = [name |-> name, buf |-> <<>>, clients |-> <<>>]
        /\ DOMAIN cells' = DOMAIN cells \cup {Len(cells')} /\ Len(cells') \notin DOMAIN cells
        /\ \A k \in DOMAIN cells : cells'[k] = cells[k]
        /\ cells'[Len(cells')].by = con /\ cells'[Len(cells')].live
    BY <1>8, TaskAdded
  <2>2. \A t \in DOMAIN tasks : Listed(t)' = Listed(t) /\ Listed(t) \subseteq DOMAIN cells
    BY <1>1, <2>1 DEF Listed, SharedTypes
  <2>3. \A t \in DOMAIN tasks' : t \notin DOMAIN tasks => Listed(t)' = {} /\ tasks'[t].clients = <<>>
    BY <2>1 DEF Listed, ToSet
  <2>4. Apart'
    <3>1. NoDuplicate(<<>>)
      BY DEF NoDuplicate
    <3>2. QED
      BY <1>2, <2>1, <2>3, <3>1 DEF Apart
  <2>5. ASSUME NEW k \in DOMAIN cells PROVE \E n \in asked'[cells'[k].by] : Wanted(k, n)'
    <3>1. PICK n \in asked[cells[k].by] : Wanted(k, n)
      BY <1>2 DEF Named
    <3>2. Wanted(k, n)'
      BY <2>1, <2>2, <2>3, <3>1, WantedKept
    <3>3. n \in asked'[cells'[k].by]
      BY <1>4, <1>5, <3>1
    <3>4. QED
      BY <3>2, <3>3
  <2>6. ASSUME NEW k \in DOMAIN cells', k \notin DOMAIN cells
        PROVE  /\ \A t \in DOMAIN tasks' : k \notin Listed(t)'
               /\ cells'[k].live /\ cells'[k].by = con
    BY <2>1, <2>2, <2>3, <2>6
  <2>7. name \in asked'[con]
    BY <1>1, <1>5, <1>8 DEF Phases, AddTask
  <2>8. Named'
    <3>1. ASSUME NEW k \in DOMAIN cells', k \notin DOMAIN cells
          PROVE  \E n \in asked'[cells'[k].by] : Wanted(k, n)'
      BY <2>6, <2>7, <3>1 DEF Wanted
    <3>2. QED
      BY <2>5, <3>1 DEF Named
  <2>9. Adding(Len(cells))'
    <3>1. Len(cells') \in DOMAIN cells'
      BY <2>1
    <3>2. QED
      BY <2>1, <2>6, <3>1 DEF Adding
  <2>10. QED
    BY <1>3, <2>4, <2>8, <2>9
<1>9. CASE AddClient
  <2>0. PICK last \in DOMAIN cells : last = Len(cells)
    BY <1>9, ClientAdded
  <2>1. /\ UNCHANGED <<cells, name>> /\ evPc = "client" /\ last \in DOMAIN cells
        /\ DOMAIN tasks' = DOMAIN tasks
    BY <1>9, ClientAdded DEF AddClient
  <2>2. CASE UNCHANGED tasks /\ evPc' = "pad"
    BY <1>7, <2>1, <2>2
  <2>3. ASSUME NEW t \in Matching(name), t \in DOMAIN tasks, t >= index,
               \A u \in DOMAIN tasks : tasks'[u].name = tasks[u].name,
               \A u \in DOMAIN tasks : u # t => tasks'[u] = tasks[u],
               tasks'[t].clients = Append(tasks[t].clients, last),
               tasks[t].clients \in Seq(Nat), index' = t + 1
        PROVE  Sharing'
    <3>1. last \in Nat /\ index \in Nat /\ DOMAIN tasks \subseteq Nat
      BY <1>1 DEF SharedTypes, EventTypes
    <3>2. Adding(last)
      BY <1>2, <2>0, <2>1
    <3>3. last \notin Listed(t)
      BY <2>3, <3>1, <3>2 DEF Adding
    <3>4. /\ Listed(t)' = Listed(t) \cup {last}
          /\ \A u \in DOMAIN tasks : u # t => Listed(u)' = Listed(u)
      <4>1. ToSet(Append(tasks[t].clients, last)) = ToSet(tasks[t].clients) \cup {last}
        BY <2>3, <3>1, Grown
      <4>2. QED
        BY <2>3, <4>1 DEF Listed
    <3>5. \A n : Matching(n)' = Matching(n)
      BY <2>1, <2>3, SameMatching
    <3>6. Apart'
      <4>1. NoDuplicate(tasks[t].clients)
        BY <1>2, <2>3 DEF Apart
      <4>2. NoDuplicate(Append(tasks[t].clients, last))
        BY <2>3, <3>1, <3>3, <4>1, GrownApart DEF Listed
      <4>3. QED
        BY <1>2, <2>1, <2>3, <4>2 DEF Apart
    <3>7. ASSUME NEW k \in DOMAIN cells, k # last
          PROVE  \E n \in asked'[cells'[k].by] : Wanted(k, n)'
      <4>1. PICK n \in asked[cells[k].by] : Wanted(k, n)
        BY <1>2 DEF Named
      <4>2. Wanted(k, n)'
        BY <2>1, <3>4, <3>7, <4>1, WantedKept
      <4>3. n \in asked'[cells'[k].by]
        BY <1>4, <1>5, <4>1
      <4>4. QED
        BY <4>2, <4>3
    <3>8. Matching(name) \subseteq DOMAIN tasks
      BY DEF Matching
    <3>9. /\ \A u \in DOMAIN tasks' : last \in Listed(u)' => u \in Matching(name)' /\ u < index'
          /\ ~cells'[last].live =>
                Recycled(last)' \/ \E u \in Matching(name)' : u < index' /\ last \notin Listed(u)'
      <4>1. Matching(name)' = Matching(name)
        BY <2>1, <3>5
      <4>2. ASSUME NEW u \in DOMAIN tasks', last \in Listed(u)'
            PROVE  u \in Matching(name)' /\ u < index'
        BY <2>1, <2>3, <3>1, <3>2, <3>4, <4>1, <4>2 DEF Adding
      <4>3. ASSUME ~cells'[last].live, ~Recycled(last)'
            PROVE  \E u \in Matching(name)' : u < index' /\ last \notin Listed(u)'
        <5>0. ~Recycled(last) /\ ~cells[last].live
          BY <2>1, <4>3, RecycledKept
        <5>1. PICK u \in Matching(name) : u < index /\ last \notin Listed(u)
          BY <3>2, <5>0 DEF Adding
        <5>2. u \in DOMAIN tasks /\ u # t /\ u < index'
          BY <2>3, <3>1, <3>8, <5>1
        <5>3. QED
          BY <3>4, <4>1, <5>1, <5>2
      <4>4. QED
        BY <4>2, <4>3
    <3>10. Adding(Len(cells))'
      BY <2>0, <2>1, <3>9 DEF Adding, Recycled
    <3>11. ASSUME NEW k \in DOMAIN cells, k = last
           PROVE  \E n \in asked'[cells'[k].by] : Wanted(k, n)'
      <4>1. name \in asked'[cells'[k].by]
        BY <1>1, <1>5, <2>0, <2>1, <3>11 DEF Phases
      <4>2. ASSUME NEW n, n = name PROVE Wanted(k, n)'
        <5>1. Matching(n)' = Matching(name)'
          BY <2>1, <4>2, <3>5
        <5>2. /\ \A u \in DOMAIN tasks' : k \in Listed(u)' => u \in Matching(n)'
              /\ ~cells'[k].live => Recycled(k)' \/ \E u \in Matching(n)' : k \notin Listed(u)'
          BY <3>9, <3>11, <5>1
        <5>3. QED
          BY <5>2 DEF Wanted
      <4>3. QED
        BY <4>1, <4>2
    <3>12. Named'
      BY <2>1, <3>7, <3>11 DEF Named
    <3>13. QED
      BY <1>3, <3>6, <3>10, <3>12
  <2>4. QED
    BY <1>9, <2>0, <2>2, <2>3, ClientAdded
<1>10. CASE DropClient
  <2>1. /\ current \in DOMAIN tasks /\ pos \in 1..Len(tasks[current].clients)
        /\ tasks[current].clients \in Seq(Nat) /\ Cell = tasks[current].clients[pos]
        /\ Cell \in Listed(current) /\ Cell \in DOMAIN cells
        /\ DOMAIN tasks' = DOMAIN tasks
        /\ \A u \in DOMAIN tasks : u # current => tasks'[u] = tasks[u]
        /\ tasks'[current].clients = RemoveAt(tasks[current].clients, pos)
        /\ DOMAIN cells' = DOMAIN cells /\ Len(cells') = Len(cells)
        /\ ~cells'[Cell].live
    BY <1>10, ClientRemoved
  <2>14. PICK d \in DOMAIN cells :
             /\ d = Cell \/ (~cells[Cell].live /\ d > Cell)
             /\ \A k \in DOMAIN cells : k # d => cells'[k] = cells[k]
    BY <1>10, ClientRemoved
  <2>2. \A u \in DOMAIN tasks : tasks'[u].name = tasks[u].name
    BY <1>10, ClientRemoved
  <2>3. UNCHANGED <<event, asked>>
    BY <1>10 DEF DropClient
  <2>4. \A n : Matching(n)' = Matching(n) /\ Matching(n) \subseteq DOMAIN tasks
    BY <2>1, <2>2, SameMatching DEF Matching
  <2>5. /\ NoDuplicate(tasks'[current].clients)
        /\ Cell \notin ToSet(tasks'[current].clients)
        /\ ToSet(tasks'[current].clients) \subseteq Listed(current)
        /\ Listed(current) \subseteq ToSet(tasks'[current].clients) \cup {Cell}
    <3>1. NoDuplicate(tasks[current].clients)
      BY <1>2, <2>1 DEF Apart
    <3>2. QED
      BY <2>1, <3>1, RemovedMembers DEF Listed
  <2>6. \A u \in DOMAIN tasks : Listed(u)' = ToSet(tasks'[u].clients)
    BY DEF Listed
  <2>7. \A u \in DOMAIN tasks, k \in DOMAIN cells :
            k # Cell => (k \in Listed(u)' <=> k \in Listed(u))
    BY <2>1, <2>5, <2>6 DEF Listed
  <2>8. \A u \in DOMAIN tasks : Listed(u)' \subseteq Listed(u)
    BY <2>1, <2>5, <2>6 DEF Listed
  <2>10. Apart'
    BY <1>2, <2>1, <2>5 DEF Apart
  <2>15. ASSUME d # Cell PROVE Recycled(d)'
    <3>1. PICK n \in asked[cells[Cell].by] : Wanted(Cell, n)
      BY <1>2, <2>1 DEF Named
    <3>2. ~cells[Cell].live /\ d > Cell /\ Cell \in Nat /\ d \in Nat /\ Cell > 0
      <4>1. DOMAIN cells = 1..Len(cells)
        BY <1>1 DEF SharedTypes
      <4>2. QED
        BY <2>1, <2>14, <2>15, <4>1
    <3>3. CASE Recycled(Cell)
      <4>1. PICK j \in 1..Cell-1 : ~cells[j].live /\ \E u \in DOMAIN tasks : Shared(j, u)
        BY <3>3 DEF Recycled
      <4>2. j \in 1..d-1
        BY <3>2, <4>1
      <4>3. Recycled(d)
        BY <4>1, <4>2 DEF Recycled
      <4>4. QED
        BY <4>3, RecycledKept
    <3>4. CASE ~Recycled(Cell)
      <4>1. PICK t \in Matching(n) : Cell \notin Listed(t)
        BY <3>1, <3>2, <3>4 DEF Wanted
      <4>2. current \in Matching(n) /\ t # current
        BY <2>1, <3>1, <4>1 DEF Wanted
      <4>3. Shared(Cell, current)
        BY <4>1, <4>2 DEF Shared
      <4>4. Cell \in 1..d-1
        BY <3>2
      <4>5. Recycled(d)
        <5>. HIDE DEF Shared
        <5>1. QED
          BY <2>1, <3>2, <4>3, <4>4 DEF Recycled
      <4>6. QED
        BY <4>5, RecycledKept
    <3>5. QED
      BY <3>3, <3>4
  <2>11. ASSUME NEW k \in DOMAIN cells PROVE \E n \in asked'[cells'[k].by] : Wanted(k, n)'
    <3>1. PICK n \in asked[cells[k].by] : Wanted(k, n)
      BY <1>2 DEF Named
    <3>2. n \in asked'[cells'[k].by]
      BY <1>4, <1>5, <3>1
    <3>3. CASE k # Cell /\ k # d
      BY <2>1, <2>7, <2>14, <3>1, <3>2, <3>3, WantedKept
    <3>6. CASE k # Cell /\ k = d
      <4>1. \A t \in DOMAIN tasks' : k \in Listed(t)' => t \in Matching(n)'
        BY <2>1, <2>4, <2>8, <3>1 DEF Wanted
      <4>2. Wanted(k, n)'
        BY <2>15, <3>6, <4>1 DEF Wanted
      <4>3. QED
        BY <3>2, <4>2
    <3>4. CASE k = Cell
      <4>1. \A t \in DOMAIN tasks' : k \in Listed(t)' => t \in Matching(n)'
        BY <2>1, <2>4, <2>8, <3>1 DEF Wanted
      <4>2. current \in Matching(n)'
        BY <2>1, <2>4, <3>1, <3>4 DEF Wanted
      <4>3. k \notin ToSet(tasks'[current].clients)
        BY <2>5, <3>4
      <4>4. \E t \in Matching(n)' : k \notin Listed(t)'
        BY <2>1, <2>6, <4>2, <4>3
      <4>5. Wanted(k, n)'
        BY <4>1, <4>4 DEF Wanted
      <4>6. QED
        BY <3>2, <4>5
    <3>5. QED
      BY <3>3, <3>4, <3>6
  <2>12. ASSUME evPc' = "client" PROVE Adding(Len(cells))'
    <3>0. PICK k \in DOMAIN cells : k = Len(cells)
      BY <1>1, <2>3, <2>12 DEF event, Phases, SharedTypes
    <3>1. Adding(k) /\ name' = name /\ index' = index
      BY <1>2, <2>3, <2>12, <3>0 DEF event
    <3>2. \A t \in DOMAIN tasks' : k \in Listed(t)' => t \in Matching(name)' /\ t < index'
      BY <2>1, <2>4, <2>8, <3>1 DEF Adding
    <3>3. ASSUME ~cells'[k].live, ~Recycled(k)'
          PROVE  \E t \in Matching(name)' : t < index' /\ k \notin Listed(t)'
      <4>1. CASE k # Cell
        <5>1. k # d
          BY <2>15, <3>3, <4>1
        <5>2. ~cells[k].live /\ ~Recycled(k)
          BY <2>14, <3>1, <3>3, <5>1, RecycledKept
        <5>3. QED
          BY <2>1, <2>4, <2>7, <3>1, <4>1, <5>2 DEF Adding
      <4>2. CASE k = Cell
        <5>1. current \in Matching(name) /\ current < index
          BY <2>1, <3>1, <4>2 DEF Adding
        <5>2. k \notin ToSet(tasks'[current].clients)
          BY <2>5, <4>2
        <5>3. QED
          BY <2>1, <2>4, <2>6, <3>1, <5>1, <5>2
      <4>3. QED
        BY <4>1, <4>2
    <3>4. QED
      BY <2>1, <3>0, <3>2, <3>3 DEF Adding, Recycled
  <2>13. QED
    BY <1>3, <2>1, <2>10, <2>11, <2>12 DEF Named
<1>11. CASE PollGet
  <2>1. /\ DOMAIN tasks' = DOMAIN tasks
        /\ \A t \in DOMAIN tasks : tasks'[t].clients = tasks[t].clients
    BY <1>11, ChunkTaken
  <2>2. UNCHANGED <<cells, event>>
    BY <1>11 DEF PollGet
  <2>3. QED
    BY <1>6, <2>1, <2>2 DEF event
<1>12. ASSUME NEW i \in DOMAIN Config, Feed(i) PROVE Sharing'
  <2>1. /\ DOMAIN tasks' = DOMAIN tasks
        /\ \A t \in DOMAIN tasks : tasks'[t].clients = tasks[t].clients
    BY <1>12, FeedTasks
  <2>2. UNCHANGED <<cells, event>>
    BY <1>12 DEF Feed
  <2>3. QED
    BY <1>6, <2>1, <2>2 DEF event
<1>13. CASE \/ EventWait \/ BatchDone \/ Accept \/ AddOutput \/ SendHead
            \/ \E c \in Clients : RecvEnd(c) \/ RecvAgain(c) \/ RecvRead(c)
  <2>1. UNCHANGED <<cells, tasks>> /\ (evPc' = "client" => evPc = "client" /\ UNCHANGED <<name, index>>)
    BY <1>13 DEF EventWait, BatchDone, Accept, AddOutput, Abort, SendHead, RecvEnd, RecvAgain,
                 RecvRead, CoreClose
  <2>2. QED
    BY <1>7, <2>1
<1>14. CASE \/ ChannelAdd \/ PollEmpty \/ Write \/ WriteFails \/ FreeAborts \/ WalkDone
            \/ \E c \in Clients : Connect(c) \/ Send(c) \/ Leave(c)
  BY <1>7, <1>14 DEF ChannelAdd, PollEmpty, Write, WriteFails, FreeAborts, Abort, WalkDone,
                     Connect, Send, Leave, event
<1>15. CASE UNCHANGED vars
  BY <1>7, <1>15 DEF vars, event
<1>16. QED
  BY <1>8, <1>9, <1>10, <1>11, <1>12, <1>13, <1>14, <1>15
     DEF Next, Environment, EventStep, StreamStep

\* The lists that share a client's cell are freed under each other only when
\* the client asked for a name that two tasks match; and another client's cell
\* only by freeing such a cell twice.
THEOREM DanglingShared == Spec => []DanglingIfShared
<1>1. Init => Sharing
  BY DEF Init, Sharing
<1>2. TypeInv /\ Sharing /\ [Next]_vars => Sharing'
  BY SharingKept
<1>3. TypeInv /\ Sharing => DanglingIfShared
  <2>. SUFFICES ASSUME TypeInv, Sharing, NEW t \in DOMAIN tasks, NEW k \in Listed(t),
                       ~cells[k].live, ~Recycled(k)
                PROVE  Shared(k, t)
    BY DEF DanglingIfShared, Recycled
  <2>1. k \in DOMAIN cells
    BY DEF TypeInv, TypeOK, SharedTypes
  <2>2. PICK n \in asked[cells[k].by] : Wanted(k, n)
    BY <2>1 DEF Sharing
  <2>3. PICK u \in Matching(n) : k \notin Listed(u)
    BY <2>2 DEF Wanted
  <2>4. t \in Matching(n) /\ u # t
    BY <2>2, <2>3 DEF Wanted
  <2>5. QED
    BY <2>2, <2>3, <2>4 DEF Shared
<1>4. QED
  BY <1>1, <1>2, <1>3, TypesHold, PTL DEF Spec

----------------------------------------------------------------------------
(* The answer to a request.                                                *)

\* The two halves of Answered, each of which a step preserves.
Headed ==
    \A c \in Clients : asked[c] # {} /\ got[c] = <<>>
                       => con = c \/ c \in eof \/ link[c] = "closed"

AskedFor ==
    misled \/ \A c \in Clients : asked[c] = {} => ToSet(got[c]) \subseteq {NotFound404}

\* The handler's descriptor leads to its client, or is closed.
Handling ==
    misled \/ (evPc \in {"task", "client", "pad", "head"} => owner[skt[con]] \in {con, Nobody})

\* A step adds at most one item to what a client got: an answer of the event
\* thread, or data that the streamer writes to the client's descriptor.
LEMMA GotKept ==
    ASSUME TypeInv, [Next]_vars, NEW c \in Clients
    PROVE  \/ got'[c] = got[c]
           \/ \E item \in Items :
                 /\ got'[c] = Append(got[c], item)
                 /\ \/ item.task = 0 /\ item = NotFound404
                    \/ item.task = 0 /\ SendHead /\ c = owner[skt[con]]
                    \/ /\ Write /\ item.task = current /\ item.n = chunk.n
                       /\ \E f \in CellFds : /\ c = owner[f]
                                             /\ misled' = (misled \/ owner[f] # cells[Cell].by)
<1>. DEFINE Goal == \/ got'[c] = got[c]
                    \/ \E item \in Items :
                          /\ got'[c] = Append(got[c], item)
                          /\ \/ item.task = 0 /\ item = NotFound404
                             \/ item.task = 0 /\ SendHead /\ c = owner[skt[con]]
                             \/ /\ Write /\ item.task = current /\ item.n = chunk.n
                                /\ \E f \in CellFds : /\ c = owner[f]
                                                      /\ misled' = (misled \/ owner[f] # cells[Cell].by)
<1>1. PastTypes /\ StreamTypes
  BY DEF TypeInv, TypeOK
<1>2. /\ Head200 \in Items /\ NotFound404 \in Items
      /\ Head200.task = 0 /\ NotFound404.task = 0
  BY DEF Head200, NotFound404, Reply, Items
<1>3. ASSUME got' = got PROVE Goal
  BY <1>3
<1>4. ASSUME NEW f, NEW item \in Items, got' \in {got, Receives(f, item)}
      PROVE  got'[c] = got[c] \/ (got'[c] = Append(got[c], item) /\ c = owner[f])
  BY <1>1, <1>4, Received
<1>5. ASSUME NEW d \in Clients, RecvRead(d) PROVE Goal
  <2>1. got' \in {got, Receives(skt[d], NotFound404)}
    BY <1>5, WrittenOrLost DEF RecvRead
  <2>2. got'[c] = got[c] \/ got'[c] = Append(got[c], NotFound404)
    BY <1>2, <1>4, <2>1
  <2>3. QED
    BY <1>2, <2>2
<1>6. ASSUME SendHead
      PROVE  Goal
  <2>1. got' \in {got, Receives(skt[con], Head200)}
    BY <1>6, WrittenOrLost DEF SendHead
  <2>2. got'[c] = got[c] \/ (got'[c] = Append(got[c], Head200) /\ c = owner[skt[con]])
    BY <1>2, <1>4, <2>1
  <2>3. QED
    BY <1>2, <1>6, <2>2
<1>7. ASSUME Write
      PROVE  Goal
  <2>. DEFINE item == [task |-> current, ch |-> chunk.ch, n |-> chunk.n]
  <2>1. item \in Items /\ item.task = current /\ item.n = chunk.n
    BY <1>1 DEF StreamTypes, Chunks, Items
  <2>2. PICK f \in CellFds : /\ got' \in {got, Receives(f, item)}
                             /\ misled' = (misled \/ owner[f] # cells[Cell].by)
    BY <1>7, WrittenOrLost DEF Write
  <2>. HIDE DEF item
  <2>3. \/ got'[c] = got[c]
        \/ got'[c] = Append(got[c], item) /\ c = owner[f]
    BY <1>1, <2>1, <2>2, Received
  <2>4. QED
    BY <1>7, <2>1, <2>2, <2>3
<1>8. ASSUME \/ EventWait \/ BatchDone \/ Accept \/ AddTask \/ AddClient \/ AddOutput
             \/ ChannelAdd \/ \E d \in Clients : RecvEnd(d) \/ RecvAgain(d)
      PROVE  Goal
  BY <1>3, <1>8 DEF EventWait, BatchDone, Accept, AddTask, AddClient, AddOutput, ChannelAdd,
                    RecvEnd, RecvAgain, past
<1>9. ASSUME \/ PollEmpty \/ PollGet \/ WriteFails \/ DropClient \/ FreeAborts \/ WalkDone
             \/ \E d \in Clients : Connect(d) \/ Send(d) \/ Leave(d)
             \/ \E i \in DOMAIN Config : Feed(i)
      PROVE  Goal
  BY <1>3, <1>9 DEF PollEmpty, PollGet, WriteFails, DropClient, FreeAborts, WalkDone, Connect,
                    Send, Leave, Feed, past
<1>10. ASSUME UNCHANGED vars
       PROVE  Goal
  BY <1>3, <1>10 DEF vars, past
<1>. HIDE DEF Goal
<1>11. Goal
  <2>1. CASE Environment
    BY <1>9, <1>8, <2>1 DEF Environment
  <2>2. CASE EventStep
    BY <1>5, <1>6, <1>8, <2>2 DEF EventStep
  <2>3. CASE StreamStep
    BY <1>7, <1>9, <2>3 DEF StreamStep
  <2>4. QED
    BY <1>10, <2>1, <2>2, <2>3 DEF Next
<1>12. QED
  BY <1>11 DEF Goal

\* What a client got it keeps.
LEMMA GotGrows ==
    ASSUME TypeInv, [Next]_vars, NEW c \in Clients, got'[c] = <<>>
    PROVE  got[c] = <<>>
<1>1. got[c] \in Seq(Items)
  BY DEF TypeInv, TypeOK, PastTypes
<1>2. \/ got'[c] = got[c]
      \/ \E item \in Items : got'[c] = Append(got[c], item)
  BY GotKept
<1>3. \A item \in Items : Append(got[c], item) # <<>>
  BY <1>1
<1>4. QED
  BY <1>2, <1>3

\* Only the request asks, and only the header ends the handler.
LEMMA HandlerKept ==
    ASSUME TypeInv, [Next]_vars, NEW c \in Clients
    PROVE  /\ asked'[c] # asked[c] => con' = c
           /\ con = c /\ con' # c => SendHead
<1>. DEFINE Goal == /\ asked'[c] # asked[c] => con' = c
                    /\ con = c /\ con' # c => SendHead
<1>1. /\ asked \in [Clients -> SUBSET Names] /\ c # Nobody
      /\ evPc = "dispatch" => con = Nobody
  BY HttpAssumption DEF TypeInv, TypeOK, PastTypes, Phases
<1>2. ASSUME UNCHANGED <<asked, con>> PROVE Goal
  BY <1>2
<1>3. ASSUME NEW d \in Clients, RecvRead(d) PROVE Goal
  <2>1. evPc = "dispatch"
    BY <1>3 DEF RecvRead
  <2>2. \/ UNCHANGED asked
        \/ con' = d /\ \E n : asked' = [asked EXCEPT ![d] = @ \cup {n}]
    BY <1>3 DEF RecvRead
  <2>3. asked'[c] # asked[c] => con' = c
    BY <1>1, <2>2
  <2>4. QED
    BY <1>1, <2>1, <2>3
<1>4. ASSUME SendHead
      PROVE  Goal
  <2>1. UNCHANGED asked
    BY <1>4 DEF SendHead
  <2>2. QED
    BY <1>4, <2>1
<1>5. ASSUME \/ EventWait \/ BatchDone \/ Accept \/ AddTask \/ AddClient \/ AddOutput
             \/ ChannelAdd \/ \E d \in Clients : RecvEnd(d) \/ RecvAgain(d)
      PROVE  Goal
  BY <1>2, <1>5 DEF EventWait, BatchDone, Accept, AddTask, AddClient, AddOutput, ChannelAdd,
                    RecvEnd, RecvAgain, CoreClose, Abort, past, event
<1>6. ASSUME \/ PollEmpty \/ PollGet \/ Write \/ WriteFails \/ DropClient \/ FreeAborts
             \/ WalkDone \/ \E d \in Clients : Connect(d) \/ Send(d) \/ Leave(d)
             \/ \E i \in DOMAIN Config : Feed(i)
      PROVE  Goal
  BY <1>2, <1>6 DEF PollEmpty, PollGet, Write, WriteFails, DropClient, FreeAborts, WalkDone,
                    Connect, Send, Leave, Feed, past, event
<1>7. ASSUME UNCHANGED vars
      PROVE  Goal
  BY <1>2, <1>7 DEF vars, past, event
<1>. HIDE DEF Goal
<1>8. Goal
  <2>1. CASE Environment
    BY <1>6, <1>5, <2>1 DEF Environment
  <2>2. CASE EventStep
    BY <1>3, <1>4, <1>5, <2>2 DEF EventStep
  <2>3. CASE StreamStep
    BY <1>6, <2>3 DEF StreamStep
  <2>4. QED
    BY <1>7, <2>1, <2>2, <2>3 DEF Next
<1>9. QED
  BY <1>8 DEF Goal

\* The handler's last step sends the header to its client, unless that has gone
\* or got something before.
LEMMA HeadReaches ==
    ASSUME TypeInv, SendHead, got'[con] = <<>>, got[con] = <<>>
    PROVE  con \in eof \/ link[con] = "closed"
<1>1. /\ con \in Clients /\ con # Nobody /\ link[con] \in {"open", "closed"}
  BY HttpAssumption DEF TypeInv, Phases, SendHead
<1>2. SUFFICES ASSUME link[con] = "open", con \notin eof PROVE FALSE
  BY <1>1
<1>3. owner[skt[con]] = con
  BY <1>1, <1>2 DEF TypeInv, Wired
<1>4. got' = Receives(skt[con], Head200)
  BY <1>1, <1>3 DEF SendHead, Written
<1>5. got \in [Clients -> Seq(Items)] /\ Head200 \in Items
  BY DEF TypeInv, TypeOK, PastTypes, Head200, Reply, Items
<1>6. got'[con] = Append(got[con], Head200)
  BY <1>1, <1>2, <1>3, <1>4, <1>5 DEF Receives
<1>7. Append(got[con], Head200) # <<>>
  BY <1>1, <1>5
<1>8. QED
  BY <1>6, <1>7

LEMMA HeadedKept == TypeInv /\ Headed /\ [Next]_vars => Headed'
<1>. SUFFICES ASSUME TypeInv, Headed, [Next]_vars, NEW c \in Clients,
                     asked'[c] # {}, got'[c] = <<>>
              PROVE  con' = c \/ c \in eof' \/ link'[c] = "closed"
  BY DEF Headed
<1>1. got[c] = <<>>
  BY GotGrows
<1>2. eof \subseteq eof' /\ (link[c] = "closed" => link'[c] = "closed")
  BY ClientsKept
<1>3. CASE asked'[c] # asked[c]
  BY <1>3, HandlerKept
<1>4. CASE asked'[c] = asked[c]
  <2>1. con = c \/ c \in eof \/ link[c] = "closed"
    BY <1>1, <1>4 DEF Headed
  <2>2. CASE con = c /\ con' # c
    <3>1. SendHead
      BY <2>2, HandlerKept
    <3>2. QED
      BY <1>1, <1>2, <2>2, <3>1, HeadReaches
  <2>3. QED
    BY <1>2, <2>1, <2>2
<1>5. QED
  BY <1>3, <1>4

\* While a handler is at work, no descriptor is given out.
LEMMA HandlingKept == TypeInv /\ Handling /\ [Next]_vars => Handling'
<1>. SUFFICES ASSUME TypeInv, Handling, [Next]_vars, ~misled',
                     evPc' \in {"task", "client", "pad", "head"}
              PROVE  owner'[skt'[con']] \in {con', Nobody}
  BY DEF Handling
<1>1. KernelTypes /\ Phases /\ Listener \notin Clients
  BY HttpAssumption DEF TypeInv, TypeOK
<1>2. ~misled
  BY ClientsKept
<1>3. ASSUME evPc \in {"task", "client", "pad", "head"}, UNCHANGED <<skt, con>>,
             \A f \in Fds : owner'[f] \in {owner[f], Nobody}
      PROVE  owner'[skt'[con']] \in {con', Nobody}
  <2>1. skt[con] \in Fds /\ owner[skt[con]] \in {con, Nobody}
    BY <1>1, <1>2, <1>3 DEF Handling, Phases
  <2>2. QED
    BY <1>3, <2>1
<1>4. ASSUME evPc \in {"task", "client", "pad", "head"}, UNCHANGED <<skt, con, owner>>
      PROVE  owner'[skt'[con']] \in {con', Nobody}
  BY <1>3, <1>4
<1>5. ASSUME NEW c \in Clients, RecvRead(c) PROVE owner'[skt'[con']] \in {con', Nobody}
  <2>1. ~CoreClose(c) /\ evPc = "dispatch"
    BY <1>5 DEF CoreClose, RecvRead
  <2>2. /\ con' = c /\ misled' = (misled \/ c # owner[skt[c]])
        /\ UNCHANGED <<owner, skt>>
    BY <1>5, <2>1 DEF RecvRead
  <2>3. QED
    BY <2>2
<1>6. CASE DropClient
  <2>1. PICK f \in Fds : Close(f)
    BY <1>6, ClientRemoved DEF CloseFailed
  <2>2. \A g \in Fds : owner'[g] \in {owner[g], Nobody}
    BY <1>1, <2>1 DEF Close, KernelTypes
  <2>3. UNCHANGED <<skt, con, evPc>>
    BY <1>6 DEF DropClient, event
  <2>4. QED
    BY <1>3, <2>2, <2>3
<1>7. CASE EventWait \/ BatchDone \/ Accept \/ \E c \in Clients : RecvEnd(c) \/ RecvAgain(c)
  BY <1>7 DEF EventWait, BatchDone, Accept, Abort, RecvEnd, RecvAgain, CoreClose
<1>8. CASE AddTask \/ AddClient \/ AddOutput \/ SendHead
  BY <1>4, <1>8 DEF AddTask, AddClient, AddOutput, SendHead, kernel
<1>9. CASE \/ ChannelAdd \/ \E c \in Clients : Connect(c) \/ Send(c) \/ Leave(c)
           \/ \E i \in DOMAIN Config : Feed(i)
  BY <1>4, <1>9 DEF ChannelAdd, Connect, Send, Leave, Feed, kernel, event
<1>10. CASE PollEmpty \/ PollGet \/ Write \/ WriteFails \/ FreeAborts \/ WalkDone
  BY <1>4, <1>10 DEF PollEmpty, PollGet, Write, WriteFails, FreeAborts, Abort, WalkDone,
                     kernel, event
<1>11. CASE UNCHANGED vars
  BY <1>4, <1>11 DEF vars, kernel, event
<1>12. QED
  BY <1>5, <1>6, <1>7, <1>8, <1>9, <1>10, <1>11 DEF Next, Environment, EventStep, StreamStep

LEMMA AskedForKept == TypeInv /\ Sharing /\ Handling /\ AskedFor /\ [Next]_vars => AskedFor'
<1>. SUFFICES ASSUME TypeInv, Sharing, Handling, AskedFor, [Next]_vars, ~misled',
                     NEW c \in Clients, asked'[c] = {}
              PROVE  ToSet(got'[c]) \subseteq {NotFound404}
  BY DEF AskedFor
<1>1. ~misled /\ asked[c] = {}
  BY ClientsKept
<1>2. got[c] \in Seq(Items) /\ c # Nobody
  BY HttpAssumption DEF TypeInv, TypeOK, PastTypes
<1>3. ToSet(got[c]) \subseteq {NotFound404}
  BY <1>1 DEF AskedFor
<1>4. CASE got'[c] = got[c]
  BY <1>3, <1>4
<1>5. ASSUME NEW item \in Items, got'[c] = Append(got[c], item), item = NotFound404
      PROVE  ToSet(got'[c]) \subseteq {NotFound404}
  <2>1. ToSet(Append(got[c], item)) = ToSet(got[c]) \cup {item}
    BY <1>2, Grown
  <2>2. QED
    BY <1>3, <1>5, <2>1
<1>6. ASSUME SendHead, c = owner[skt[con]] PROVE FALSE
  <2>1. c = con
    BY <1>1, <1>2, <1>6 DEF SendHead, Handling
  <2>2. name \in asked[con]
    BY <1>6 DEF TypeInv, Phases, SendHead
  <2>3. QED
    BY <1>1, <2>1, <2>2
<1>7. ASSUME Write, NEW f \in CellFds, c = owner[f],
             misled' = (misled \/ owner[f] # cells[Cell].by)
      PROVE  FALSE
  <2>1. c = cells[Cell].by
    BY <1>7
  <2>2. Cell \in DOMAIN cells
    BY <1>7, CellFound DEF Write
  <2>3. asked[c] # {}
    BY <2>1, <2>2 DEF Sharing
  <2>4. QED
    BY <1>1, <2>3
<1>8. QED
  BY <1>4, <1>5, <1>6, <1>7, GotKept

\* The streamer may write to a client before its header is sent, since the
\* handler puts the client in the lists first, and so much that the header is
\* lost; but whoever asked has got something when the handler is done, and who
\* did not ask gets no data and no header.
THEOREM RequestsAnswered == Spec => []Answered
<1>1. Init => Sharing /\ Headed /\ Handling /\ AskedFor
  <2>1. Init => Sharing /\ Headed /\ Handling
    BY DEF Init, Sharing, Headed, Handling
  <2>2. Init => AskedFor
    BY DEF Init, AskedFor, ToSet
  <2>3. QED
    BY <2>1, <2>2
<1>2. TypeInv /\ Sharing /\ [Next]_vars => Sharing'
  BY SharingKept
<1>3. TypeInv /\ Headed /\ [Next]_vars => Headed'
  BY HeadedKept
<1>4. TypeInv /\ Handling /\ [Next]_vars => Handling'
  BY HandlingKept
<1>5. TypeInv /\ Sharing /\ Handling /\ AskedFor /\ [Next]_vars => AskedFor'
  BY AskedForKept
<1>6. Headed /\ AskedFor => Answered
  BY DEF Headed, AskedFor, Answered
<1>7. QED
  BY <1>1, <1>2, <1>3, <1>4, <1>5, <1>6, TypesHold, PTL DEF Spec

----------------------------------------------------------------------------
(* The order of the chunks.                                                *)

\* n comes before everything in the buffer of t, and before what is yet to be
\* put out.
Ahead(t, n) ==
    /\ \A j \in DOMAIN tasks[t].buf : n <= tasks[t].buf[j].n
    /\ 1 \in DOMAIN Config => n <= fed[1]

\* clive_channel_find finds the first channel only.
FirstOnly == \A i \in DOMAIN Config : pads[i]["TS"] # <<>> => i = 1

Queued ==
    \A t \in DOMAIN tasks : \A i \in DOMAIN tasks[t].buf :
        /\ 1 \in DOMAIN Config => tasks[t].buf[i].n <= fed[1]
        /\ \A j \in DOMAIN tasks[t].buf : i < j => tasks[t].buf[i].n <= tasks[t].buf[j].n

Taken == stPc \in {"walk", "drop"} => Ahead(current, chunk.n)

Delivered ==
    \A c \in Clients : \A i \in DOMAIN got[c] :
        got[c][i].task # 0 =>
            /\ got[c][i].task \in DOMAIN tasks
            /\ Ahead(got[c][i].task, got[c][i].n)
            /\ stPc \in {"walk", "drop"} /\ current = got[c][i].task => got[c][i].n <= chunk.n

Sorted == FirstOnly /\ Queued /\ Taken /\ Delivered /\ ChunksInOrder

LEMMA FirstOnlyKept == TypeInv /\ FirstOnly /\ [Next]_vars => FirstOnly'
<1>. SUFFICES ASSUME TypeInv, FirstOnly, [Next]_vars, NEW i \in DOMAIN Config, i # 1
              PROVE  pads'[i] = pads[i]
  BY DEF FirstOnly
<1>1. i # 0 /\ pads \in [DOMAIN Config -> [Media -> Seq(Nat)]]
  BY HttpAssumption DEF TypeInv, TypeOK, SharedTypes
<1>2. CASE AddOutput
  <2>1. ChannelFind(name) # i
    BY <1>1 DEF ChannelFind
  <2>2. UNCHANGED pads \/ \E s : pads' = [pads EXCEPT ![ChannelFind(name)] = s]
    BY <1>2 DEF AddOutput
  <2>3. QED
    BY <1>1, <2>1, <2>2
<1>3. CASE \/ EventWait \/ BatchDone \/ Accept \/ AddTask \/ AddClient \/ SendHead
           \/ \E c \in Clients : RecvEnd(c) \/ RecvAgain(c) \/ RecvRead(c)
  BY <1>3 DEF EventWait, BatchDone, Accept, AddTask, AddClient, SendHead, RecvEnd, RecvAgain, RecvRead
<1>4. CASE \/ ChannelAdd \/ PollEmpty \/ PollGet \/ Write \/ WriteFails \/ DropClient
           \/ FreeAborts \/ WalkDone
           \/ \E c \in Clients : Connect(c) \/ Send(c) \/ Leave(c)
           \/ \E j \in DOMAIN Config : Feed(j)
  BY <1>4 DEF ChannelAdd, PollEmpty, PollGet, Write, WriteFails, DropClient, FreeAborts, WalkDone,
              Connect, Send, Leave, Feed
<1>5. CASE UNCHANGED vars
  BY <1>5 DEF vars
<1>6. QED
  BY <1>2, <1>3, <1>4, <1>5 DEF Next, Environment, EventStep, StreamStep

\* The streamer's chunk is the one it took.
LEMMA WalkKept ==
    ASSUME [Next]_vars, stPc' \in {"walk", "drop"}
    PROVE  PollGet \/ (stPc \in {"walk", "drop"} /\ UNCHANGED <<current, chunk>>)
<1>1. CASE \/ EventWait \/ BatchDone \/ Accept \/ AddTask \/ AddClient \/ AddOutput \/ SendHead
           \/ \E c \in Clients : RecvEnd(c) \/ RecvAgain(c) \/ RecvRead(c)
  BY <1>1 DEF EventWait, BatchDone, Accept, AddTask, AddClient, AddOutput, Abort, SendHead,
              RecvEnd, RecvAgain, RecvRead, stream
<1>2. CASE \/ ChannelAdd \/ PollEmpty \/ Write \/ WriteFails \/ DropClient \/ FreeAborts \/ WalkDone
           \/ \E c \in Clients : Connect(c) \/ Send(c) \/ Leave(c)
           \/ \E j \in DOMAIN Config : Feed(j)
  BY <1>2 DEF ChannelAdd, PollEmpty, Write, WriteFails, DropClient, FreeAborts, Abort, WalkDone,
              Connect, Send, Leave, Feed, stream
<1>3. CASE UNCHANGED vars
  BY <1>3 DEF vars, stream
<1>4. QED
  BY <1>1, <1>2, <1>3 DEF Next, Environment, EventStep, StreamStep

\* A buffer stays, loses its head to the streamer, or grows by chunks that are
\* the latest.
LEMMA BuffersKept ==
    ASSUME TypeInv, FirstOnly, [Next]_vars, NEW t \in DOMAIN tasks
    PROVE  /\ 1 \in DOMAIN Config => fed[1] <= fed'[1]
           /\ tasks[t].buf \in Seq(Chunks)
           /\ \/ tasks'[t].buf = tasks[t].buf
              \/ PollGet /\ t = current
              \/ \E w \in Nat :
                    /\ 1 \in DOMAIN Config
                    /\ tasks'[t].buf \in Seq(Chunks)
                    /\ Len(tasks'[t].buf) = Len(tasks[t].buf) + w
                    /\ \A j \in 1..Len(tasks[t].buf) : tasks'[t].buf[j] = tasks[t].buf[j]
                    /\ \A j \in 1..Len(tasks[t].buf) + w :
                          j > Len(tasks[t].buf) => tasks'[t].buf[j].n = fed'[1]
<1>. DEFINE b == tasks[t].buf
            b1 == tasks'[t].buf
            Goal == \/ b1 = b
                    \/ PollGet /\ t = current
                    \/ \E w \in Nat :
                          /\ 1 \in DOMAIN Config
                          /\ b1 \in Seq(Chunks)
                          /\ Len(b1) = Len(b) + w
                          /\ \A j \in 1..Len(b) : b1[j] = b[j]
                          /\ \A j \in 1..Len(b) + w : j > Len(b) => b1[j].n = fed'[1]
<1>1. /\ fed \in [DOMAIN Config -> Nat] /\ tasks \in Seq(Tasks) /\ pads \in [DOMAIN Config -> [Media -> Seq(Nat)]]
      /\ Len(b) <= BufCap
  BY DEF TypeInv, TypeOK, PastTypes, SharedTypes
<1>2. b \in Seq(Chunks)
  <2>1. tasks[t] \in Tasks
    BY <1>1
  <2>2. QED
    BY <2>1 DEF Tasks
<1>3. 1 \in DOMAIN Config => fed[1] <= fed'[1]
  <2>1. fed' = fed \/ \E i \in DOMAIN Config : fed' = [fed EXCEPT ![i] = @ + 1]
    <3>1. CASE \E i \in DOMAIN Config : Feed(i)
      BY <3>1 DEF Feed
    <3>2. CASE \/ EventWait \/ BatchDone \/ Accept \/ AddTask \/ AddClient \/ AddOutput \/ SendHead
               \/ \E c \in Clients : RecvEnd(c) \/ RecvAgain(c) \/ RecvRead(c)
      BY <3>2 DEF EventWait, BatchDone, Accept, AddTask, AddClient, AddOutput, SendHead, RecvEnd,
                  RecvAgain, RecvRead
    <3>3. CASE \/ ChannelAdd \/ PollEmpty \/ PollGet \/ Write \/ WriteFails \/ DropClient
               \/ FreeAborts \/ WalkDone
               \/ \E c \in Clients : Connect(c) \/ Send(c) \/ Leave(c)
      BY <3>3 DEF ChannelAdd, PollEmpty, PollGet, Write, WriteFails, DropClient, FreeAborts,
                  WalkDone, Connect, Send, Leave
    <3>4. CASE UNCHANGED vars
      BY <3>4 DEF vars
    <3>5. QED
      BY <3>1, <3>2, <3>3, <3>4 DEF Next, Environment, EventStep, StreamStep
  <2>2. QED
    <3>1. CASE fed' = fed
      BY <1>1, <3>1
    <3>2. ASSUME NEW i \in DOMAIN Config, fed' = [fed EXCEPT ![i] = @ + 1], 1 \in DOMAIN Config
          PROVE  fed[1] <= fed'[1]
      BY <1>1, <3>2
    <3>3. QED
      BY <2>1, <3>1, <3>2
<1>4. ASSUME NEW i \in DOMAIN Config, Feed(i) PROVE Goal
  <2>1. i = 1 /\ fed' = [fed EXCEPT ![i] = @ + 1]
    BY <1>4 DEF Feed, FirstOnly
  <2>2. fed'[1] = fed[i] + 1
    BY <1>1, <2>1
  <2>. DEFINE e == [ch |-> i, n |-> fed[i] + 1]
  <2>3. e \in Chunks /\ e.n = fed[i] + 1
    BY <1>4, FeedTasks
  <2>4. PICK n \in Nat : b1 = Fill(b, n, e)
    BY <1>4, FeedTasks
  <2>. HIDE DEF e, b, b1
  <2>5. PICK w \in Nat :
              /\ Fill(b, n, e) \in Seq(Chunks)
              /\ Len(Fill(b, n, e)) = Len(b) + w
              /\ \A j \in 1..Len(b) : Fill(b, n, e)[j] = b[j]
              /\ \A j \in 1..Len(b) + w : j > Len(b) => Fill(b, n, e)[j] = e
    <3>1. b \in Seq(Chunks) /\ Len(b) <= BufCap /\ e \in Chunks /\ n \in Nat
      BY <1>1, <1>2, <2>3
    <3>2. \E w \in Nat :
              /\ Fill(b, n, e) \in Seq(Chunks)
              /\ Len(Fill(b, n, e)) = Len(b) + w /\ Len(b) + w <= BufCap
              /\ \A j \in 1..Len(b) : Fill(b, n, e)[j] = b[j]
              /\ \A j \in 1..Len(b) + w : j > Len(b) => Fill(b, n, e)[j] = e
      BY <3>1, Filled
    <3>3. QED
      BY <3>2
  <2>6. \A j \in 1..Len(b) + w : j > Len(b) => b1[j].n = fed'[1]
    BY <2>2, <2>3, <2>4, <2>5
  <2>7. QED
    BY <2>1, <2>4, <2>5, <2>6
<1>5. ASSUME AddTask \/ AddClient \/ DropClient PROVE Goal
  <2>1. CASE AddTask
    BY <2>1, TaskAdded
  <2>2. CASE AddClient
    BY <2>2, ClientAdded
  <2>3. CASE DropClient
    BY <2>3, ClientRemoved
  <2>4. QED
    BY <1>5, <2>1, <2>2, <2>3
<1>6. ASSUME PollGet PROVE Goal
  BY <1>6, ChunkTaken
<1>7. ASSUME UNCHANGED tasks PROVE Goal
  BY <1>7
<1>8. ASSUME \/ EventWait \/ BatchDone \/ Accept \/ AddOutput \/ SendHead
             \/ \E c \in Clients : RecvEnd(c) \/ RecvAgain(c) \/ RecvRead(c)
      PROVE  Goal
  BY <1>7, <1>8 DEF EventWait, BatchDone, Accept, AddOutput, SendHead, RecvEnd, RecvAgain, RecvRead
<1>9. ASSUME \/ ChannelAdd \/ PollEmpty \/ Write \/ WriteFails \/ FreeAborts \/ WalkDone
             \/ \E c \in Clients : Connect(c) \/ Send(c) \/ Leave(c)
      PROVE  Goal
  BY <1>7, <1>9 DEF ChannelAdd, PollEmpty, Write, WriteFails, FreeAborts, WalkDone, Connect, Send,
                    Leave
<1>10. ASSUME UNCHANGED vars PROVE Goal
  BY <1>7, <1>10 DEF vars
<1>. HIDE DEF Goal
<1>11. Goal
  BY <1>4, <1>5, <1>6, <1>8, <1>9, <1>10 DEF Next, Environment, EventStep, StreamStep
<1>12. QED
  BY <1>2, <1>3, <1>11 DEF Goal

\* A task that a step adds has an empty buffer.
LEMMA NewTaskEmpty ==
    ASSUME TypeInv, [Next]_vars, NEW t \in DOMAIN tasks', t \notin DOMAIN tasks
    PROVE  tasks'[t].buf = <<>>
<1>1. CASE AddTask
  BY <1>1, TaskAdded
<1>2. CASE AddClient
  BY <1>2, ClientAdded
<1>3. CASE DropClient
  BY <1>3, ClientRemoved
<1>4. CASE PollGet
  BY <1>4, ChunkTaken
<1>5. ASSUME NEW i \in DOMAIN Config, Feed(i) PROVE FALSE
  BY <1>5, FeedTasks
<1>6. CASE \/ EventWait \/ BatchDone \/ Accept \/ AddOutput \/ SendHead
           \/ \E c \in Clients : RecvEnd(c) \/ RecvAgain(c) \/ RecvRead(c)
  BY <1>6 DEF EventWait, BatchDone, Accept, AddOutput, SendHead, RecvEnd, RecvAgain, RecvRead
<1>7. CASE \/ ChannelAdd \/ PollEmpty \/ Write \/ WriteFails \/ FreeAborts \/ WalkDone
           \/ \E c \in Clients : Connect(c) \/ Send(c) \/ Leave(c)
  BY <1>7 DEF ChannelAdd, PollEmpty, Write, WriteFails, FreeAborts, WalkDone, Connect, Send, Leave
<1>8. CASE UNCHANGED vars
  BY <1>8 DEF vars
<1>9. QED
  BY <1>1, <1>2, <1>3, <1>4, <1>5, <1>6, <1>7, <1>8 DEF Next, Environment, EventStep, StreamStep

\* A chunk that is ahead stays so, of a task that stays.
LEMMA AheadKept ==
    ASSUME TypeInv, FirstOnly, [Next]_vars, NEW t \in DOMAIN tasks, NEW n \in Nat, Ahead(t, n)
    PROVE  Ahead(t, n)'
<1>1. fed \in [DOMAIN Config -> Nat] /\ fed' \in [DOMAIN Config -> Nat]
  BY TypesKept DEF TypeInv, TypeOK, PastTypes
<1>2. 1 \in DOMAIN Config => n <= fed'[1]
  BY <1>1, BuffersKept DEF Ahead
<1>3. tasks[t].buf \in Seq(Chunks) /\ \A j \in DOMAIN tasks[t].buf : n <= tasks[t].buf[j].n
  BY BuffersKept DEF Ahead
<1>4. \A j \in DOMAIN tasks'[t].buf : n <= tasks'[t].buf[j].n
  <2>1. CASE tasks'[t].buf = tasks[t].buf
    BY <1>3, <2>1
  <2>2. CASE PollGet /\ t = current
    <3>1. /\ tasks'[t].buf \in Seq(Chunks) /\ Len(tasks'[t].buf) = Len(tasks[t].buf) - 1
          /\ \A j \in 1..Len(tasks[t].buf) - 1 : tasks'[t].buf[j] = tasks[t].buf[j + 1]
      BY <2>2, ChunkTaken
    <3>2. /\ DOMAIN tasks'[t].buf = 1..Len(tasks[t].buf) - 1
          /\ DOMAIN tasks[t].buf = 1..Len(tasks[t].buf) /\ Len(tasks[t].buf) \in Nat
      BY <1>3, <3>1
    <3>3. \A j \in DOMAIN tasks'[t].buf :
             j + 1 \in DOMAIN tasks[t].buf /\ tasks'[t].buf[j] = tasks[t].buf[j + 1]
      BY <3>1, <3>2
    <3>4. QED
      BY <1>3, <3>3
  <2>3. ASSUME NEW w \in Nat, 1 \in DOMAIN Config,
               tasks'[t].buf \in Seq(Chunks),
               Len(tasks'[t].buf) = Len(tasks[t].buf) + w,
               \A j \in 1..Len(tasks[t].buf) : tasks'[t].buf[j] = tasks[t].buf[j],
               \A j \in 1..Len(tasks[t].buf) + w : j > Len(tasks[t].buf) => tasks'[t].buf[j].n = fed'[1],
               NEW j \in DOMAIN tasks'[t].buf
        PROVE  n <= tasks'[t].buf[j].n
    <3>1. /\ DOMAIN tasks'[t].buf = 1..Len(tasks[t].buf) + w
          /\ DOMAIN tasks[t].buf = 1..Len(tasks[t].buf) /\ Len(tasks[t].buf) \in Nat
      BY <1>3, <2>3
    <3>2. CASE j \in 1..Len(tasks[t].buf)
      BY <1>3, <2>3, <3>1, <3>2
    <3>3. CASE j > Len(tasks[t].buf)
      BY <1>2, <2>3, <3>1, <3>3
    <3>4. QED
      BY <2>3, <3>1, <3>2, <3>3
  <2>4. QED
    BY <2>1, <2>2, <2>3, BuffersKept
<1>5. QED
  BY <1>2, <1>4 DEF Ahead

LEMMA QueuedKept == TypeInv /\ FirstOnly /\ Queued /\ [Next]_vars => Queued'
<1>. SUFFICES ASSUME TypeInv, FirstOnly, Queued, [Next]_vars,
                     NEW t \in DOMAIN tasks', NEW i \in DOMAIN tasks'[t].buf
              PROVE  /\ 1 \in DOMAIN Config => tasks'[t].buf[i].n <= fed'[1]
                     /\ \A j \in DOMAIN tasks'[t].buf :
                           i < j => tasks'[t].buf[i].n <= tasks'[t].buf[j].n
  BY DEF Queued
<1>1. fed \in [DOMAIN Config -> Nat] /\ fed' \in [DOMAIN Config -> Nat]
  BY TypesKept DEF TypeInv, TypeOK, PastTypes
<1>2. t \in DOMAIN tasks
  BY NewTaskEmpty
<1>. DEFINE b == tasks[t].buf
            b1 == tasks'[t].buf
<1>3. b \in Seq(Chunks) /\ (1 \in DOMAIN Config => fed[1] <= fed'[1])
  BY <1>2, BuffersKept
<1>4. /\ DOMAIN b = 1..Len(b) /\ Len(b) \in Nat
      /\ \A k \in 1..Len(b) : b[k].n \in Nat
  <2>1. \A k \in 1..Len(b) : b[k] \in Chunks
    BY <1>3, ElementOfSeq
  <2>2. QED
    BY <1>3, <2>1 DEF Chunks
<1>5. \A k \in DOMAIN b : /\ 1 \in DOMAIN Config => b[k].n <= fed[1]
                          /\ \A j \in DOMAIN b : k < j => b[k].n <= b[j].n
  BY <1>2 DEF Queued
<1>6. \A k \in DOMAIN b : 1 \in DOMAIN Config => b[k].n <= fed'[1]
  BY <1>1, <1>3, <1>4, <1>5
<1>7. \/ b1 = b
      \/ PollGet /\ t = current
      \/ \E w \in Nat :
            /\ 1 \in DOMAIN Config
            /\ b1 \in Seq(Chunks)
            /\ Len(b1) = Len(b) + w
            /\ \A j \in 1..Len(b) : b1[j] = b[j]
            /\ \A j \in 1..Len(b) + w : j > Len(b) => b1[j].n = fed'[1]
  BY <1>2, BuffersKept
<1>8. CASE PollGet /\ t = current
  <2>1. /\ b1 \in Seq(Chunks) /\ Len(b1) = Len(b) - 1
        /\ \A j \in 1..Len(b) - 1 : b1[j] = b[j + 1]
    BY <1>8, ChunkTaken
  <2>. HIDE DEF b, b1
  <2>2. DOMAIN b1 = 1..Len(b) - 1
    BY <2>1
  <2>3. \A k \in DOMAIN b1 : k \in Int /\ k + 1 \in DOMAIN b /\ b1[k] = b[k + 1]
    BY <1>4, <2>1, <2>2
  <2>4. i \in DOMAIN b1
    BY DEF b1
  <2>5. 1 \in DOMAIN Config => b1[i].n <= fed'[1]
    BY <1>6, <2>3, <2>4
  <2>6. ASSUME NEW j \in DOMAIN b1, i < j PROVE b1[i].n <= b1[j].n
    <3>1. /\ i \in Int /\ i + 1 \in DOMAIN b /\ b1[i] = b[i + 1]
          /\ j \in Int /\ j + 1 \in DOMAIN b /\ b1[j] = b[j + 1]
      BY <2>3, <2>4, <2>6
    <3>2. i + 1 < j + 1
      BY <2>6, <3>1
    <3>3. QED
      BY <1>5, <3>1, <3>2
  <2>7. QED
    BY <2>5, <2>6 DEF b1
<1>9. ASSUME NEW w \in Nat, 1 \in DOMAIN Config, b1 \in Seq(Chunks), Len(b1) = Len(b) + w,
             \A j \in 1..Len(b) : b1[j] = b[j],
             \A j \in 1..Len(b) + w : j > Len(b) => b1[j].n = fed'[1]
      PROVE  /\ 1 \in DOMAIN Config => b1[i].n <= fed'[1]
             /\ \A j \in DOMAIN b1 : i < j => b1[i].n <= b1[j].n
  <2>0. i \in DOMAIN b1
    OBVIOUS
  <2>. HIDE DEF b, b1
  <2>1. DOMAIN b1 = 1..Len(b) + w
    BY <1>9
  <2>2. \A k \in DOMAIN b1 : k \in Int /\ (k \in 1..Len(b) \/ k > Len(b))
    BY <1>4, <2>1
  <2>3. fed'[1] \in Nat
    BY <1>1, <1>9
  <2>4. \A k \in DOMAIN b1 : b1[k].n <= fed'[1]
    BY <1>4, <1>6, <1>9, <2>1, <2>2, <2>3
  <2>5. ASSUME NEW j \in DOMAIN b1, i < j PROVE b1[i].n <= b1[j].n
    <3>1. CASE j > Len(b)
      <4>1. b1[j].n = fed'[1]
        BY <1>9, <2>1, <2>5, <3>1
      <4>2. QED
        BY <2>0, <2>4, <4>1
    <3>2. CASE j \in 1..Len(b)
      <4>1. i \in 1..Len(b)
        BY <1>4, <2>0, <2>1, <2>2, <2>5, <3>2
      <4>2. QED
        BY <1>4, <1>5, <1>9, <2>5, <3>2, <4>1
    <3>3. QED
      BY <2>2, <2>5, <3>1, <3>2
  <2>6. QED
    BY <2>0, <2>4, <2>5
<1>10. CASE b1 = b
  BY <1>5, <1>6, <1>10
<1>11. QED
  BY <1>7, <1>8, <1>9, <1>10

LEMMA TakenKept == TypeInv /\ FirstOnly /\ Queued /\ Taken /\ [Next]_vars => Taken'
<1>. SUFFICES ASSUME TypeInv, FirstOnly, Queued, Taken, [Next]_vars, stPc' \in {"walk", "drop"}
              PROVE  Ahead(current, chunk.n)'
  BY DEF Taken
<1>1. CASE PollGet
  <2>. DEFINE b == tasks[current].buf
              b1 == tasks'[current].buf
  <2>1. /\ current \in DOMAIN tasks /\ b \in Seq(Chunks) /\ Len(b) > 0
        /\ b1 \in Seq(Chunks) /\ Len(b1) = Len(b) - 1
        /\ \A j \in 1..Len(b) - 1 : b1[j] = b[j + 1]
        /\ chunk' = b[1]
    BY <1>1, ChunkTaken
  <2>2. \A k \in DOMAIN b : /\ 1 \in DOMAIN Config => b[k].n <= fed[1]
                            /\ \A j \in DOMAIN b : k < j => b[k].n <= b[j].n
    BY <2>1 DEF Queued
  <2>3. fed' = fed /\ current' = current
    BY <1>1 DEF PollGet
  <2>. HIDE DEF b, b1
  <2>4. 1 \in DOMAIN b /\ DOMAIN b = 1..Len(b) /\ DOMAIN b1 = 1..Len(b) - 1 /\ Len(b) \in Nat
    BY <2>1
  <2>5. \A j \in DOMAIN b1 : j + 1 \in DOMAIN b /\ 1 < j + 1 /\ b1[j] = b[j + 1]
    BY <2>1, <2>4
  <2>6. \A j \in DOMAIN b1 : b[1].n <= b1[j].n
    BY <2>2, <2>4, <2>5
  <2>7. 1 \in DOMAIN Config => b[1].n <= fed[1]
    BY <2>2, <2>4
  <2>8. QED
    BY <2>1, <2>3, <2>6, <2>7 DEF Ahead, b1
<1>2. CASE stPc \in {"walk", "drop"} /\ UNCHANGED <<current, chunk>>
  <2>1. Ahead(current, chunk.n)
    BY <1>2 DEF Taken
  <2>2. current \in DOMAIN tasks /\ chunk.n \in Nat
    BY <1>2 DEF TypeInv, TypeOK, Phases, SharedTypes, StreamTypes, Chunks
  <2>3. ASSUME NEW t, t = current, NEW n, n = chunk.n PROVE Ahead(t, n)'
    BY <2>1, <2>2, <2>3, AheadKept
  <2>4. QED
    BY <1>2, <2>3 DEF Ahead
<1>3. QED
  BY <1>1, <1>2, WalkKept

\* What is behind a client's last item: nothing, or what the streamer wrote.
LEMMA GotLast ==
    ASSUME TypeInv, [Next]_vars, NEW c \in Clients
    PROVE  /\ got[c] \in Seq(Items) /\ got'[c] \in Seq(Items)
           /\ \A i \in DOMAIN got[c] : i \in DOMAIN got'[c] /\ got'[c][i] = got[c][i]
           /\ \A i \in DOMAIN got'[c] : i \notin DOMAIN got[c] /\ got'[c][i].task # 0 =>
                 /\ Write /\ got'[c][i].task = current /\ got'[c][i].n = chunk.n
                 /\ \A j \in DOMAIN got'[c] : j # i => j \in DOMAIN got[c] /\ j < i
<1>1. got[c] \in Seq(Items) /\ got'[c] \in Seq(Items)
  BY TypesKept DEF TypeInv, TypeOK, PastTypes
<1>. DEFINE g == got[c]
            g1 == got'[c]
<1>2. DOMAIN g = 1..Len(g) /\ Len(g) \in Nat
  BY <1>1
<1>3. \/ g1 = g
      \/ \E item \in Items :
            /\ g1 = Append(g, item)
            /\ item.task # 0 => Write /\ item.task = current /\ item.n = chunk.n
  BY GotKept
<1>. HIDE DEF g, g1
<1>4. CASE g1 = g
  BY <1>1, <1>4 DEF g, g1
<1>5. ASSUME NEW item \in Items, g1 = Append(g, item),
             item.task # 0 => Write /\ item.task = current /\ item.n = chunk.n
      PROVE  /\ \A i \in DOMAIN g : i \in DOMAIN g1 /\ g1[i] = g[i]
             /\ \A i \in DOMAIN g1 : i \notin DOMAIN g /\ g1[i].task # 0 =>
                   /\ Write /\ g1[i].task = current /\ g1[i].n = chunk.n
                   /\ \A j \in DOMAIN g1 : j # i => j \in DOMAIN g /\ j < i
  <2>1. g \in Seq(Items)
    BY <1>1 DEF g
  <2>2. /\ DOMAIN g1 = 1..Len(g) + 1 /\ g1[Len(g) + 1] = item
        /\ \A i \in 1..Len(g) : g1[i] = g[i]
    BY <1>5, <2>1, Grown
  <2>3. \A i \in DOMAIN g1 : i \notin DOMAIN g => i = Len(g) + 1
    BY <1>2, <2>2
  <2>4. \A i \in DOMAIN g : i \in DOMAIN g1 /\ i < Len(g) + 1
    BY <1>2, <2>2
  <2>5. QED
    BY <1>2, <1>5, <2>2, <2>3, <2>4
<1>6. QED
  BY <1>1, <1>3, <1>4, <1>5 DEF g, g1

LEMMA DeliveredKept ==
    TypeInv /\ FirstOnly /\ Taken /\ Delivered /\ [Next]_vars => Delivered'
<1>. SUFFICES ASSUME TypeInv, FirstOnly, Taken, Delivered, [Next]_vars,
                     NEW c \in Clients, NEW i \in DOMAIN got'[c],
                     NEW t, t = got'[c][i].task, NEW n, n = got'[c][i].n, t # 0
              PROVE  /\ t \in DOMAIN tasks' /\ Ahead(t, n)'
                     /\ stPc' \in {"walk", "drop"} /\ current' = t => n <= chunk'.n
  BY DEF Delivered
<1>1. n \in Nat
  <2>1. got'[c][i] \in Items
    BY GotLast
  <2>2. QED
    BY <2>1 DEF Items
<1>2. /\ t \in DOMAIN tasks /\ Ahead(t, n)
      /\ stPc \in {"walk", "drop"} /\ current = t => n <= chunk.n
  <2>1. CASE i \in DOMAIN got[c]
    <3>1. got[c][i] = got'[c][i]
      BY <2>1, GotLast
    <3>2. QED
      BY <2>1, <3>1 DEF Delivered
  <2>2. CASE i \notin DOMAIN got[c]
    <3>1. Write /\ t = current /\ n = chunk.n
      BY <2>2, GotLast
    <3>2. stPc = "walk" /\ current \in DOMAIN tasks
      BY <3>1, CellFound DEF Write
    <3>3. QED
      BY <1>1, <3>1, <3>2 DEF Taken
  <2>3. QED
    BY <2>1, <2>2
<1>3. t \in DOMAIN tasks'
  BY <1>2, TasksKept
<1>4. Ahead(t, n)'
  BY <1>1, <1>2, AheadKept
<1>5. ASSUME stPc' \in {"walk", "drop"}, current' = t PROVE n <= chunk'.n
  <2>1. CASE PollGet
    <3>1. /\ current \in DOMAIN tasks /\ tasks[current].buf \in Seq(Chunks)
          /\ Len(tasks[current].buf) > 0 /\ chunk' = tasks[current].buf[1]
      BY <2>1, ChunkTaken
    <3>2. 1 \in DOMAIN tasks[current].buf
      BY <3>1
    <3>3. current = t
      BY <1>5, <2>1 DEF PollGet
    <3>4. QED
      BY <1>2, <3>1, <3>2, <3>3 DEF Ahead
  <2>2. CASE stPc \in {"walk", "drop"} /\ UNCHANGED <<current, chunk>>
    BY <1>2, <1>5, <2>2
  <2>3. QED
    BY <1>5, <2>1, <2>2, WalkKept
<1>6. QED
  BY <1>3, <1>4, <1>5

LEMMA OrderKept == TypeInv /\ Delivered /\ ChunksInOrder /\ [Next]_vars => ChunksInOrder'
<1>. SUFFICES ASSUME TypeInv, Delivered, ChunksInOrder, [Next]_vars,
                     NEW c \in Clients, NEW i \in DOMAIN got'[c], NEW j \in DOMAIN got'[c],
                     i < j, got'[c][i].task # 0, got'[c][i].task = got'[c][j].task
              PROVE  got'[c][i].n <= got'[c][j].n
  BY DEF ChunksInOrder
<1>1. got[c] \in Seq(Items) /\ got'[c] \in Seq(Items)
  BY GotLast
<1>2. i \in Nat /\ j \in Nat /\ ~(j < i) /\ i # j
  BY <1>1
<1>3. i \in DOMAIN got[c] /\ got'[c][i] = got[c][i]
  <2>1. i \in DOMAIN got[c]
    <3>. SUFFICES ASSUME i \notin DOMAIN got[c] PROVE FALSE
      OBVIOUS
    <3>1. j # i => j < i
      BY GotLast
    <3>2. QED
      BY <1>2, <3>1
  <2>2. QED
    BY <2>1, GotLast
<1>4. CASE j \in DOMAIN got[c]
  <2>1. got'[c][j] = got[c][j]
    BY <1>4, GotLast
  <2>2. QED
    BY <1>3, <1>4, <2>1 DEF ChunksInOrder
<1>5. CASE j \notin DOMAIN got[c]
  <2>1. Write /\ got'[c][j].task = current /\ got'[c][j].n = chunk.n
    BY <1>5, GotLast
  <2>2. stPc = "walk"
    BY <2>1 DEF Write
  <2>3. got[c][i].task = current /\ got[c][i].task # 0
    BY <1>3, <2>1
  <2>4. QED
    BY <1>3, <2>1, <2>2, <2>3 DEF Delivered
<1>6. QED
  BY <1>4, <1>5

\* A client gets the chunks of a task in the order the channel put them out,
\* whatever buffer, list and descriptor they passed on their way and whoever
\* had the descriptor before.
THEOREM InOrder == Spec => []ChunksInOrder
<1>1. Init => Sorted
  BY DEF Init, Sorted, FirstOnly, Queued, Taken, Delivered, ChunksInOrder, Media
<1>2. TypeInv /\ Sorted /\ [Next]_vars => Sorted'
  BY FirstOnlyKept, QueuedKept, TakenKept, DeliveredKept, OrderKept DEF Sorted
<1>3. Sorted => ChunksInOrder
  BY DEF Sorted
<1>4. QED
  BY <1>1, <1>2, <1>3, TypesHold, PTL DEF Spec

=============================================================================
