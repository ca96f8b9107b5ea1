---------------------------- MODULE KfifoProofs ----------------------------
(***************************************************************************)
(* Proofs about the byte ring, for every size, width and length of a copy. *)
(***************************************************************************)
EXTENDS Kfifo, TLAPS

----------------------------------------------------------------------------
(* Arithmetic modulo a positive number.                                    *)

\* A remainder lies below the modulus.
LEMMA ModRange ==
    ASSUME NEW m \in Nat \ {0}, NEW a \in Int
    PROVE  a % m \in 0..(m - 1) /\ a \div m \in Int
OBVIOUS

\* Division with remainder.
LEMMA ModDef ==
    ASSUME NEW m \in Nat \ {0}, NEW a \in Int
    PROVE  a = m * (a \div m) + (a % m)
OBVIOUS

\* A remainder below the modulus is determined by the class it is in.
LEMMA ModUnique ==
    ASSUME NEW m \in Nat \ {0}, NEW q \in Int, NEW r \in 0..(m - 1)
    PROVE  (q * m + r) % m = r
OBVIOUS

\* A number below the modulus is its own remainder.
LEMMA ModSmall ==
    ASSUME NEW m \in Nat \ {0}, NEW a \in 0..(m - 1)
    PROVE  a % m = a
OBVIOUS

\* Adding or taking away a multiple of m changes nothing.
LEMMA ModShift ==
    ASSUME NEW m \in Nat \ {0}, NEW a \in Int, NEW k \in Int
    PROVE  (a + k * m) % m = a % m
<1> DEFINE q == a \div m
           r == a % m
<1>1. q \in Int /\ r \in 0..(m - 1) /\ a = m * q + r
  BY ModRange, ModDef
<1> HIDE DEF q, r
<1>2. a + k * m = (q + k) * m + r
  BY <1>1
<1>3. ((q + k) * m + r) % m = r
  <2>1. q + k \in Int
    BY <1>1
  <2> QED BY <1>1, <2>1, ModUnique
<1> QED BY <1>2, <1>3 DEF r

----------------------------------------------------------------------------
(* The counters of the ring.                                               *)

\* What the assumption says of the constants, in the types the provers need.
LEMMA Constants ==
    /\ Size \in Nat \ {0} /\ Width \in Nat \ {0} /\ Size < Width
    /\ MaxPut \in 1..Size /\ MaxGet \in 1..Size
BY KfifoAssumption

\* The width of a counter is a multiple of the size of the ring.
LEMMA WidthMultiple == \E m \in Int : Width = m * Size
<1>1. Width = Size * (Width \div Size) + (Width % Size) /\ Width \div Size \in Int
  BY Constants, ModDef, ModRange
<1>2. Width = (Width \div Size) * Size
  BY <1>1, KfifoAssumption
<1> QED BY <1>1, <1>2

\* A counter that moves on by at most the ring's size wraps at most once.
LEMMA Advanced ==
    ASSUME NEW c \in Counter, NEW n \in 0..Size
    PROVE  /\ (c + n) % Width = IF c + n < Width THEN c + n ELSE c + n - Width
           /\ (c + n) % Width \in Counter
<1>1. CASE c + n < Width
  <2>1. c + n \in 0..(Width - 1)
    BY <1>1, Constants DEF Counter
  <2>2. (c + n) % Width = c + n
    BY <2>1, Constants, ModSmall
  <2> QED BY <1>1, <2>1, <2>2 DEF Counter
<1>2. CASE c + n >= Width
  <2>1. c + n - Width \in 0..(Width - 1)
    BY <1>2, Constants DEF Counter
  <2>2. (1 * Width + (c + n - Width)) % Width = c + n - Width
    BY <2>1, Constants, ModUnique
  <2> QED BY <1>2, <2>1, <2>2, Constants DEF Counter
<1> QED BY <1>1, <1>2, Constants DEF Counter

\* in - out, where the counter in is at most one wrap-around ahead of out.
LEMMA UsedIs ==
    ASSUME NEW i \in Counter, NEW o \in Counter
    PROVE  /\ Used(i, o) = IF i >= o THEN i - o ELSE i - o + Width
           /\ Used(i, o) \in Counter
<1>1. CASE i >= o
  <2>1. i - o \in 0..(Width - 1)
    BY <1>1, Constants DEF Counter
  <2>2. (i - o) % Width = i - o
    BY <2>1, Constants, ModSmall
  <2> QED BY <1>1, <2>1, <2>2 DEF Counter, Used
<1>2. CASE i < o
  <2>1. i - o + Width \in 0..(Width - 1)
    BY <1>2, Constants DEF Counter
  <2>2. ((-1) * Width + (i - o + Width)) % Width = i - o + Width
    BY <2>1, Constants, ModUnique
  <2> QED BY <1>2, <2>1, <2>2, Constants DEF Counter, Used
<1> QED BY <1>1, <1>2, Constants DEF Counter

\* size - in + out is what the used bytes leave of the ring.
LEMMA RoomIs ==
    ASSUME NEW i \in Counter, NEW o \in Counter, Used(i, o) <= Size
    PROVE  Room(i, o) = Size - Used(i, o)
<1>1. Size - Used(i, o) \in 0..(Width - 1) /\ Used(i, o) \in Int
  <2>1. Used(i, o) \in Counter
    BY UsedIs
  <2> QED BY <2>1, Constants DEF Counter
<1>2. CASE i >= o
  <2>1. Size - i + o = Size - Used(i, o)
    BY <1>2, UsedIs, Constants DEF Counter
  <2>2. (Size - Used(i, o)) % Width = Size - Used(i, o)
    BY <1>1, Constants, ModSmall
  <2> QED BY <2>1, <2>2 DEF Room
<1>3. CASE i < o
  <2>1. Size - i + o = 1 * Width + (Size - Used(i, o))
    BY <1>3, UsedIs, Constants DEF Counter
  <2>2. (1 * Width + (Size - Used(i, o))) % Width = Size - Used(i, o)
    BY <1>1, Constants, ModUnique
  <2> QED BY <2>1, <2>2 DEF Room
<1> QED BY <1>2, <1>3 DEF Counter

\* Room never exceeds a counter, whatever the counters are.
LEMMA RoomType ==
    ASSUME NEW i \in Counter, NEW o \in Counter
    PROVE  Room(i, o) \in Counter
BY Constants, ModRange DEF Room, Counter

----------------------------------------------------------------------------
(* The slots of the ring.                                                  *)

\* x & (size - 1) is an offset in the buffer.
LEMMA SlotType ==
    ASSUME NEW x \in Int
    PROVE  Slot(x) \in Slots
BY Constants, ModRange DEF Slot, Slots

\* The slot of a counter survives the wrap-around of the counter.
LEMMA SlotWrap ==
    ASSUME NEW x \in Int
    PROVE  Slot(x - Width) = Slot(x) /\ Slot(x + Width) = Slot(x)
<1>1. PICK m \in Int : Width = m * Size
  BY WidthMultiple
<1>2. x - Width = x + (-m) * Size /\ x + Width = x + m * Size /\ -m \in Int
  BY <1>1, Constants
<1> QED BY <1>2, Constants, ModShift, ZenonT(40) DEF Slot

\* The slot that is d places after x is found d places after x's slot, and d
\* is found again from the two.
LEMMA SlotDistance ==
    ASSUME NEW x \in Int, NEW y \in Int, y - x \in -Size..(Size - 1)
    PROVE  Slot(Slot(y) - x) = IF y >= x THEN y - x ELSE y - x + Size
<1> DEFINE q == y \div Size
           r == y % Size
<1>1. q \in Int /\ r \in 0..(Size - 1) /\ y = Size * q + r
  BY Constants, ModRange, ModDef
<1> HIDE DEF q, r
<1>2. Slot(y) - x = (y - x) + (-q) * Size /\ -q \in Int /\ y - x \in Int
  BY <1>1, Constants DEF Slot, r
<1>3. Slot(Slot(y) - x) = Slot(y - x)
  BY <1>2, Constants, ModShift DEF Slot
<1>4. CASE y >= x
  <2>1. y - x \in 0..(Size - 1)
    BY <1>4, Constants
  <2> QED BY <1>3, <1>4, <2>1, Constants, ModSmall DEF Slot
<1>5. CASE y < x
  <2>1. y - x + Size \in 0..(Size - 1)
    BY <1>5, Constants
  <2>2. ((-1) * Size + (y - x + Size)) % Size = y - x + Size
    BY <2>1, Constants, ModUnique
  <2> QED BY <1>3, <1>5, <2>1, <2>2, Constants DEF Slot
<1> QED BY <1>4, <1>5

\* Fewer than Size places apart, two slots differ.
LEMMA SlotsDiffer ==
    ASSUME NEW x \in Int, NEW y \in Int, y > x, y - x < Size
    PROVE  Slot(x) # Slot(y)
<1>1. Slot(Slot(y) - x) = y - x
  BY SlotDistance, Constants
<1>2. Slot(Slot(x) - x) = 0
  BY SlotDistance, Constants
<1> QED BY <1>1, <1>2
----------------------------------------------------------------------------
(* Types.                                                                  *)

\* The initial state of kfifo_alloc has the types.
LEMMA InitTypeOK == Init => TypeOK
BY Constants DEF Init, TypeOK, Counter, Slots, NotLoaded, Reset

\* The macro min gives one of two numbers, and exceeds neither.
LEMMA LeastType ==
    ASSUME NEW a \in Nat, NEW b \in Nat
    PROVE  Least(a, b) \in Nat /\ Least(a, b) <= a /\ Least(a, b) <= b
BY DEF Least

\* No step of either thread breaks a type.
LEMMA NextTypeOK == TypeOK /\ [Next]_vars => TypeOK'
<1> SUFFICES ASSUME TypeOK, [Next]_vars PROVE TypeOK'
  OBVIOUS
<1> USE DEF TypeOK, prod, cons
<1>1. CASE PutCall
  BY <1>1, Constants DEF PutCall
<1>2. CASE PutLoadIn
  BY <1>2 DEF PutLoadIn
<1>3. CASE PutLoadOut
  BY <1>3 DEF PutLoadOut
<1>4. CASE PutRoom
  <2>1. pIn \in Counter /\ pOut \in Counter
    BY <1>4 DEF PutRoom
  <2>2. Room(pIn, pOut) \in Nat
    BY <2>1, RoomType, Constants DEF Counter
  <2>3. pLen' \in 0..pWant
    BY <1>4, <2>2, LeastType, Constants DEF PutRoom
  <2>4. pLen' \in 0..MaxPut
    BY <2>3, Constants
  <2> QED BY <1>4, <2>3, <2>4 DEF PutRoom
<1>5. CASE PutCopy
  <2>1. PICK base \in {pIn, in} :
          mem' = [i \in Slots |-> IF Slot(i - base) < pLen
                                  THEN wr + 1 + Slot(i - base) ELSE mem[i]]
    BY <1>5 DEF PutCopy
  <2>2. ASSUME NEW i \in Slots
        PROVE  wr + 1 + Slot(i - base) \in Nat
    <3>1. i - base \in Int
      BY <1>5, Constants DEF Slots, Counter, PutCopy
    <3>2. Slot(i - base) \in Nat
      BY <3>1, SlotType, Constants DEF Slots
    <3> QED BY <3>2
  <2>3. mem' \in [Slots -> Nat]
    BY <2>1, <2>2
  <2> QED BY <1>5, <2>3 DEF PutCopy
<1>6. CASE PutAddLoad
  BY <1>6 DEF PutAddLoad, Counter, NotLoaded
<1>7. CASE PutStore
  <2>1. in' \in Counter
    BY <1>7, Constants, ModRange DEF PutStore, Counter
  <2>2. pWant' \in 0..MaxPut /\ pLen' \in 0..MaxPut
    BY <1>7, Constants DEF PutStore
  <2>3. wr' \in Nat
    BY <1>7, Constants DEF PutStore
  <2> QED BY <1>7, <2>1, <2>2, <2>3 DEF PutStore
<1>8. CASE GetCall
  BY <1>8 DEF GetCall
<1>9. CASE GetLen
  <2>1. Used(in, out) \in Nat
    BY UsedIs, Constants DEF Counter
  <2>2. cLen' \in 0..MaxGet
    BY <1>9, <2>1, LeastType, Constants DEF GetLen
  <2> QED BY <1>9, <2>2 DEF GetLen
<1>10. CASE GetCopy
  <2>1. ASSUME NEW k \in 1..cLen PROVE mem[Slot(out + k - 1)] \in Nat
    <3>1. out + k - 1 \in Int
      BY Constants DEF Counter
    <3> QED BY <3>1, SlotType
  <2>2. cBuf' \in Seq(Nat)
    BY <1>10, <2>1 DEF GetCopy
  <2>3. rd' \in Nat
    BY <1>10, Constants DEF GetCopy, Handed
  <2> QED BY <1>10, <2>2, <2>3 DEF GetCopy
<1>11. CASE GetAdvance
  <2>1. out' \in Counter
    BY <1>11, Constants, ModRange DEF GetAdvance, Counter
  <2> QED BY <1>11, <2>1 DEF GetAdvance
<1>12. CASE GetCompare
  BY <1>12 DEF GetCompare, Reset
<1>13. CASE GetResetOut
  <2>1. 0 \in Counter
    BY Constants DEF Counter
  <2> QED BY <1>13, <2>1 DEF GetResetOut, Reset
<1>14. CASE GetResetIn
  <2>1. 0 \in Counter
    BY Constants DEF Counter
  <2> QED BY <1>14, <2>1 DEF GetResetIn, Reset
<1>15. CASE UNCHANGED vars
  BY <1>15 DEF vars
<1> QED
  BY <1>1, <1>2, <1>3, <1>4, <1>5, <1>6, <1>7, <1>8, <1>9, <1>10, <1>11,
     <1>12, <1>13, <1>14, <1>15 DEF Next, PutStep, GetStep

\* However gets and puts interleave, and even once a put has met a reset, the
\* counters of kfifo.c stay within their width and no copy of __kfifo_put or
\* __kfifo_get is longer than its caller's buffer.
THEOREM TypeCorrect == Spec => []TypeOK
<1>1. Init => TypeOK
  BY InitTypeOK
<1>2. TypeOK /\ [Next]_vars => TypeOK'
  BY NextTypeOK
<1> QED BY <1>1, <1>2, PTL DEF Spec
----------------------------------------------------------------------------
(* How puts and gets move the counters.                                    *)

\* Storing in advanced by n makes n more bytes used.
LEMMA UsedPut ==
    ASSUME NEW i \in Counter, NEW o \in Counter, NEW n \in Nat,
           Used(i, o) + n <= Size
    PROVE  Used((i + n) % Width, o) = Used(i, o) + n
<1> DEFINE c == (i + n) % Width
<1>1. n \in 0..Size
  BY UsedIs, Constants DEF Counter
<1>2. c \in Counter /\ c = IF i + n < Width THEN i + n ELSE i + n - Width
  BY <1>1, Advanced
<1> HIDE DEF c
<1>3. Used(c, o) = IF c >= o THEN c - o ELSE c - o + Width
  BY <1>2, UsedIs
<1>4. Used(i, o) = IF i >= o THEN i - o ELSE i - o + Width
  BY UsedIs
<1>5. Used(c, o) = Used(i, o) + n
  BY <1>1, <1>2, <1>3, <1>4, Constants DEF Counter
<1> QED BY <1>5 DEF c

\* Storing out advanced by n makes n bytes fewer used.
LEMMA UsedGet ==
    ASSUME NEW i \in Counter, NEW o \in Counter, NEW n \in Nat,
           n <= Used(i, o), Used(i, o) <= Size
    PROVE  Used(i, (o + n) % Width) = Used(i, o) - n
<1> DEFINE c == (o + n) % Width
<1>1. n \in 0..Size
  BY UsedIs, Constants DEF Counter
<1>2. c \in Counter /\ c = IF o + n < Width THEN o + n ELSE o + n - Width
  BY <1>1, Advanced
<1> HIDE DEF c
<1>3. Used(i, c) = IF i >= c THEN i - c ELSE i - c + Width
  BY <1>2, UsedIs
<1>4. Used(i, o) = IF i >= o THEN i - o ELSE i - o + Width
  BY UsedIs
<1>5. Used(i, c) = Used(i, o) - n
  BY <1>1, <1>2, <1>3, <1>4, Constants DEF Counter
<1> QED BY <1>5 DEF c

\* Offsets counted from in are offsets counted from out, past the used bytes.
LEMMA SlotFromOut ==
    ASSUME NEW i \in Counter, NEW o \in Counter, NEW k \in Int
    PROVE  Slot(i + k) = Slot(o + Used(i, o) + k)
<1>1. CASE i >= o
  <2>1. i + k = o + Used(i, o) + k
    BY <1>1, UsedIs, Constants DEF Counter
  <2> QED BY <2>1
<1>2. CASE i < o
  <2>1. o + Used(i, o) + k = (i + k) + Width /\ i + k \in Int
    BY <1>2, UsedIs, Constants DEF Counter
  <2> QED BY <2>1, SlotWrap
<1> QED BY <1>1, <1>2 DEF Counter

\* The slots of used bytes are not among the free ones that follow them.
LEMMA UsedSlotsKept ==
    ASSUME NEW i \in Counter, NEW o \in Counter, Used(i, o) <= Size,
           NEW j \in 0..(Used(i, o) - 1)
    PROVE  Slot(Slot(o + j) - i) = j - Used(i, o) + Size
<1> DEFINE y == i + (j - Used(i, o))
<1>1. Used(i, o) \in Int /\ j \in Int /\ i \in Int /\ o \in Int
  BY UsedIs, Constants DEF Counter
<1>2. Slot(y) = Slot(o + j)
  <2>1. j - Used(i, o) \in Int /\ o + Used(i, o) + (j - Used(i, o)) = o + j
    BY <1>1
  <2> QED BY <2>1, SlotFromOut
<1>3. y \in Int /\ y - i \in -Size..(Size - 1) /\ y < i /\ y - i = j - Used(i, o)
  BY <1>1, Constants
<1> HIDE DEF y
<1>4. Slot(Slot(y) - i) = y - i + Size
  BY <1>1, <1>3, SlotDistance
<1> QED BY <1>2, <1>3, <1>4
----------------------------------------------------------------------------
(* Safety until the first put that meets a reset.                          *)

Good == DataAtOffsets /\ ProducerInv /\ ConsumerInv

\* What every step below starts from.
LEMMA GoodFacts ==
    ASSUME TypeOK
    PROVE  /\ in \in Counter /\ out \in Counter /\ Used(in, out) \in Nat
           /\ pLen \in Nat /\ cLen \in Nat /\ wr \in Nat /\ rd \in Nat
BY UsedIs, Constants DEF TypeOK, Counter

\* The empty ring satisfies the inductive invariant.
LEMMA InitGood == Init => Inductive
<1> SUFFICES ASSUME Init PROVE Good
  BY DEF Inductive, Good
<1>1. in = 0 /\ out = 0 /\ Used(0, 0) = 0
  <2>1. 0 \in Counter
    BY Constants DEF Counter
  <2> QED BY <2>1, UsedIs DEF Init
<1>2. DataAtOffsets
  BY <1>1, Constants DEF DataAtOffsets, Init, Base
<1>3. ProducerInv /\ ConsumerInv
  BY DEF ProducerInv, ConsumerInv, Init, Reset
<1> QED BY <1>2, <1>3 DEF Good

\* A call of kfifo_put keeps the invariant.
LEMMA PutCallGood ==
    ASSUME TypeOK, Good, PutCall, ~overlap'
    PROVE  Good'
<1>1. cPc \notin Reset
  BY DEF PutCall
<1>2. DataAtOffsets'
  BY DEF PutCall, Good, DataAtOffsets, Base, Used, Slot, cons
<1>3. ProducerInv'
  BY DEF PutCall, Good, ProducerInv
<1>4. ConsumerInv'
  BY <1>1 DEF PutCall, Good, ConsumerInv, cons, Used
<1> QED BY <1>2, <1>3, <1>4 DEF Good

\* Only the producer moves in, so what it loaded is up to date.
LEMMA PutLoadInGood ==
    ASSUME TypeOK, Good, PutLoadIn
    PROVE  Good'
<1>1. DataAtOffsets'
  BY DEF PutLoadIn, Good, DataAtOffsets, Base, Used, Slot, cons
<1>2. ProducerInv'
  BY DEF PutLoadIn, Good, ProducerInv, Used
<1>3. ConsumerInv'
  BY DEF PutLoadIn, Good, ConsumerInv, cons, Used
<1> QED BY <1>1, <1>2, <1>3 DEF Good

\* The loaded out may only lag behind, so room is never overestimated.
LEMMA PutLoadOutGood ==
    ASSUME TypeOK, Good, PutLoadOut
    PROVE  Good'
<1>1. DataAtOffsets'
  BY DEF PutLoadOut, Good, DataAtOffsets, Base, Used, Slot, cons
<1>2. Used(in, out) <= Size
  <2>1. cPc \notin {"resetOut", "resetIn"}
    BY DEF PutLoadOut, Good, ConsumerInv, Reset
  <2> QED BY <2>1 DEF Good, DataAtOffsets
<1>3. ProducerInv'
  BY <1>2, GoodFacts DEF PutLoadOut, Good, ProducerInv, Used
<1>4. ConsumerInv'
  BY DEF PutLoadOut, Good, ConsumerInv, cons, Used
<1> QED BY <1>1, <1>3, <1>4 DEF Good

\* The computed len fits into the free part of the ring.
LEMMA PutRoomGood ==
    ASSUME TypeOK, Good, PutRoom
    PROVE  Good'
<1>1. DataAtOffsets'
  BY DEF PutRoom, Good, DataAtOffsets, Base, Used, Slot, cons
<1>2. pIn = in /\ pOut \in Counter /\ pWant \in Nat
      /\ Used(in, out) <= Used(in, pOut) /\ Used(in, pOut) <= Size
  BY DEF PutRoom, Good, ProducerInv, TypeOK
<1>3. Used(in, out) \in Nat /\ Used(in, pOut) \in Nat /\ Size \in Nat
  BY <1>2, GoodFacts, UsedIs, Constants DEF Counter
<1>4. Room(pIn, pOut) = Size - Used(in, pOut)
  BY <1>2, GoodFacts, RoomIs
<1>5. Used(in, out) + pLen' <= Size
  BY <1>2, <1>3, <1>4, LeastType DEF PutRoom
<1>6. ProducerInv'
  BY <1>2, <1>5 DEF PutRoom, ProducerInv, Used
<1>7. ConsumerInv'
  BY DEF PutRoom, Good, ConsumerInv, cons, Used
<1> QED BY <1>1, <1>6, <1>7 DEF Good

\* The copy into the ring leaves the used bytes alone and stands ready to be
\* published.
LEMMA PutCopyGood ==
    ASSUME TypeOK, Good, PutCopy
    PROVE  Good'
<1>1. pIn = in /\ Used(in, out) + pLen <= Size /\ cPc \notin Reset
  BY DEF PutCopy, Good, ProducerInv, ConsumerInv
<1>2. mem' = [i \in Slots |-> IF Slot(i - in) < pLen
                              THEN wr + 1 + Slot(i - in) ELSE mem[i]]
  BY <1>1 DEF PutCopy
<1>3. DataAtOffsets
  BY DEF Good
<1>4. ASSUME NEW j \in 0..(Used(in, out) - 1)
      PROVE  mem'[Slot(out + j)] = mem[Slot(out + j)]
  <2>1. Used(in, out) <= Size /\ out + j \in Int
    BY <1>1, <1>3, GoodFacts DEF DataAtOffsets, Reset, Counter
  <2>2. Slot(Slot(out + j) - in) = j - Used(in, out) + Size
    BY <2>1, GoodFacts, UsedSlotsKept
  <2>3. ~(Slot(Slot(out + j) - in) < pLen)
    BY <1>1, <2>2, GoodFacts, Constants
  <2>4. Slot(out + j) \in Slots
    BY <2>1, SlotType
  <2> QED BY <1>2, <2>3, <2>4
<1>5. ASSUME NEW k \in 0..(pLen - 1)
      PROVE  mem'[Slot(in + k)] = wr + 1 + k
  <2>1. in \in Int /\ in + k \in Int /\ (in + k) - in = k /\ k \in -Size..(Size - 1)
    BY <1>1, GoodFacts, Constants DEF Counter
  <2>2. Slot(Slot(in + k) - in) = k
    BY <2>1, GoodFacts, SlotDistance
  <2>3. Slot(in + k) \in Slots
    BY <2>1, SlotType
  <2> QED BY <1>2, <2>2, <2>3, GoodFacts
<1>6. DataAtOffsets'
  BY <1>1, <1>3, <1>4 DEF PutCopy, DataAtOffsets, Base, Used, Slot, cons, Reset
<1>7. ProducerInv'
  BY <1>1, <1>5 DEF PutCopy, ProducerInv, Used, Slot
<1>8. ConsumerInv'
  BY DEF PutCopy, Good, ConsumerInv, cons, Used
<1> QED BY <1>6, <1>7, <1>8 DEF Good

\* The load of fifo->in += len finds the in of the copy.
LEMMA PutAddLoadGood ==
    ASSUME TypeOK, Good, PutAddLoad
    PROVE  Good'
<1>1. DataAtOffsets'
  BY DEF PutAddLoad, Good, DataAtOffsets, Base, Used, Slot, cons
<1>2. ProducerInv'
  BY DEF PutAddLoad, Good, ProducerInv, Used, Slot
<1>3. ConsumerInv'
  BY DEF PutAddLoad, Good, ConsumerInv, cons, Used
<1> QED BY <1>1, <1>2, <1>3 DEF Good

\* The store into in publishes exactly the bytes just copied.
LEMMA PutStoreGood ==
    ASSUME TypeOK, Good, PutStore
    PROVE  Good'
<1>1. /\ pIn = in /\ Used(in, out) + pLen <= Size /\ cPc \notin Reset
      /\ \A k \in 0..pLen-1 : mem[Slot(in + k)] = wr + 1 + k
  BY DEF PutStore, Good, ProducerInv, ConsumerInv
<1>2. in' = (in + pLen) % Width /\ out' = out /\ mem' = mem /\ wr' = wr + pLen
      /\ rd' = rd /\ cPc' = cPc /\ cLen' = cLen
  BY <1>1 DEF PutStore, cons
<1>3. Used((in + pLen) % Width, out) = Used(in, out) + pLen
  BY <1>1, GoodFacts, UsedPut
<1>4. Used(in', out') = Used(in, out) + pLen
  BY <1>2, <1>3 DEF Used
<1>5. /\ Used(in, out) = wr - Base
      /\ \A i \in 0..Used(in, out)-1 : mem[Slot(out + i)] = Base + 1 + i
  BY <1>1 DEF Good, DataAtOffsets, Reset
<1>6. Base' = Base /\ Base \in Int
  BY <1>2, GoodFacts DEF Base
<1>7. ASSUME NEW i \in 0..(Used(in, out) + pLen - 1)
      PROVE  mem[Slot(out + i)] = Base + 1 + i
  <2>1. CASE i < Used(in, out)
    BY <1>5, <2>1, GoodFacts
  <2>2. CASE i >= Used(in, out)
    <3> DEFINE k == i - Used(in, out)
    <3>1. k \in 0..(pLen - 1) /\ out + Used(in, out) + k = out + i
      BY <2>2, GoodFacts DEF Counter
    <3>2. Slot(in + k) = Slot(out + i)
      BY <3>1, GoodFacts, SlotFromOut
    <3>3. mem[Slot(in + k)] = wr + 1 + k
      BY <1>1, <3>1
    <3>4. wr + 1 + k = Base + 1 + i
      BY <1>5, <1>6, GoodFacts
    <3> QED BY <3>2, <3>3, <3>4
  <2> QED BY <2>1, <2>2, GoodFacts
<1>8. DataAtOffsets'
  <2>1. Used(in', out') = wr' - Base'
    BY <1>2, <1>4, <1>5, <1>6, GoodFacts
  <2>2. \A i \in 0..(Used(in', out') - 1) : mem'[Slot(out' + i)] = Base' + 1 + i
    <3> SUFFICES ASSUME NEW i \in 0..(Used(in', out') - 1)
                 PROVE  mem'[Slot(out' + i)] = Base' + 1 + i
      OBVIOUS
    <3>1. i \in 0..(Used(in, out) + pLen - 1)
      BY <1>4, GoodFacts
    <3> QED BY <1>2, <1>6, <1>7, <3>1
  <2> QED BY <1>1, <1>4, <2>1, <2>2 DEF DataAtOffsets, Slot
<1>9. ProducerInv'
  BY DEF PutStore, ProducerInv
<1>10. ConsumerInv'
  BY <1>1, <1>2, <1>4, GoodFacts DEF Good, ConsumerInv, Reset
<1> QED BY <1>8, <1>9, <1>10 DEF Good

\* kfifo_len > 0 is still true when kfifo_get starts: nobody else takes.
LEMMA GetCallGood ==
    ASSUME TypeOK, Good, GetCall
    PROVE  Good'
<1>1. DataAtOffsets'
  BY DEF GetCall, Good, DataAtOffsets, Base, Used, Slot
<1>2. ProducerInv'
  BY DEF GetCall, Good, ProducerInv, prod, Used, Slot
<1>3. ConsumerInv'
  BY DEF GetCall, ConsumerInv, Used, Reset
<1> QED BY <1>1, <1>2, <1>3 DEF Good

\* The len of a get is at most what is used, whatever a put adds meanwhile.
LEMMA GetLenGood ==
    ASSUME TypeOK, Good, GetLen
    PROVE  Good'
<1>1. DataAtOffsets'
  BY DEF GetLen, Good, DataAtOffsets, Base, Used, Slot
<1>2. ProducerInv'
  BY DEF GetLen, Good, ProducerInv, prod, Used, Slot
<1>3. Used(in, out) > 0
  BY DEF GetLen, Good, ConsumerInv
<1>4. cLen' > 0 /\ cLen' <= Used(in, out)
  BY <1>3, GoodFacts, Constants DEF GetLen, Least
<1>5. ConsumerInv'
  BY <1>4 DEF GetLen, ConsumerInv, Used, Reset
<1> QED BY <1>1, <1>2, <1>5 DEF Good

\* The copy out of the ring disturbs nothing.
LEMMA GetCopyGood ==
    ASSUME TypeOK, Good, GetCopy
    PROVE  Good'
<1>0. rd <= wr
  BY GoodFacts DEF GetCopy, Good, DataAtOffsets, Base, Reset
<1>1. rd' = rd + cLen /\ cLen' = cLen /\ Base' = Base
  BY <1>0, GoodFacts DEF GetCopy, Handed, Base
<1>2. DataAtOffsets'
  BY <1>1 DEF GetCopy, Good, DataAtOffsets, Used, Slot
<1>3. ProducerInv'
  BY DEF GetCopy, Good, ProducerInv, prod, Used, Slot
<1>4. ConsumerInv'
  BY <1>1 DEF GetCopy, Good, ConsumerInv, Used, Reset
<1> QED BY <1>2, <1>3, <1>4 DEF Good

\* Moving out frees the slots just read and renumbers the bytes behind them.
LEMMA GetAdvanceGood ==
    ASSUME TypeOK, Good, GetAdvance
    PROVE  Good'
<1>1. cLen > 0 /\ cLen <= Used(in, out)
  BY DEF GetAdvance, Good, ConsumerInv
<1>2. /\ Used(in, out) = wr - Base /\ Used(in, out) <= Size
      /\ \A i \in 0..Used(in, out)-1 : mem[Slot(out + i)] = Base + 1 + i
      /\ Base = rd - cLen
  BY DEF GetAdvance, Good, DataAtOffsets, Base
<1>3. /\ out' = (out + cLen) % Width /\ out' \in Counter
      /\ in' = in /\ mem' = mem /\ wr' = wr /\ rd' = rd /\ Base' = rd
      /\ cPc' = "compare"
  <2>1. cLen \in 0..Size
    BY <1>1, <1>2, GoodFacts, Constants
  <2> QED BY <2>1, Advanced, GoodFacts DEF GetAdvance, Base
<1>4. Used(in', out') = Used(in, out) - cLen
  BY <1>1, <1>2, <1>3, GoodFacts, UsedGet
<1>5. ASSUME NEW i \in 0..(Used(in', out') - 1)
      PROVE  mem'[Slot(out' + i)] = Base' + 1 + i
  <2>1. i + cLen \in 0..(Used(in, out) - 1)
    BY <1>1, <1>4, GoodFacts
  <2>2. mem[Slot(out + (i + cLen))] = Base + 1 + (i + cLen)
    BY <1>2, <2>1
  <2>3. Slot(out' + i) = Slot(out + (i + cLen))
    <3>1. out' = out + cLen \/ out' = out + cLen - Width
      <4>1. cLen \in 0..Size
        BY <1>1, <1>2, GoodFacts, Constants
      <4> QED BY <1>3, <4>1, Advanced, GoodFacts
    <3>2. CASE out' = out + cLen
      BY <3>2, GoodFacts DEF Counter
    <3>3. CASE out' = out + cLen - Width
      <4>1. out' + i = (out + (i + cLen)) - Width /\ out + (i + cLen) \in Int
        BY <3>3, GoodFacts, Constants DEF Counter
      <4> QED BY <4>1, SlotWrap
    <3> QED BY <3>1, <3>2, <3>3
  <2>4. Base + 1 + (i + cLen) = rd + 1 + i
    BY <1>2, GoodFacts
  <2> QED BY <1>3, <2>2, <2>3, <2>4
<1>6. DataAtOffsets'
  <2>1. Used(in', out') = wr' - Base' /\ Used(in', out') <= Size
    BY <1>1, <1>2, <1>3, <1>4, GoodFacts, Constants
  <2> QED BY <1>5, <2>1 DEF DataAtOffsets, Slot
<1>7. ProducerInv'
  <2>1. Used(in', out') <= Used(in, out)
    BY <1>1, <1>4, GoodFacts
  <2>2. UNCHANGED prod
    BY DEF GetAdvance
  <2>3. ASSUME pOut # NotLoaded, pPc = "load"
        PROVE  Used(in', out') <= Used(in', pOut) /\ Used(in', pOut) <= Size
    <3>1. pOut \in Counter /\ Used(in, out) <= Used(in, pOut) /\ Used(in, pOut) <= Size
      BY <2>3 DEF Good, ProducerInv, TypeOK
    <3>2. Used(in, pOut) \in Nat
      BY <3>1, GoodFacts, UsedIs, Constants DEF Counter
    <3> QED BY <1>1, <1>3, <1>4, <3>1, <3>2, GoodFacts
  <2>4. ASSUME Used(in, out) + pLen <= Size PROVE Used(in', out') + pLen <= Size
    BY <1>1, <1>4, <2>4, GoodFacts, Constants
  <2> QED BY <1>3, <2>2, <2>3, <2>4 DEF Good, ProducerInv, prod, Slot
<1>8. ConsumerInv'
  BY <1>3 DEF ConsumerInv, Reset
<1> QED BY <1>6, <1>7, <1>8 DEF Good

\* An empty ring that no put is inside holds nothing to be lost by a reset.
LEMMA GetCompareGood ==
    ASSUME TypeOK, Good, GetCompare, ~overlap'
    PROVE  Good'
<1>1. DataAtOffsets'
  BY DEF GetCompare, Good, DataAtOffsets, Base, Used, Slot
<1>2. ProducerInv'
  BY DEF GetCompare, Good, ProducerInv, prod, Used, Slot
<1>3. ConsumerInv'
  <2>1. CASE in # out
    BY <2>1 DEF GetCompare, ConsumerInv, Reset
  <2>2. CASE in = out
    <3>1. pPc = "idle" /\ cPc' = "reset"
      BY <2>2 DEF GetCompare
    <3>2. wr = rd
      <4>1. Used(in, out) = wr - rd
        BY DEF GetCompare, Good, DataAtOffsets, Base
      <4>2. Used(in, out) = 0
        BY <2>2, GoodFacts, UsedIs, Constants DEF Counter
      <4> QED BY <4>1, <4>2, GoodFacts
    <3> QED BY <2>2, <3>1, <3>2 DEF GetCompare, ConsumerInv, prod, Reset
  <2> QED BY <2>1, <2>2
<1> QED BY <1>1, <1>2, <1>3 DEF Good

\* Both stores of the reset, in either order.
LEMMA GetResetGood ==
    ASSUME TypeOK, Good, GetResetOut \/ GetResetIn
    PROVE  Good'
<1>1. pPc = "idle" /\ wr = rd /\ UNCHANGED <<mem, prod, cLen, wr, rd>>
  BY DEF GetResetOut, GetResetIn, Good, ConsumerInv, Reset
<1>2. \/ cPc' = "resetIn" /\ out' = 0
      \/ cPc' = "resetOut" /\ in' = 0
      \/ cPc' = "idle" /\ in' = 0 /\ out' = 0
  BY DEF GetResetOut, GetResetIn, Good, ConsumerInv
<1>3. DataAtOffsets'
  <2>1. CASE cPc' \in {"resetIn", "resetOut"}
    BY <2>1 DEF DataAtOffsets
  <2>2. CASE cPc' = "idle"
    <3>1. in' = 0 /\ out' = 0 /\ 0 \in Counter
      BY <1>2, <2>2, Constants DEF Counter
    <3>2. Used(in', out') = 0
      BY <3>1, UsedIs
    <3>3. wr' - Base' = 0
      BY <1>1, <2>2, GoodFacts DEF Base
    <3> QED BY <3>2, <3>3, Constants DEF DataAtOffsets
  <2> QED BY <1>2, <2>1, <2>2
<1>4. ProducerInv'
  BY <1>1 DEF Good, ProducerInv, prod
<1>5. ConsumerInv'
  BY <1>1, <1>2 DEF ConsumerInv, prod, Reset
<1> QED BY <1>3, <1>4, <1>5 DEF Good

\* Every step keeps the inductive invariant.
LEMMA NextInductive == TypeOK /\ Inductive /\ [Next]_vars => Inductive'
<1> SUFFICES ASSUME TypeOK, Inductive, [Next]_vars, ~overlap'
             PROVE  Good'
  BY DEF Inductive, Good
<1>1. ~overlap
  BY DEF Next, PutStep, GetStep, vars, PutCall, PutLoadIn, PutLoadOut, PutRoom,
         PutCopy, PutAddLoad, PutStore, GetCall, GetLen, GetCopy, GetAdvance,
         GetCompare, GetResetOut, GetResetIn
<1>2. Good
  BY <1>1 DEF Inductive, Good
<1>3. CASE Next
  BY <1>1, <1>2, <1>3, PutCallGood, PutLoadInGood, PutLoadOutGood, PutRoomGood,
     PutCopyGood, PutAddLoadGood, PutStoreGood, GetCallGood, GetLenGood,
     GetCopyGood, GetAdvanceGood, GetCompareGood, GetResetGood
     DEF Next, PutStep, GetStep
<1>4. CASE UNCHANGED vars
  BY <1>2, <1>4 DEF vars, prod, cons, Good, DataAtOffsets, ProducerInv,
     ConsumerInv, Base, Used, Slot, Reset
<1> QED BY <1>3, <1>4

\* The inductive invariant holds in every reachable state.
THEOREM Invariance == Spec => [](TypeOK /\ Inductive)
<1>1. Init => TypeOK /\ Inductive
  BY InitTypeOK, InitGood
<1>2. TypeOK /\ Inductive /\ [Next]_vars => TypeOK' /\ Inductive'
  BY NextTypeOK, NextInductive
<1> QED BY <1>1, <1>2, PTL DEF Spec

\* Until a put meets the reset of kfifo_get, the bytes between the offsets in
\* and out are the accepted bytes not yet extracted, in order.
THEOREM DataStaysIntact == Spec => []DataIntact
<1>1. Inductive => DataIntact
  BY DEF Inductive, DataIntact
<1> QED BY <1>1, Invariance, PTL

\* Until then no byte of the ring is copied in and copied out at once, though
\* neither thread takes a lock.
THEOREM RaceFree == Spec => []NoDataRace
<1>1. ASSUME TypeOK, Inductive PROVE NoDataRace
  <2> SUFFICES ASSUME ~overlap, pPc = "copy", cPc = "copy",
                      NEW i \in 0..(pLen - 1), NEW j \in 0..(cLen - 1)
               PROVE  Slot(pIn + i) # Slot(out + j)
    BY <1>1 DEF NoDataRace, PutSlots, GetSlots
  <2>1. /\ pIn = in /\ Used(in, out) + pLen <= Size /\ cLen <= Used(in, out)
    BY <1>1 DEF Inductive, ProducerInv, ConsumerInv
  <2>2. i \in Int /\ j \in Int /\ in \in Int /\ out \in Int
        /\ pLen \in Int /\ cLen \in Int /\ Used(in, out) \in Int
    BY <1>1, GoodFacts DEF Counter
  <2>3. Slot(in + i) = Slot(out + Used(in, out) + i)
    BY <1>1, <2>2, GoodFacts, SlotFromOut
  <2> DEFINE x == out + j
             y == out + Used(in, out) + i
  <2>4. x \in Int /\ y \in Int /\ y > x /\ y - x < Size
    BY <2>1, <2>2, Constants
  <2>5. Slot(x) # Slot(y)
    BY <2>4, SlotsDiffer
  <2> QED BY <2>1, <2>3, <2>5
<1> QED BY <1>1, Invariance, PTL

----------------------------------------------------------------------------
(* The ring implements the bounded queue.                                  *)

\* Every step is a step of the bounded queue or leaves it alone.
LEMMA StepImplements ==
    ASSUME TypeOK, Inductive, [Next]_vars
    PROVE  [overlap' \/ Queue!Next]_(Queue!vars)
<1> SUFFICES ASSUME Next, ~overlap' PROVE Queue!Next \/ UNCHANGED <<wr, rd, cBuf>>
  BY DEF vars, cons, Queue!vars
<1>1. ~overlap
  BY DEF Next, PutStep, GetStep, PutCall, PutLoadIn, PutLoadOut, PutRoom,
         PutCopy, PutAddLoad, PutStore, GetCall, GetLen, GetCopy, GetAdvance,
         GetCompare, GetResetOut, GetResetIn
<1>2. Good
  BY <1>1 DEF Inductive, Good
<1>3. CASE PutStore
  <2>1. Used(in, out) + pLen <= Size /\ Used(in, out) = wr - Base
    BY <1>2, <1>3 DEF PutStore, Good, ProducerInv, ConsumerInv, DataAtOffsets, Reset
  <2>2. wr' = wr + pLen /\ rd' = rd /\ cBuf' = cBuf
    BY <1>3 DEF PutStore, cons
  <2>3. wr' - rd <= Size
    BY <2>1, <2>2, GoodFacts, Constants DEF Base
  <2>4. CASE pLen = 0
    BY <2>2, <2>4, GoodFacts
  <2>5. CASE pLen > 0
    BY <2>2, <2>3, <2>5, GoodFacts DEF Queue!Next, Queue!Put
  <2> QED BY <2>4, <2>5, GoodFacts
<1>4. CASE GetCopy
  <2>1. /\ cLen > 0 /\ cLen <= Used(in, out) /\ Used(in, out) = wr - rd
        /\ \A i \in 0..Used(in, out)-1 : mem[Slot(out + i)] = rd + 1 + i
    BY <1>2, <1>4 DEF GetCopy, Good, ConsumerInv, DataAtOffsets, Base, Reset
  <2>2. /\ rd' = rd + cLen /\ wr' = wr
        /\ cBuf' = [k \in 1..cLen |-> mem[Slot(out + k - 1)]]
    BY <1>4, <2>1, GoodFacts DEF GetCopy, Handed
  <2>3. ASSUME NEW k \in 1..cLen PROVE mem[Slot(out + k - 1)] = rd + k
    <3>1. k - 1 \in 0..(Used(in, out) - 1) /\ out + k - 1 = out + (k - 1)
      BY <2>1, GoodFacts DEF Counter
    <3>2. mem[Slot(out + (k - 1))] = rd + 1 + (k - 1)
      BY <2>1, <3>1
    <3> QED BY <3>1, <3>2, GoodFacts
  <2>4. rd' - rd = cLen
    BY <2>2, GoodFacts
  <2>5. cBuf' = [k \in 1..(rd' - rd) |-> rd + k]
    BY <2>2, <2>3, <2>4
  <2>6. rd' > rd /\ rd' <= wr
    BY <2>1, <2>2, GoodFacts
  <2> QED BY <2>2, <2>5, <2>6 DEF Queue!Next, Queue!Take
<1>5. CASE Next /\ ~PutStore /\ ~GetCopy
  BY <1>5 DEF Next, PutStep, GetStep, PutCall, PutLoadIn, PutLoadOut, PutRoom,
         PutCopy, PutAddLoad, GetCall, GetLen, GetAdvance, GetCompare,
         GetResetOut, GetResetIn, cons
<1> QED BY <1>3, <1>4, <1>5

\* Until a put meets the reset of kfifo_get, every kfifo_get hands out the
\* oldest bytes in order, none lost and none twice, and kfifo_put never
\* accepts more bytes than fit.
THEOREM RingIsQueue == Spec => ImplementsQueue
<1>1. Init => Queue!Init
  BY DEF Init, Queue!Init
<1>2. TypeOK /\ Inductive /\ [Next]_vars => [overlap' \/ Queue!Next]_(Queue!vars)
  BY StepImplements
<1> QED BY <1>1, <1>2, Invariance, PTL DEF Spec, ImplementsQueue
=============================================================================
