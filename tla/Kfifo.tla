------------------------------- MODULE Kfifo -------------------------------
(***************************************************************************)
(* The byte ring of common/kfifo.c between the two threads that share it.  *)
(* Every load and store of fifo->in and fifo->out that another thread can  *)
(* observe is a step of its own: no call of kfifo_put or kfifo_get in this *)
(* program is made under a lock.                                           *)
(*                                                                         *)
(* A byte is named by its position in the stream of bytes that the         *)
(* producer had accepted, 1, 2, 3, ...; 0 is a byte of the buffer that     *)
(* clive_alloc did not initialise.                                         *)
(***************************************************************************)
EXTENDS Integers, Sequences

CONSTANTS
    Size,      \* fifo->size
    Width,     \* number of values of an unsigned int, 2^32 in the code
    MaxPut,    \* the longest put: a datagram, or a chunk of 1024 bytes
    MaxGet,    \* the len both consumers pass to kfifo_get, 1024
    MaxBytes,  \* bound: the bytes put in one behaviour
    Retry      \* TRUE: put the rest again (udp_recv); FALSE: drop it (ts2ts)

ASSUME KfifoAssumption ==
    /\ Size \in Nat \ {0}
    /\ Width \in Nat /\ Width % Size = 0 /\ Size < Width
    /\ MaxPut \in 1..Size
    /\ MaxGet \in 1..Size
    /\ MaxBytes \in Nat
    /\ Retry \in BOOLEAN

VARIABLES
    in, out,   \* the two counters, shared
    mem,       \* fifo->buffer, shared
    pPc,       \* the producer: where it is inside __kfifo_put,
    pWant,     \* what is left of its buffer,
    pIn, pOut, \* the values it loaded,
    pLen,      \* and the local len
    cPc,       \* the consumer: where it is inside kfifo_get,
    cLen,      \* the local len,
    cBuf,      \* and the bytes copied to its buffer
    wr, rd,    \* history: bytes accepted by puts, bytes copied out by gets
    overlap    \* history: a put ran inside the reset window of a get

prod == <<pPc, pWant, pIn, pOut, pLen>>
cons == <<cPc, cLen, cBuf>>
vars == <<in, out, mem, prod, cons, wr, rd, overlap>>

Slots     == 0..Size-1
Counter   == 0..Width-1
NotLoaded == -1
Reset     == {"reset", "resetIn", "resetOut"}

Least(a, b) == IF a < b THEN a ELSE b
Used(i, o) == (i - o) % Width         \* in - out
Slot(x)    == x % Size                \* x & (size - 1), size a power of two

\* The faulty variants below are what a slip in the code would give; each
\* property must tell one of them from the code.
RoomOneMore(i, o) == (Size - i + o + 1) % Width

Room(i, o) == (Size - i + o) % Width  \* size - in + out

\* Bound: rd is not counted on while gets have handed out more bytes than
\* were accepted, which only an overlap can lead to (it may then go on).
Handed(n) == IF rd > wr THEN rd ELSE rd + n

\* kfifo_alloc: the counters are cleared, the bytes are not.
Init ==
    /\ in = 0 /\ out = 0
    /\ mem = [i \in Slots |-> 0]
    /\ pPc = "idle" /\ pWant = 0
    /\ pIn = NotLoaded /\ pOut = NotLoaded /\ pLen = 0
    /\ cPc = "idle" /\ cLen = 0 /\ cBuf = <<>>
    /\ wr = 0 /\ rd = 0
    /\ overlap = FALSE

----------------------------------------------------------------------------
(* The producer: kfifo_put and the caller around it.                       *)

\* A new datagram or chunk, or the rest of one that did not fit.
PutCall ==
    /\ pPc = "idle"
    /\ \/ pWant > 0 /\ pWant' = pWant
       \/ /\ pWant = 0
          /\ \E n \in 1..MaxPut : wr + n <= MaxBytes /\ pWant' = n
    /\ pPc' = "load"
    /\ overlap' = (overlap \/ cPc \in Reset)
    /\ UNCHANGED <<in, out, mem, pIn, pOut, pLen, cons, wr, rd>>

\* The operands of size - in + out are loaded in an order C leaves open.
PutLoadIn ==
    /\ pPc = "load" /\ pIn = NotLoaded
    /\ pIn' = in
    /\ UNCHANGED <<in, out, mem, pPc, pWant, pOut, pLen, cons, wr, rd, overlap>>

PutLoadOut ==
    /\ pPc = "load" /\ pOut = NotLoaded
    /\ pOut' = out
    /\ UNCHANGED <<in, out, mem, pPc, pWant, pIn, pLen, cons, wr, rd, overlap>>

\* Faulty: the caller's len is not looked at.
PutRoomUncut ==
    /\ pPc = "load" /\ pIn # NotLoaded /\ pOut # NotLoaded
    /\ pLen' = Room(pIn, pOut)
    /\ pPc' = "copy"
    /\ UNCHANGED <<in, out, mem, pWant, pIn, pOut, cons, wr, rd, overlap>>

\* len = min(len, size - in + out). The macro names its argument twice; the
\* build of configure.ac optimises, and loads the counters once.
PutRoom ==
    /\ pPc = "load" /\ pIn # NotLoaded /\ pOut # NotLoaded
    /\ pLen' = Least(pWant, Room(pIn, pOut))
    /\ pPc' = "copy"
    /\ UNCHANGED <<in, out, mem, pWant, pIn, pOut, cons, wr, rd, overlap>>

\* The two memcpys: len bytes from offset in, going on at the beginning of
\* the buffer. The compiler may keep the in it loaded or load it again.
PutCopy ==
    /\ pPc = "copy"
    /\ \E base \in {pIn, in} :
          mem' = [i \in Slots |-> IF Slot(i - base) < pLen
                                  THEN wr + 1 + Slot(i - base)
                                  ELSE mem[i]]
    /\ pPc' = "add"
    /\ UNCHANGED <<in, out, pWant, pIn, pOut, pLen, cons, wr, rd, overlap>>

\* fifo->in += len is a load ...
PutAddLoad ==
    /\ pPc = "add"
    /\ pIn' = in
    /\ pPc' = "store"
    /\ UNCHANGED <<in, out, mem, pWant, pOut, pLen, cons, wr, rd, overlap>>

\* ... and a store. udp_recv goes on until total = n; ts2ts ignores w < n.
PutStore ==
    /\ pPc = "store"
    /\ in' = (pIn + pLen) % Width
    /\ wr' = wr + pLen
    /\ pWant' = IF Retry THEN pWant - pLen ELSE 0
    /\ pPc' = "idle"
    /\ pIn' = NotLoaded /\ pOut' = NotLoaded /\ pLen' = 0
    /\ UNCHANGED <<out, mem, cons, rd, overlap>>

----------------------------------------------------------------------------
(* The consumer: the polling loop's kfifo_len and kfifo_get.               *)

\* Faulty: the counters compared without their wrap-around.
GetCallUnwrapped ==
    /\ cPc = "idle" /\ in > out
    /\ cPc' = "load"
    /\ UNCHANGED <<in, out, mem, prod, cLen, cBuf, wr, rd, overlap>>

\* kfifo_len(fifo) > 0
GetCall ==
    /\ cPc = "idle" /\ Used(in, out) > 0
    /\ cPc' = "load"
    /\ UNCHANGED <<in, out, mem, prod, cLen, cBuf, wr, rd, overlap>>

\* len = min(len, in - out)
GetLen ==
    /\ cPc = "load"
    /\ cLen' = Least(MaxGet, Used(in, out))
    /\ cPc' = "copy"
    /\ UNCHANGED <<in, out, mem, prod, cBuf, wr, rd, overlap>>

\* Faulty: the second memcpy, from the beginning of the buffer, is left out.
GetCopyNoWrap ==
    /\ cPc = "copy"
    /\ cBuf' = [k \in 1..cLen |->
                  IF Slot(out) + k <= Size THEN mem[Slot(out + k - 1)] ELSE 0]
    /\ rd' = Handed(cLen)
    /\ cPc' = "advance"
    /\ UNCHANGED <<in, out, mem, prod, cLen, wr, overlap>>

\* The two memcpys out of the ring.
GetCopy ==
    /\ cPc = "copy"
    /\ cBuf' = [k \in 1..cLen |-> mem[Slot(out + k - 1)]]
    /\ rd' = Handed(cLen)
    /\ cPc' = "advance"
    /\ UNCHANGED <<in, out, mem, prod, cLen, wr, overlap>>

\* fifo->out += len
GetAdvance ==
    /\ cPc = "advance"
    /\ out' = (out + cLen) % Width
    /\ cPc' = "compare"
    /\ UNCHANGED <<in, mem, prod, cLen, cBuf, wr, rd, overlap>>

\* Faulty: the ring is reset when it is empty modulo its size.
GetCompareSlots ==
    /\ cPc = "compare"
    /\ cPc' = IF Slot(in) = Slot(out) THEN "reset" ELSE "idle"
    /\ overlap' = (overlap \/ (in = out /\ pPc # "idle"))
    /\ UNCHANGED <<in, out, mem, prod, cLen, cBuf, wr, rd>>

\* if (fifo->in == fifo->out)
GetCompare ==
    /\ cPc = "compare"
    /\ cPc' = IF in = out THEN "reset" ELSE "idle"
    /\ overlap' = (overlap \/ (in = out /\ pPc # "idle"))
    /\ UNCHANGED <<in, out, mem, prod, cLen, cBuf, wr, rd>>

\* fifo->in = fifo->out = 0: two stores, in the order the compiler chose.
GetResetOut ==
    /\ cPc \in {"reset", "resetOut"}
    /\ out' = 0
    /\ cPc' = IF cPc = "reset" THEN "resetIn" ELSE "idle"
    /\ UNCHANGED <<in, mem, prod, cLen, cBuf, wr, rd, overlap>>

GetResetIn ==
    /\ cPc \in {"reset", "resetIn"}
    /\ in' = 0
    /\ cPc' = IF cPc = "reset" THEN "resetOut" ELSE "idle"
    /\ UNCHANGED <<out, mem, prod, cLen, cBuf, wr, rd, overlap>>

----------------------------------------------------------------------------
PutStep ==
    \/ PutLoadIn \/ PutLoadOut \/ PutRoom \/ PutCopy \/ PutAddLoad \/ PutStore

GetStep ==
    \/ GetCall \/ GetLen \/ GetCopy \/ GetAdvance \/ GetCompare
    \/ GetResetOut \/ GetResetIn

Next == PutCall \/ PutStep \/ GetStep

Spec == Init /\ [][Next]_vars

\* Both threads run for ever on their own; new data need not arrive, but a
\* put that was started, or has bytes left, goes on.
Fairness ==
    /\ WF_vars(PutStep)
    /\ WF_vars(PutCall /\ pWant > 0)
    /\ WF_vars(GetStep)

FairSpec == Spec /\ Fairness

----------------------------------------------------------------------------
(* Properties.                                                             *)

\* The variables keep their types: the counters stay within an unsigned int
\* and no copy is longer than the caller's buffer.
TypeOK ==
    /\ in \in Counter /\ out \in Counter
    /\ mem \in [Slots -> Nat]
    /\ pPc \in {"idle", "load", "copy", "add", "store"}
    /\ pWant \in 0..MaxPut
    /\ pIn \in Counter \cup {NotLoaded} /\ pOut \in Counter \cup {NotLoaded}
    /\ pPc \in {"copy", "store"} => pIn # NotLoaded
    /\ pLen \in 0..MaxPut
    /\ pPc \in {"copy", "add", "store"} => pLen <= pWant
    /\ cPc \in {"idle", "load", "copy", "advance", "compare"} \cup Reset
    /\ cLen \in 0..MaxGet
    /\ cBuf \in Seq(Nat)
    /\ wr \in Nat /\ rd \in Nat
    /\ overlap \in BOOLEAN

\* The position of the byte before the one at offset out.
Base == IF cPc = "advance" THEN rd - cLen ELSE rd

\* kfifo.h:8-9 say of the counters "data is added at offset (in % size)" and
\* "data is extracted from off. (out % size)": the bytes from out to in are
\* the accepted bytes not yet extracted, in order, and they fit. (Between the
\* two stores of a reset there is no such reading.)
DataAtOffsets ==
    cPc \notin {"resetOut", "resetIn"} =>
        /\ Used(in, out) = wr - Base
        /\ Used(in, out) <= Size
        /\ \A i \in 0..Used(in, out)-1 : mem[Slot(out + i)] = Base + 1 + i

\* It holds as long as no put has met the reset of kfifo_get.
DataIntact == overlap \/ DataAtOffsets

\* The inductive invariant behind it, one part for each thread. What the
\* producer loaded can be out of date in one direction only: it may see less
\* room than there is, never more.
ProducerInv ==
    /\ pPc = "idle" => pIn = NotLoaded /\ pOut = NotLoaded
    /\ pPc = "load" =>
          /\ pIn # NotLoaded => pIn = in
          /\ pOut # NotLoaded => Used(in, out) <= Used(in, pOut)
                               /\ Used(in, pOut) <= Size
    /\ pPc \in {"copy", "store"} => pIn = in
    /\ pPc \in {"copy", "add", "store"} => Used(in, out) + pLen <= Size
    /\ pPc \in {"add", "store"} =>
          \A k \in 0..pLen-1 : mem[Slot(in + k)] = wr + 1 + k

ConsumerInv ==
    /\ cPc = "load" => Used(in, out) > 0
    /\ cPc \in {"copy", "advance"} => cLen > 0 /\ cLen <= Used(in, out)
    /\ cPc \in Reset => pPc = "idle" /\ wr = rd
    /\ cPc = "reset" => in = out
    /\ cPc = "resetIn" => out = 0
    /\ cPc = "resetOut" => in = 0

Inductive == overlap \/ (DataAtOffsets /\ ProducerInv /\ ConsumerInv)

\* The two threads never copy to and from one slot at the same time.
PutSlots == {Slot(pIn + i) : i \in 0..pLen-1}
GetSlots == {Slot(out + i) : i \in 0..cLen-1}
NoDataRace ==
    overlap \/ (pPc = "copy" /\ cPc = "copy" => PutSlots \cap GetSlots = {})

\* The ring implements a bounded queue of bytes: every get hands out the
\* oldest bytes, in order, without loss or repetition, up to the first put
\* that meets a reset.
Queue == INSTANCE ByteQueue WITH
    Capacity <- Size, accepted <- wr, taken <- rd, chunk <- cBuf

ImplementsQueue == Queue!Init /\ [][overlap' \/ Queue!Next]_(Queue!vars)

\* The loop of udp_recv that puts the rest of a datagram again comes to an
\* end, unless a put meets a reset: from then on a put of no bytes at all can
\* undo the reset again and again (it stores the in that it loaded before).
PutEnds == pWant > 0 ~> (pWant = 0 \/ overlap)

\* Every accepted byte is fetched, unless a put meets a reset.
AllFetched == \A n \in 1..MaxBytes : wr >= n ~> (rd >= n \/ overlap)
============================================================================
