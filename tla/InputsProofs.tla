---------------------------- MODULE InputsProofs ----------------------------
(***************************************************************************)
(* Proofs about the event loop, the tcp channel and the timers of module   *)
(* Inputs, for any descriptors, heap, clients, delays and units of time.   *)
(***************************************************************************)
EXTENDS Inputs, TLAPS, WellFoundedInduction

USE LoopAssumption, TcpAssumption, TimerAssumption

----------------------------------------------------------------------------
(* The parts of the invariant.                                             *)

\* What a connection owns: its descriptor, which no other has, and the entry of
\* the interest list.
Owns(a) ==
    /\ con[a].skt \in Fds /\ file[con[a].skt] # "closed"
    /\ con[a].active \in {{}, {"in"}}
    /\ interest[con[a].skt] = IF con[a].active = {} THEN Unwatched
                              ELSE [con |-> a, events |-> con[a].active]
    /\ \A b \in Cons : con[b].kind # "none" /\ con[b].skt = con[a].skt => b = a

Registry ==
    /\ \A a \in Cons : con[a].kind = "none" => con[a] = NoCon
    /\ \A a \in Cons : con[a].kind # "none" => Owns(a)
    /\ \A f \in Fds : interest[f] # Unwatched =>
          \E a \in Cons : con[a].kind # "none" /\ con[a].skt = f
    /\ \A f \in Fds : file[f] # "closed" /\ f \notin leaked =>
          \E a \in Cons : con[a].kind # "none" /\ con[a].skt = f

\* Only the listener of the channel lives outside the heap, and epoll may
\* have refused it.
Listening ==
    /\ con[Chan].kind \in {"none", "listener"}
    /\ pc = "start" => con[Chan].kind = "listener" /\ con[Chan].active = {}
    /\ pc # "aborted" => \A a \in Cons : con[a].kind # "none" /\ con[a].active = {} => a = Chan

\* One event for a descriptor, so that closing a connection makes no other
\* event of the batch out of date.
EventsApart == \A e, d \in batch : e.fd = d.fd => e = d

\* The connection, descriptor and expiry of a timer belong together.
Due(a) ==
    LET f == con[a].skt IN
    /\ file[f] = "timer"
    /\ ready[f] # {} => asked[a] \in 1..now /\ due[f] = 0
    /\ due[f] # 0 => asked[a] \in 1..due[f]

TimersDue ==
    /\ now > 0
    /\ \A f \in Fds : due[f] = 0 \/ due[f] > now
    /\ \A a \in Cons : con[a].kind = "timer" => Due(a)

LoopInv == TypeOK /\ Registry /\ Listening /\ EventsCurrent /\ EventsApart

----------------------------------------------------------------------------
(* Lemmas on the operators.                                                *)

\* Any set of descriptors that is not empty has a lowest one.
LEMMA LowestFd ==
    ASSUME NEW S, S \subseteq Fds, S # {}
    PROVE  \E f \in S : \A g \in S : f <= g
<1>1. S \subseteq Nat /\ Fds \subseteq Nat
  OBVIOUS
<1>. DEFINE Less == {ss \in Nat \X Nat : ss[1] < ss[2]}
<1>2. IsWellFoundedOn(Less, Nat)
  BY NatLessThanWellFounded DEF OpToRel
<1>3. PICK f \in S : \A g \in S : ~(<<g, f>> \in Less)
  <2>. HIDE DEF Less
  <2>1. \E f \in S : \A g \in S : ~(<<g, f>> \in Less)
    BY <1>1, <1>2, WFMin
  <2>2. QED
    BY <2>1
<1>4. \A g \in S : ~(g < f)
  BY <1>1, <1>3
<1>5. QED
  BY <1>1, <1>4

\* The kernel's choice is a free descriptor.
LEMMA NewFdIsFree ==
    ASSUME FreeFds # {}
    PROVE  NewFd \in Fds /\ file[NewFd] = "closed"
<1>1. FreeFds \subseteq Fds
  BY DEF FreeFds
<1>2. \E f \in FreeFds : \A g \in FreeFds : f <= g
  BY <1>1, LowestFd
<1>3. NewFd \in FreeFds
  BY <1>2 DEF NewFd
<1>4. QED
  BY <1>3 DEF FreeFds

\* Reading only is what is left of event_add_conn after event_del_out, or
\* nothing when epoll refused.
LEMMA WatchIs ==
    ASSUME NEW a, NEW kind, NEW f, Watch(a, kind, f)
    PROVE  \E act \in {{}, {"in"}} :
              /\ con' = [con EXCEPT ![a] = [kind |-> kind, skt |-> f, active |-> act]]
              /\ interest' = IF act = {} THEN interest
                             ELSE [interest EXCEPT ![f] = [con |-> a, events |-> act]]
<1>. DEFINE Fresh == [kind |-> kind, skt |-> f, active |-> {}]
            Both  == [kind |-> kind, skt |-> f, active |-> {"in", "out"}]
            Reads == [kind |-> kind, skt |-> f, active |-> {"in"}]
<1>1. EventAddConn(Fresh) = {Fresh, Both}
  BY DEF EventAddConn
<1>2. {"in", "out"} \ {"out"} = {"in"} /\ {} \ {"out"} = {}
  OBVIOUS
<1>3. EventDelOut(Fresh) = Fresh /\ EventDelOut(Both) = Reads
  BY <1>2, SMTT(30) DEF EventDelOut
<1>4. Both.active # {} /\ Reads.active = {"in"} /\ Fresh.active = {}
  OBVIOUS
<1>5. PICK c \in {Fresh, Both} :
          /\ con' = [con EXCEPT ![a] = EventDelOut(c)]
          /\ interest' = IF c.active = {} THEN interest
                         ELSE [interest EXCEPT ![f] = [con |-> a, events |-> EventDelOut(c).active]]
  BY <1>1 DEF Watch
<1>6. CASE c = Fresh
  <2>1. /\ con' = [con EXCEPT ![a] = [kind |-> kind, skt |-> f, active |-> {}]]
        /\ interest' = interest
    BY <1>3, <1>4, <1>5, <1>6
  <2>2. QED
    BY <2>1
<1>7. CASE c = Both
  <2>1. /\ con' = [con EXCEPT ![a] = [kind |-> kind, skt |-> f, active |-> {"in"}]]
        /\ interest' = [interest EXCEPT ![f] = [con |-> a, events |-> {"in"}]]
    BY <1>3, <1>4, <1>5, <1>7
  <2>2. QED
    BY <2>1
<1>8. QED
  BY <1>5, <1>6, <1>7

----------------------------------------------------------------------------
(* Types.                                                                  *)

Pcs == {"start", "main", "wait", "dispatch", "handler", "aborted", "stuck"}

\* The end of a handler.
LEMMA NextEventTypes ==
    ASSUME batch \subseteq Event, NEW rest, rest \subseteq batch, NextEvent(rest)
    PROVE  batch' \subseteq Event /\ pc' \in Pcs
BY DEF NextEvent, Pcs

\* A connection is made.
LEMMA WatchTypes ==
    ASSUME con \in [Cons -> ConType],
           interest \in [Fds -> [con : Cons \cup {NULL}, events : SUBSET {"in", "out"}]],
           NEW a \in Cons, NEW kind \in Kinds, NEW f \in Fds \cup {0}, Watch(a, kind, f)
    PROVE  /\ con' \in [Cons -> ConType]
           /\ interest' \in [Fds -> [con : Cons \cup {NULL}, events : SUBSET {"in", "out"}]]
<1>1. PICK act \in {{}, {"in"}} :
          /\ con' = [con EXCEPT ![a] = [kind |-> kind, skt |-> f, active |-> act]]
          /\ interest' = IF act = {} THEN interest
                         ELSE [interest EXCEPT ![f] = [con |-> a, events |-> act]]
  BY WatchIs
<1>2. act \in SUBSET {"in", "out"}
  OBVIOUS
<1>3. [kind |-> kind, skt |-> f, active |-> act] \in ConType
  BY <1>2 DEF ConType
<1>4. [con |-> a, events |-> act] \in [con : Cons \cup {NULL}, events : SUBSET {"in", "out"}]
  BY <1>2
<1>5. QED
  BY <1>1, <1>3, <1>4

\* A connection is closed.
LEMMA CloseTypes ==
    ASSUME TypeOK, NEW a \in Cons, CoreClose(a)
    PROVE  /\ con' \in [Cons -> ConType]
           /\ file' \in [Fds -> {"closed", "listener", "timer"} \cup Clients]
           /\ ready' \in [Fds -> SUBSET {"read", "err"}]
           /\ interest' \in [Fds -> [con : Cons \cup {NULL}, events : SUBSET {"in", "out"}]]
<1>1. NoCon \in ConType
  BY DEF NoCon, ConType, Kinds
<1>2. Unwatched \in [con : Cons \cup {NULL}, events : SUBSET {"in", "out"}]
  BY DEF Unwatched
<1>3. {} \in SUBSET {"read", "err"}
  OBVIOUS
<1>4. con' \in [Cons -> ConType]
  BY <1>1 DEF TypeOK, CoreClose, TcpClose
<1>5. interest' \in [Fds -> [con : Cons \cup {NULL}, events : SUBSET {"in", "out"}]]
  BY <1>2 DEF TypeOK, CoreClose, EventDelConn
<1>6. /\ file' \in [Fds -> {"closed", "listener", "timer"} \cup Clients]
      /\ ready' \in [Fds -> SUBSET {"read", "err"}]
  BY <1>3 DEF TypeOK, CoreClose, TcpClose
<1>7. QED
  BY <1>4, <1>5, <1>6

\* A client's connection ends.
LEMMA EndedTypes ==
    ASSUME TypeOK, NEW f, Ended(f)
    PROVE  /\ link' \in [Clients -> {"away", "knocking", "open", "closed"}]
           /\ says' \in [Clients -> SUBSET {"read", "err"}]
BY DEF TypeOK, Ended

\* An expiry is an integer, and positive when it is still to come.
LEMMA ExpiryIsInt ==
    ASSUME now \in Nat, NEW msecs \in Nat
    PROVE  /\ now \div NsecPerSec \in Nat /\ now % NsecPerSec \in Nat
           /\ msecs \div MsecPerSec \in Nat /\ msecs % MsecPerSec \in Nat
           /\ TvSec(msecs) \in Nat /\ TvNsec(msecs) \in Nat /\ Expiry(msecs) \in Nat
<1>1. now \div NsecPerSec \in Nat /\ now % NsecPerSec \in Nat
  OBVIOUS
<1>2. msecs \div MsecPerSec \in Nat /\ msecs % MsecPerSec \in Nat
  OBVIOUS
<1>3. \A m, n \in Nat : m * n \in Nat
  OBVIOUS
<1>4. TvSec(msecs) \in Nat /\ TvNsec(msecs) \in Nat
  BY <1>1, <1>2 DEF TvSec, TvNsec
<1>5. TvSec(msecs) * NsecPerSec \in Nat
  BY <1>3, <1>4
<1>6. QED
  BY <1>1, <1>2, <1>4, <1>5 DEF Expiry

\* timerfd_settime
LEMMA SettimeTypes ==
    ASSUME TypeOK, NEW f, NEW msecs \in Delays, Settime(f, msecs)
    PROVE  ready' \in [Fds -> SUBSET {"read", "err"}] /\ due' \in [Fds -> Nat]
<1>1. now \in Nat /\ msecs \in Nat
  BY DEF TypeOK
<1>2. Expiry(msecs) \in Nat
  BY <1>1, ExpiryIsInt
<1>3. (IF Expiry(msecs) <= now THEN {"read"} ELSE {}) \in SUBSET {"read", "err"}
  OBVIOUS
<1>4. (IF Expiry(msecs) <= now THEN 0 ELSE Expiry(msecs)) \in Nat
  BY <1>2
<1>5. QED
  BY <1>3, <1>4 DEF TypeOK, Settime

\* A time that is asked for.
LEMMA AsksTypes ==
    ASSUME TypeOK, NEW a, NEW msecs \in Delays, Asks(a, msecs)
    PROVE  asked' \in [Cons -> Nat]
<1>1. now \in Nat /\ msecs \in Nat
  BY DEF TypeOK
<1>2. \A m, n \in Nat : m * n \in Nat
  OBVIOUS
<1>3. (msecs \div MsecPerSec) * NsecPerSec \in Nat
  BY <1>1, <1>2, ExpiryIsInt
<1>4. now + (msecs \div MsecPerSec) * NsecPerSec \in Nat
  BY <1>1, <1>3
<1>5. QED
  BY <1>4 DEF TypeOK, Asks

\* What epoll watches is the descriptor of a connection, for reading.
LEMMA WatchedIs ==
    ASSUME Registry, NEW f \in Fds, interest[f] # Unwatched
    PROVE  \E a \in Cons : /\ con[a].kind # "none" /\ con[a].skt = f
                           /\ interest[f] = [con |-> a, events |-> {"in"}]
<1>1. PICK a \in Cons : con[a].kind # "none" /\ con[a].skt = f
  BY DEF Registry
<1>2. Owns(a)
  BY <1>1 DEF Registry
<1>3. con[a].active = {"in"}
  BY <1>1, <1>2 DEF Owns
<1>4. interest[f] = [con |-> a, events |-> {"in"}]
  BY <1>1, <1>2, <1>3 DEF Owns
<1>5. QED
  BY <1>1, <1>4

\* The events that epoll_wait reports.
LEMMA WaitTypes ==
    ASSUME TypeOK, Registry, EventWait
    PROVE  batch' \subseteq Event
<1>. SUFFICES ASSUME NEW f \in Fds, Occurs(f) # {}
              PROVE  [con |-> interest[f].con, fd |-> f, events |-> Occurs(f)] \in Event
  BY DEF EventWait
<1>1. interest[f] # Unwatched
  BY DEF Occurs
<1>2. PICK a \in Cons : interest[f] = [con |-> a, events |-> {"in"}]
  BY <1>1, WatchedIs
<1>3. interest[f].con \in Cons
  BY <1>2
<1>4. Occurs(f) \in SUBSET {"read", "err", "write"}
  BY DEF TypeOK, Occurs
<1>5. QED
  BY <1>3, <1>4 DEF Event

\* No step of the main thread leaves the types.
LEMMA LoopTypes ==
    ASSUME TypeOK, Registry, LoopStep
    PROVE  TypeOK'
<1>1. CASE EnterLoop
  BY <1>1 DEF EnterLoop, TypeOK, tcp, timer
<1>2. CASE ChannelStart /\ UNCHANGED timer
  <2>1. Port \in Fds \cup {0} /\ Chan \in Cons /\ "listener" \in Kinds
    BY DEF Port, Cons, TypeOK, ConType, Kinds
  <2>2. Watch(Chan, "listener", Port)
    BY <1>2 DEF ChannelStart
  <2>3. /\ con' \in [Cons -> ConType]
        /\ interest' \in [Fds -> [con : Cons \cup {NULL}, events : SUBSET {"in", "out"}]]
    BY <2>1, <2>2, WatchTypes DEF TypeOK
  <2>4. QED
    BY <1>2, <2>3 DEF ChannelStart, TypeOK, tcp, timer
<1>3. CASE EventWait /\ UNCHANGED <<tcp, timer>>
  <2>1. batch' \subseteq Event
    BY <1>3, WaitTypes
  <2>2. QED
    BY <1>3, <2>1 DEF EventWait, TypeOK, tcp, timer
<1>4. ASSUME NEW e \in batch, TcpStep(e)
      PROVE  TypeOK'
  <2>1. batch \subseteq Event /\ e.con \in Cons /\ batch \ {e} \subseteq batch
    BY DEF TypeOK, Event
  <2>2. UNCHANGED timer
    BY <1>4 DEF TcpStep
  <2>3. CASE Accept(e)
    <3>1. PICK c \in Clients, a \in FreeCons :
              /\ link' = [link EXCEPT ![c] = "open"]
              /\ file' = [file EXCEPT ![NewFd] = c]
              /\ ready' = [ready EXCEPT
                    ![NewFd] = says[c],
                    ![Port] = {x \in {"read"} : \E d \in Clients \ {c} : link[d] = "knocking"}]
              /\ Watch(a, "input", NewFd)
              /\ IF con'[a].active = {} THEN pc' = "aborted" /\ UNCHANGED batch
                                        ELSE NextEvent(batch \ {e})
      BY <2>3 DEF Accept
    <3>2. NewFd \in Fds \cup {0} /\ a \in Cons /\ "input" \in Kinds
      BY <2>3, NewFdIsFree DEF Accept, FreeCons, Cons, Kinds
    <3>3. /\ con' \in [Cons -> ConType]
          /\ interest' \in [Fds -> [con : Cons \cup {NULL}, events : SUBSET {"in", "out"}]]
      BY <3>1, <3>2, WatchTypes DEF TypeOK
    <3>4. batch' \subseteq Event /\ pc' \in Pcs
      BY <2>1, <3>1, NextEventTypes DEF Pcs
    <3>5. link' \in [Clients -> {"away", "knocking", "open", "closed"}]
      BY <3>1 DEF TypeOK
    <3>6. file' \in [Fds -> {"closed", "listener", "timer"} \cup Clients]
      BY <3>1 DEF TypeOK
    <3>7. ready' \in [Fds -> SUBSET {"read", "err"}]
      <4>1. {x \in {"read"} : \E d \in Clients \ {c} : link[d] = "knocking"} \in SUBSET {"read", "err"}
        OBVIOUS
      <4>2. says[c] \in SUBSET {"read", "err"}
        BY DEF TypeOK
      <4>3. QED
        BY <3>1, <4>1, <4>2 DEF TypeOK
    <3>8. QED
      BY <2>2, <2>3, <3>3, <3>4, <3>5, <3>6, <3>7 DEF Accept, TypeOK, Pcs, timer
  <2>4. CASE AcceptFails(e)
    <3>1. batch' \subseteq Event /\ pc' \in Pcs
      BY <2>1, <2>4, NextEventTypes DEF AcceptFails
    <3>2. QED
      BY <2>2, <2>4, <3>1 DEF AcceptFails, TypeOK, Pcs, tcp, timer
  <2>5. CASE InputError(e) \/ RecvEnds(e)
    <3>1. CoreClose(e.con) /\ NextEvent(batch \ {e}) /\ Ended(e.fd)
      BY <2>5 DEF InputError, CoreError, RecvEnds
    <3>2. batch' \subseteq Event /\ pc' \in Pcs
      BY <2>1, <3>1, NextEventTypes
    <3>3. QED
      BY <2>1, <2>2, <3>1, <3>2, CloseTypes, EndedTypes DEF TypeOK, Pcs, timer
  <2>6. CASE RecvGoesOn(e)
    <3>1. batch' \subseteq Event /\ pc' \in Pcs
      BY <2>1, <2>6, NextEventTypes DEF RecvGoesOn
    <3>2. QED
      BY <2>2, <2>6, <3>1 DEF RecvGoesOn, TypeOK, Pcs, tcp, timer
  <2>7. CASE RecvSpins(e)
    BY <2>2, <2>7 DEF RecvSpins, TypeOK, tcp, timer
  <2>8. QED
    BY <1>4, <2>3, <2>4, <2>5, <2>6, <2>7 DEF TcpStep
<1>5. ASSUME NEW e \in batch, TimerStep(e)
      PROVE  TypeOK'
  <2>1. batch \subseteq Event /\ e.con \in Cons /\ batch \ {e} \subseteq batch
    BY DEF TypeOK, Event
  <2>2. UNCHANGED tcp
    BY <1>5 DEF TimerStep
  <2>3. CASE RecvExpired(e)
    <3>1. handle[e.con] \in BOOLEAN
      BY <2>1 DEF TypeOK
    <3>2. QED
      BY <2>1, <2>2, <2>3, <3>1 DEF RecvExpired, TypeOK, tcp
  <2>4. CASE RecvNotExpired(e)
    <3>1. batch' \subseteq Event /\ pc' \in Pcs
      BY <2>1, <2>4, NextEventTypes DEF RecvNotExpired
    <3>2. QED
      BY <2>2, <2>4, <3>1 DEF RecvNotExpired, TypeOK, Pcs, tcp, timer
  <2>5. QED
    BY <1>5, <2>3, <2>4 DEF TimerStep
<1>6. CASE HandlerReturns /\ UNCHANGED tcp
  <2>1. batch' \subseteq Event /\ pc' \in Pcs
    BY <1>6, NextEventTypes DEF HandlerReturns, TypeOK
  <2>2. QED
    BY <1>6, <2>1 DEF HandlerReturns, TypeOK, Pcs, tcp, timer
<1>7. QED
  BY <1>1, <1>2, <1>3, <1>4, <1>5, <1>6 DEF LoopStep

\* A handler is set.
LEMMA HandleTypes ==
    ASSUME handle \in [Cons -> BOOLEAN], NEW a, NEW h \in BOOLEAN,
           handle' = [handle EXCEPT ![a] = h]
    PROVE  handle' \in [Cons -> BOOLEAN]
<1>1. \A b \in Cons : [handle EXCEPT ![a] = h][b] \in BOOLEAN
  <2>. TAKE b \in Cons
  <2>1. CASE b = a
    BY <2>1
  <2>2. CASE b # a
    BY <2>2
  <2>3. QED
    BY <2>1, <2>2
<1>2. QED
  BY <1>1

\* Nor do the calls of timer.h, the clients and the clock.
LEMMA OtherTypes ==
    ASSUME TypeOK,
           TimerCalls \/ Time \/ \E c \in Clients : Peer(c)
    PROVE  TypeOK'
<1>1. ASSUME NEW d \in Delays, NEW h \in BOOLEAN, TimerNew(d, h), UNCHANGED tcp
      PROVE  TypeOK'
  <2>1. PICK a \in FreeCons :
            /\ Watch(a, "timer", NewFd)
            /\ pc' = IF con'[a].active = {} THEN "aborted" ELSE pc
            /\ handle' = [handle EXCEPT ![a] = h]
            /\ Asks(a, d)
    BY <1>1 DEF TimerNew
  <2>2. NewFd \in Fds \cup {0} /\ a \in Cons /\ "timer" \in Kinds
    BY <1>1, NewFdIsFree DEF TimerNew, FreeCons, Cons, Kinds
  <2>3. /\ con' \in [Cons -> ConType]
        /\ interest' \in [Fds -> [con : Cons \cup {NULL}, events : SUBSET {"in", "out"}]]
    BY <2>1, <2>2, WatchTypes DEF TypeOK
  <2>4. ready' \in [Fds -> SUBSET {"read", "err"}] /\ due' \in [Fds -> Nat]
    BY <1>1, SettimeTypes DEF TimerNew
  <2>5. asked' \in [Cons -> Nat]
    BY <2>1, AsksTypes
  <2>6. file' \in [Fds -> {"closed", "listener", "timer"} \cup Clients]
    BY <1>1 DEF TimerNew, TypeOK
  <2>7. pc' \in Pcs /\ calls' \in Nat
    BY <1>1, <2>1 DEF TimerNew, Calling, TypeOK, Pcs
  <2>8. handle' \in [Cons -> BOOLEAN]
    BY <2>1, HandleTypes DEF TypeOK
  <2>9. QED
    BY <1>1, <2>3, <2>4, <2>5, <2>6, <2>7, <2>8 DEF TimerNew, TypeOK, Pcs, tcp
<1>2. ASSUME NEW d \in Delays, TimerNewFails(d), UNCHANGED tcp
      PROVE  TypeOK'
  <2>1. calls' \in Nat
    BY <1>2 DEF TimerNewFails, Calling, TypeOK
  <2>2. /\ file' \in [Fds -> {"closed", "listener", "timer"} \cup Clients]
        /\ leaked' \subseteq Fds
    <3>1. CASE UNCHANGED <<file, leaked>>
      BY <3>1 DEF TypeOK
    <3>2. CASE /\ FreeFds # {}
               /\ file' = [file EXCEPT ![NewFd] = "timer"]
               /\ leaked' = leaked \cup {NewFd}
      BY <3>2, NewFdIsFree DEF TypeOK
    <3>3. QED
      BY <1>2, <3>1, <3>2 DEF TimerNewFails
  <2>3. QED
    BY <1>2, <2>1, <2>2 DEF TimerNewFails, TypeOK, tcp
<1>3. ASSUME NEW d \in Delays, NEW a \in Heap, UpdateTime(a, d), UNCHANGED tcp
      PROVE  TypeOK'
  <2>1. ready' \in [Fds -> SUBSET {"read", "err"}] /\ due' \in [Fds -> Nat]
    BY <1>3, SettimeTypes DEF UpdateTime
  <2>2. asked' \in [Cons -> Nat]
    BY <1>3, AsksTypes DEF UpdateTime
  <2>3. calls' \in Nat
    BY <1>3 DEF UpdateTime, Calling, TypeOK
  <2>4. QED
    BY <1>3, <2>1, <2>2, <2>3 DEF UpdateTime, TypeOK, tcp
<1>4. ASSUME NEW d \in Delays, NEW a \in Heap, UpdateTimeFails(a, d), UNCHANGED tcp
      PROVE  TypeOK'
  BY <1>4 DEF UpdateTimeFails, Calling, TypeOK, tcp, loop
<1>5. ASSUME NEW a \in Heap, NEW h \in BOOLEAN, UpdateHandle(a, h), UNCHANGED tcp
      PROVE  TypeOK'
  <2>1. calls' \in Nat
    BY <1>5 DEF UpdateHandle, Calling, TypeOK
  <2>2. handle' \in [Cons -> BOOLEAN]
    BY <1>5, HandleTypes DEF UpdateHandle, TypeOK
  <2>3. QED
    BY <1>5, <2>1, <2>2 DEF UpdateHandle, TypeOK, tcp, loop
<1>6. CASE Time
  <2>1. ready' \in [Fds -> SUBSET {"read", "err"}]
    BY <1>6 DEF Time, Tick, TypeOK
  <2>2. now' \in Nat /\ due' \in [Fds -> Nat]
    BY <1>6 DEF Time, Tick, TypeOK
  <2>3. QED
    BY <1>6, <2>1, <2>2 DEF Time, Tick, TypeOK, tcp
<1>7. ASSUME NEW c \in Clients, Peer(c)
      PROVE  TypeOK'
  <2>1. CASE Connect(c)
    <3>1. ready' \in [Fds -> SUBSET {"read", "err"}]
      BY <2>1 DEF Connect, TypeOK
    <3>2. QED
      BY <1>7, <2>1, <3>1 DEF Peer, Connect, TypeOK, timer
  <2>2. ASSUME NEW what \in SUBSET {"read", "err"}, Does(c, what)
        PROVE  TypeOK'
    <3>1. ready' \in [Fds -> SUBSET {"read", "err"}]
      BY <2>2 DEF Does, TypeOK
    <3>2. QED
      BY <1>7, <2>2, <3>1 DEF Peer, Does, TypeOK, timer
  <2>3. {"read"} \in SUBSET {"read", "err"} /\ {"read", "err"} \in SUBSET {"read", "err"}
    OBVIOUS
  <2>4. QED
    BY <1>7, <2>1, <2>2, <2>3 DEF Peer, Send, Reset
<1>8. QED
  BY <1>1, <1>2, <1>3, <1>4, <1>5, <1>6, <1>7 DEF TimerCalls

----------------------------------------------------------------------------
(* Descriptors, connections and the interest list.                         *)

\* A connection on the heap is made with a descriptor that was free, or the
\* channel's own is started: what the others own is not touched.
LEMMA OpensRegistry ==
    ASSUME TypeOK, Registry, NEW a \in Cons, NEW f \in Fds, NEW kind \in Kinds \ {"none"},
           NEW act \in {{}, {"in"}},
           \/ con[a].kind = "none" /\ file[f] = "closed" /\ file'[f] # "closed"
           \/ con[a].kind # "none" /\ con[a].skt = f /\ con[a].active = {} /\ file' = file,
           \A g \in Fds \ {f} : file'[g] = file[g],
           con' = [con EXCEPT ![a] = [kind |-> kind, skt |-> f, active |-> act]],
           interest' = IF act = {} THEN interest
                       ELSE [interest EXCEPT ![f] = [con |-> a, events |-> act]],
           leaked' = leaked
    PROVE  Registry'
<1>1. /\ con'[a].kind = kind /\ con'[a].skt = f /\ con'[a].active = act
      /\ \A b \in Cons \ {a} : con'[b] = con[b]
  BY DEF TypeOK
<1>2. ASSUME NEW b \in Cons \ {a}, con[b].kind # "none"
      PROVE  con[b].skt # f
  <2>1. Owns(b)
    BY <1>2 DEF Registry
  <2>2. CASE file[f] = "closed"
    BY <2>1, <2>2 DEF Owns
  <2>3. CASE con[a].kind # "none" /\ con[a].skt = f
    <3>1. Owns(a)
      BY <2>3 DEF Registry
    <3>2. QED
      BY <1>2, <2>3, <3>1 DEF Owns
  <2>4. QED
    BY <2>2, <2>3
<1>3. file'[f] # "closed"
  <2>1. CASE con[a].kind # "none" /\ con[a].skt = f /\ file' = file
    <3>1. Owns(a)
      BY <2>1 DEF Registry
    <3>2. QED
      BY <2>1, <3>1 DEF Owns
  <2>2. QED
    BY <2>1
<1>4. interest[f] = Unwatched
  BY <1>2 DEF Registry, Owns
<1>5. /\ interest'[f] = IF act = {} THEN Unwatched ELSE [con |-> a, events |-> act]
      /\ \A g \in Fds \ {f} : interest'[g] = interest[g]
  BY <1>4 DEF TypeOK
<1>6. \A b \in Cons : con'[b].kind = "none" => con'[b] = NoCon
  BY <1>1 DEF Registry
<1>7. ASSUME NEW b \in Cons, con'[b].kind # "none"
      PROVE  Owns(b)'
  <2>1. CASE b = a
    BY <1>1, <1>2, <1>3, <1>5, <2>1 DEF Owns
  <2>2. CASE b # a
    <3>1. Owns(b) /\ con'[b] = con[b] /\ con[b].skt # f /\ con[b].kind # "none"
      BY <1>1, <1>2, <1>7, <2>2 DEF Registry
    <3>2. file'[con[b].skt] = file[con[b].skt] /\ interest'[con[b].skt] = interest[con[b].skt]
      BY <1>5, <3>1 DEF Owns
    <3>3. \A c \in Cons : con'[c].kind # "none" /\ con'[c].skt = con'[b].skt => c = b
      BY <1>1, <3>1 DEF Owns
    <3>4. QED
      BY <3>1, <3>2, <3>3 DEF Owns
  <2>3. QED
    BY <2>1, <2>2
<1>8. ASSUME NEW g \in Fds, NEW b \in Cons, con[b].kind # "none" /\ con[b].skt = g
      PROVE  \E c \in Cons : con'[c].kind # "none" /\ con'[c].skt = g
  BY <1>1, <1>8
<1>9. \E c \in Cons : con'[c].kind # "none" /\ con'[c].skt = f
  BY <1>1
<1>10. \A g \in Fds : interest'[g] # Unwatched =>
          \E c \in Cons : con'[c].kind # "none" /\ con'[c].skt = g
  <2>. SUFFICES ASSUME NEW g \in Fds, interest'[g] # Unwatched, g # f
                PROVE  \E c \in Cons : con'[c].kind # "none" /\ con'[c].skt = g
    BY <1>9
  <2>1. PICK b \in Cons : con[b].kind # "none" /\ con[b].skt = g
    BY <1>5 DEF Registry
  <2>2. QED
    BY <1>8, <2>1
<1>11. \A g \in Fds : file'[g] # "closed" /\ g \notin leaked' =>
          \E c \in Cons : con'[c].kind # "none" /\ con'[c].skt = g
  <2>. SUFFICES ASSUME NEW g \in Fds, file'[g] # "closed", g \notin leaked, g # f
                PROVE  \E c \in Cons : con'[c].kind # "none" /\ con'[c].skt = g
    BY <1>9
  <2>1. PICK b \in Cons : con[b].kind # "none" /\ con[b].skt = g
    BY DEF Registry
  <2>2. QED
    BY <1>8, <2>1
<1>12. QED
  BY <1>6, <1>7, <1>10, <1>11 DEF Registry, NoCon, Unwatched

\* Closing gives back the descriptor, the entry and the place on the heap.
LEMMA ClosesRegistry ==
    ASSUME TypeOK, Registry, NEW a \in Cons, con[a].kind # "none", CoreClose(a),
           leaked' = leaked
    PROVE  Registry'
<1>. DEFINE f == con[a].skt
<1>1. Owns(a) /\ f \in Fds
  BY DEF Registry, Owns
<1>2. con'[a] = NoCon /\ \A b \in Cons \ {a} : con'[b] = con[b]
  BY DEF CoreClose, TcpClose, TypeOK
<1>3. NoCon.kind = "none"
  BY DEF NoCon
<1>4. /\ file'[f] = "closed" /\ \A g \in Fds \ {f} : file'[g] = file[g]
      /\ interest'[f] = Unwatched /\ \A g \in Fds \ {f} : interest'[g] = interest[g]
  BY <1>1 DEF CoreClose, TcpClose, EventDelConn, TypeOK
<1>5. \A b \in Cons : con'[b].kind # "none" =>
          b # a /\ con'[b] = con[b] /\ con[b].skt # f /\ Owns(b)
  BY <1>1, <1>2, <1>3 DEF Registry, Owns
<1>6. \A b \in Cons : con'[b].kind = "none" => con'[b] = NoCon
  BY <1>2 DEF Registry
<1>7. ASSUME NEW b \in Cons, con'[b].kind # "none"
      PROVE  Owns(b)'
  <2>1. con'[b] = con[b] /\ con[b].skt # f /\ Owns(b)
    BY <1>5, <1>7
  <2>2. file'[con[b].skt] = file[con[b].skt] /\ interest'[con[b].skt] = interest[con[b].skt]
    BY <1>4, <2>1 DEF Owns
  <2>3. \A c \in Cons : con'[c].kind # "none" /\ con'[c].skt = con'[b].skt => c = b
    BY <1>5, <2>1 DEF Owns
  <2>4. QED
    BY <2>1, <2>2, <2>3 DEF Owns
<1>8. ASSUME NEW g \in Fds \ {f}, NEW b \in Cons, con[b].kind # "none" /\ con[b].skt = g
      PROVE  \E c \in Cons : con'[c].kind # "none" /\ con'[c].skt = g
  BY <1>2, <1>8
<1>9. ASSUME NEW g \in Fds, interest'[g] # Unwatched
      PROVE  \E c \in Cons : con'[c].kind # "none" /\ con'[c].skt = g
  <2>1. g # f /\ interest[g] # Unwatched
    BY <1>4, <1>9
  <2>2. PICK b \in Cons : con[b].kind # "none" /\ con[b].skt = g
    BY <2>1 DEF Registry
  <2>3. QED
    BY <1>8, <2>1, <2>2
<1>10. ASSUME NEW g \in Fds, file'[g] # "closed", g \notin leaked'
       PROVE  \E c \in Cons : con'[c].kind # "none" /\ con'[c].skt = g
  <2>1. g # f /\ file[g] # "closed" /\ g \notin leaked
    BY <1>4, <1>10
  <2>2. PICK b \in Cons : con[b].kind # "none" /\ con[b].skt = g
    BY <2>1 DEF Registry
  <2>3. QED
    BY <1>8, <2>1, <2>2
<1>11. QED
  BY <1>6, <1>7, <1>9, <1>10 DEF Registry, NoCon, Unwatched

\* Steps that make and close nothing.
LEMMA KeepsRegistry ==
    ASSUME Registry, UNCHANGED <<con, file, interest, leaked>>
    PROVE  Registry'
BY DEF Registry, Owns, NoCon, Unwatched

\* Events that remain in the batch.
LEMMA KeepsEvents ==
    ASSUME EventsCurrent, EventsApart, batch' \subseteq batch,
           \A e \in batch : con[e.con].kind # "none" =>
               con'[e.con].kind # "none" /\ con'[e.con].skt = con[e.con].skt
    PROVE  EventsCurrent' /\ EventsApart'
BY DEF EventsCurrent, EventsApart

\* The event that closes its connection was the last one for it.
LEMMA ClosesEvents ==
    ASSUME TypeOK, EventsCurrent, EventsApart,
           NEW e \in batch, CoreClose(e.con), batch' = batch \ {e}
    PROVE  EventsCurrent' /\ EventsApart'
<1>1. ASSUME NEW d \in batch \ {e}
      PROVE  con'[d.con] = con[d.con]
  <2>1. d.con # e.con
    BY DEF EventsCurrent, EventsApart
  <2>2. d.con \in Cons
    BY DEF TypeOK, Event
  <2>3. QED
    BY <2>1, <2>2 DEF CoreClose, TcpClose, TypeOK
<1>2. QED
  BY <1>1 DEF EventsCurrent, EventsApart

\* What epoll_wait reports is up to date when it is reported.
LEMMA WaitEvents ==
    ASSUME TypeOK, Registry, EventWait
    PROVE  EventsCurrent' /\ EventsApart'
<1>1. con' = con
  BY DEF EventWait
<1>2. \A e \in batch' : \E f \in Fds :
          /\ Occurs(f) # {}
          /\ e = [con |-> interest[f].con, fd |-> f, events |-> Occurs(f)]
  BY DEF EventWait
<1>3. EventsApart'
  <2>. SUFFICES ASSUME NEW e \in batch', NEW d \in batch', e.fd = d.fd
                PROVE  e = d
    BY DEF EventsApart
  <2>1. PICK f \in Fds : e = [con |-> interest[f].con, fd |-> f, events |-> Occurs(f)]
    BY <1>2
  <2>2. PICK g \in Fds : d = [con |-> interest[g].con, fd |-> g, events |-> Occurs(g)]
    BY <1>2
  <2>3. f = g
    BY <2>1, <2>2
  <2>4. QED
    BY <2>1, <2>2, <2>3
<1>4. EventsCurrent'
  <2>. SUFFICES ASSUME NEW e \in batch'
                PROVE  con[e.con].kind # "none" /\ con[e.con].skt = e.fd /\ "write" \notin e.events
    BY <1>1 DEF EventsCurrent
  <2>1. PICK f \in Fds : /\ Occurs(f) # {}
                         /\ e = [con |-> interest[f].con, fd |-> f, events |-> Occurs(f)]
    BY <1>2
  <2>2. interest[f] # Unwatched
    BY <2>1 DEF Occurs
  <2>3. PICK a \in Cons : /\ con[a].kind # "none" /\ con[a].skt = f
                          /\ interest[f] = [con |-> a, events |-> {"in"}]
    BY <2>2, WatchedIs
  <2>4. e.con = a /\ e.fd = f /\ e.events = Occurs(f)
    BY <2>1, <2>3
  <2>5. "write" \notin Occurs(f)
    BY <2>3 DEF Occurs, TypeOK
  <2>6. QED
    BY <2>3, <2>4, <2>5
<1>5. QED
  BY <1>3, <1>4

\* Where connections are made, an inactive one has aborted the process.
LEMMA OpensListening ==
    ASSUME TypeOK, Listening, pc # "aborted", pc # "start", NEW a \in FreeCons,
           NEW kind, NEW f, NEW act,
           con' = [con EXCEPT ![a] = [kind |-> kind, skt |-> f, active |-> act]],
           pc' # "start", act = {} => pc' = "aborted"
    PROVE  Listening'
<1>1. a \in Cons /\ a # Chan
  BY DEF FreeCons, Cons
<1>2. Chan \in Cons
  BY DEF Cons
<1>3. con'[a].active = act /\ \A b \in Cons \ {a} : con'[b] = con[b]
  BY <1>1 DEF TypeOK
<1>4. QED
  BY <1>1, <1>2, <1>3 DEF Listening

\* Steps that make and close nothing.
LEMMA KeepsListening ==
    ASSUME Listening, con' = con,
           pc' = "start" => pc = "start", pc = "aborted" => pc' = "aborted"
    PROVE  Listening'
BY DEF Listening

\* Closing.
LEMMA ClosesListening ==
    ASSUME TypeOK, Listening, pc = "dispatch", NEW a \in Cons, CoreClose(a), pc' # "start"
    PROVE  Listening'
<1>1. /\ con'[a].kind = "none"
      /\ \A b \in Cons \ {a} : con'[b] = con[b]
  BY DEF CoreClose, TcpClose, TypeOK, NoCon
<1>2. Chan \in Cons
  BY DEF Cons
<1>3. QED
  BY <1>1, <1>2 DEF Listening

\* Every step of the main thread keeps the parts together.
LEMMA LoopKeeps ==
    ASSUME LoopInv, LoopStep
    PROVE  Registry' /\ Listening' /\ EventsCurrent' /\ EventsApart'
<1>. USE DEF LoopInv
<1>1. CASE EnterLoop
  BY <1>1, KeepsRegistry, KeepsListening, KeepsEvents DEF EnterLoop, timer
<1>2. CASE ChannelStart /\ UNCHANGED timer
  <2>1. pc = "start" /\ con[Chan].kind = "listener" /\ con[Chan].active = {}
    BY <1>2 DEF ChannelStart, Listening
  <2>2. Chan \in Cons /\ Port \in Fds /\ con[Chan].skt = Port
    BY <2>1 DEF Registry, Owns, Port, Cons
  <2>3. PICK act \in {{}, {"in"}} :
            /\ con' = [con EXCEPT ![Chan] = [kind |-> "listener", skt |-> Port, active |-> act]]
            /\ interest' = IF act = {} THEN interest
                           ELSE [interest EXCEPT ![Port] = [con |-> Chan, events |-> act]]
    <3>1. Watch(Chan, "listener", Port)
      BY <1>2 DEF ChannelStart
    <3>2. QED
      BY <3>1, WatchIs
  <2>4. UNCHANGED <<file, leaked, batch>> /\ pc' = "main"
    BY <1>2 DEF ChannelStart, timer
  <2>5. Registry'
    BY <2>1, <2>2, <2>3, <2>4, OpensRegistry DEF Kinds
  <2>6. /\ con'[Chan].kind = "listener" /\ con'[Chan].skt = con[Chan].skt
        /\ \A b \in Cons \ {Chan} : con'[b] = con[b]
    BY <2>2, <2>3 DEF TypeOK
  <2>7. Listening'
    BY <2>1, <2>4, <2>6 DEF Listening
  <2>8. \A e \in batch : e.con \in Cons
    BY DEF TypeOK, Event
  <2>9. EventsCurrent' /\ EventsApart'
    BY <2>4, <2>6, <2>8, KeepsEvents
  <2>10. QED
    BY <2>5, <2>7, <2>9
<1>3. CASE EventWait /\ UNCHANGED <<tcp, timer>>
  BY <1>3, KeepsRegistry, KeepsListening, WaitEvents DEF EventWait, timer
<1>4. ASSUME NEW e \in batch, TcpStep(e)
      PROVE  Registry' /\ Listening' /\ EventsCurrent' /\ EventsApart'
  <2>1. e.con \in Cons /\ con[e.con].kind # "none" /\ leaked' = leaked
    BY <1>4 DEF TcpStep, timer, TypeOK, Event, EventsCurrent
  <2>2. CASE Accept(e)
    <3>1. PICK c \in Clients, a \in FreeCons :
              /\ file' = [file EXCEPT ![NewFd] = c]
              /\ Watch(a, "input", NewFd)
              /\ IF con'[a].active = {} THEN pc' = "aborted" /\ UNCHANGED batch
                                        ELSE NextEvent(batch \ {e})
      BY <2>2 DEF Accept
    <3>2. PICK act \in {{}, {"in"}} :
              /\ con' = [con EXCEPT ![a] = [kind |-> "input", skt |-> NewFd, active |-> act]]
              /\ interest' = IF act = {} THEN interest
                             ELSE [interest EXCEPT ![NewFd] = [con |-> a, events |-> act]]
      BY <3>1, WatchIs
    <3>3. /\ a \in Cons /\ con[a] = NoCon /\ con[a].kind = "none"
          /\ NewFd \in Fds /\ file[NewFd] = "closed" /\ pc = "dispatch"
      BY <2>2, NewFdIsFree DEF Accept, Dispatched, FreeCons, Cons, NoCon
    <3>4. file'[NewFd] # "closed" /\ \A g \in Fds \ {NewFd} : file'[g] = file[g]
      BY <3>1, <3>3 DEF TypeOK
    <3>5. Registry'
      BY <2>1, <3>2, <3>3, <3>4, OpensRegistry DEF Kinds
    <3>6. con'[a].active = act /\ \A b \in Cons \ {a} : con'[b] = con[b]
      BY <3>2, <3>3 DEF TypeOK
    <3>7. batch' \subseteq batch /\ pc' # "start" /\ (act = {} => pc' = "aborted")
      BY <3>1, <3>3, <3>6 DEF NextEvent
    <3>8. Listening'
      BY <3>2, <3>3, <3>7, OpensListening
    <3>9. \A d \in batch : d.con \in Cons /\ d.con # a
      BY <3>3 DEF TypeOK, Event, EventsCurrent
    <3>10. EventsCurrent' /\ EventsApart'
      BY <3>6, <3>7, <3>9, KeepsEvents
    <3>11. QED
      BY <3>5, <3>8, <3>10
  <2>3. CASE InputError(e) \/ RecvEnds(e)
    <3>1. CoreClose(e.con) /\ NextEvent(batch \ {e}) /\ pc = "dispatch"
      BY <2>3 DEF InputError, CoreError, RecvEnds, Dispatched
    <3>2. batch' = batch \ {e} /\ pc' # "start"
      BY <3>1 DEF NextEvent
    <3>3. QED
      BY <2>1, <3>1, <3>2, ClosesRegistry, ClosesListening, ClosesEvents
  <2>4. CASE AcceptFails(e) \/ RecvGoesOn(e) \/ RecvSpins(e)
    <3>1. UNCHANGED <<con, file, interest>> /\ pc = "dispatch" /\ batch' \subseteq batch /\ pc' # "start"
      BY <2>4 DEF AcceptFails, RecvGoesOn, RecvSpins, NextEvent, Dispatched
    <3>2. QED
      BY <2>1, <3>1, KeepsRegistry, KeepsListening, KeepsEvents
  <2>5. QED
    BY <1>4, <2>2, <2>3, <2>4 DEF TcpStep
<1>5. CASE (\E e \in batch : TimerStep(e)) \/ (HandlerReturns /\ UNCHANGED tcp)
  <2>1. /\ UNCHANGED <<con, file, interest, leaked>> /\ pc # "aborted"
        /\ batch' \subseteq batch /\ pc' # "start"
    BY <1>5 DEF TimerStep, RecvExpired, RecvNotExpired, HandlerReturns, NextEvent, Dispatched, timer
  <2>2. QED
    BY <2>1, KeepsRegistry, KeepsListening, KeepsEvents
<1>6. QED
  BY <1>1, <1>2, <1>3, <1>4, <1>5 DEF LoopStep

\* So does every other step.
LEMMA OtherKeeps ==
    ASSUME LoopInv, TimerCalls \/ Time \/ \E c \in Clients : Peer(c)
    PROVE  Registry' /\ Listening' /\ EventsCurrent' /\ EventsApart'
<1>. USE DEF LoopInv
<1>1. ASSUME NEW d \in Delays, NEW h \in BOOLEAN, TimerNew(d, h)
      PROVE  Registry' /\ Listening' /\ EventsCurrent' /\ EventsApart'
  <2>1. PICK a \in FreeCons : /\ Watch(a, "timer", NewFd)
                              /\ pc' = IF con'[a].active = {} THEN "aborted" ELSE pc
    BY <1>1 DEF TimerNew
  <2>2. PICK act \in {{}, {"in"}} :
            /\ con' = [con EXCEPT ![a] = [kind |-> "timer", skt |-> NewFd, active |-> act]]
            /\ interest' = IF act = {} THEN interest
                           ELSE [interest EXCEPT ![NewFd] = [con |-> a, events |-> act]]
    BY <2>1, WatchIs
  <2>3. /\ a \in Cons /\ con[a] = NoCon /\ con[a].kind = "none"
        /\ NewFd \in Fds /\ file[NewFd] = "closed" /\ pc \in {"main", "handler"}
    BY <1>1, NewFdIsFree DEF TimerNew, Calling, FreeCons, Cons, NoCon
  <2>4. /\ file'[NewFd] # "closed" /\ \A g \in Fds \ {NewFd} : file'[g] = file[g]
        /\ UNCHANGED <<batch, leaked>>
    BY <1>1, <2>3 DEF TimerNew, TypeOK
  <2>5. Registry'
    BY <2>2, <2>3, <2>4, OpensRegistry DEF Kinds
  <2>6. con'[a].active = act /\ \A b \in Cons \ {a} : con'[b] = con[b]
    BY <2>2, <2>3 DEF TypeOK
  <2>7. Listening'
    BY <2>1, <2>2, <2>3, <2>6, OpensListening
  <2>8. \A e \in batch : e.con \in Cons /\ e.con # a
    BY <2>3 DEF TypeOK, Event, EventsCurrent
  <2>9. EventsCurrent' /\ EventsApart'
    BY <2>4, <2>6, <2>8, KeepsEvents
  <2>10. QED
    BY <2>5, <2>7, <2>9
<1>2. ASSUME NEW d \in Delays, TimerNewFails(d)
      PROVE  Registry' /\ Listening' /\ EventsCurrent' /\ EventsApart'
  <2>1. UNCHANGED <<con, interest, batch, pc>>
    BY <1>2 DEF TimerNewFails
  <2>2. CASE UNCHANGED <<file, leaked>>
    BY <2>1, <2>2, KeepsRegistry, KeepsListening, KeepsEvents
  <2>3. CASE /\ FreeFds # {}
             /\ file' = [file EXCEPT ![NewFd] = "timer"]
             /\ leaked' = leaked \cup {NewFd}
    <3>1. NewFd \in Fds /\ file[NewFd] = "closed"
      BY <2>3, NewFdIsFree
    <3>2. /\ file'[NewFd] = "timer" /\ NewFd \in leaked' /\ leaked \subseteq leaked'
          /\ \A g \in Fds \ {NewFd} : file'[g] = file[g]
      BY <2>3, <3>1 DEF TypeOK
    <3>3. \A a \in Cons : con[a].kind # "none" => Owns(a)'
      <4>. SUFFICES ASSUME NEW a \in Cons, con[a].kind # "none"
                    PROVE  Owns(a)'
        OBVIOUS
      <4>1. Owns(a)
        BY DEF Registry
      <4>2. file'[con[a].skt] = file[con[a].skt]
        BY <3>1, <3>2, <4>1 DEF Owns
      <4>3. QED
        BY <2>1, <4>1, <4>2 DEF Owns, Unwatched
    <3>4. Registry'
      BY <2>1, <3>2, <3>3 DEF Registry, NoCon, Unwatched
    <3>5. QED
      BY <2>1, <3>4, KeepsListening, KeepsEvents
  <2>4. QED
    BY <1>2, <2>2, <2>3 DEF TimerNewFails
<1>3. ASSUME UNCHANGED <<con, file, interest, batch, pc, leaked>>
      PROVE  Registry' /\ Listening' /\ EventsCurrent' /\ EventsApart'
  BY <1>3, KeepsRegistry, KeepsListening, KeepsEvents
<1>4. ASSUME NEW d \in Delays, NEW a \in Heap, UpdateTime(a, d) \/ UpdateTimeFails(a, d)
      PROVE  UNCHANGED <<con, file, interest, batch, pc, leaked>>
  BY <1>4 DEF UpdateTime, UpdateTimeFails, loop
<1>5. ASSUME NEW a \in Heap, NEW h \in BOOLEAN, UpdateHandle(a, h)
      PROVE  UNCHANGED <<con, file, interest, batch, pc, leaked>>
  BY <1>5 DEF UpdateHandle, loop
<1>6. ASSUME Time \/ \E c \in Clients : Peer(c)
      PROVE  UNCHANGED <<con, file, interest, batch, pc, leaked>>
  BY <1>6 DEF Time, Tick, Peer, Connect, Send, Reset, Does, timer
<1>7. QED
  BY <1>1, <1>2, <1>3, <1>4, <1>5, <1>6 DEF TimerCalls

\* The invariant holds at the start.
LEMMA InitLoop ==
    ASSUME Init
    PROVE  LoopInv
<1>1. \E f \in Fds : \A h \in Fds : f <= h
  BY LowestFd
<1>. DEFINE port == CHOOSE g \in Fds : \A h \in Fds : g <= h
<1>2. port \in Fds
  BY <1>1
<1>. HIDE DEF port
<1>3. /\ con = [a \in Cons |-> IF a = Chan THEN [kind |-> "listener", skt |-> port, active |-> {}]
                                           ELSE NoCon]
      /\ file = [g \in Fds |-> IF g = port THEN "listener" ELSE "closed"]
  BY DEF Init, TcpInit, port
<1>4. /\ ready = [g \in Fds |-> {}] /\ interest = [g \in Fds |-> Unwatched]
      /\ batch = {} /\ pc = "start" /\ leaked = {}
      /\ link = [c \in Clients |-> "away"] /\ says = [c \in Clients |-> {}]
  BY DEF Init, TcpInit, TimerInit, LoopInit
<1>5. TypeOK
  <2>1. /\ [kind |-> "listener", skt |-> port, active |-> {}] \in ConType
        /\ NoCon \in ConType
    BY <1>2 DEF ConType, Kinds, NoCon
  <2>2. Unwatched \in [con : Cons \cup {NULL}, events : SUBSET {"in", "out"}]
    BY DEF Unwatched
  <2>3. con \in [Cons -> ConType]
    BY <1>3, <2>1
  <2>4. interest \in [Fds -> [con : Cons \cup {NULL}, events : SUBSET {"in", "out"}]]
    BY <1>4, <2>2
  <2>5. file \in [Fds -> {"closed", "listener", "timer"} \cup Clients]
    BY <1>3
  <2>6. ready \in [Fds -> SUBSET {"read", "err"}] /\ says \in [Clients -> SUBSET {"read", "err"}]
    BY <1>4
  <2>7. /\ now \in Nat /\ due \in [Fds -> Nat] /\ calls \in Nat /\ asked \in [Cons -> Nat]
    BY DEF Init, TimerInit
  <2>8. handle \in [Cons -> BOOLEAN] /\ running \in BOOLEAN
    BY DEF Init, TimerInit
  <2>9. link \in [Clients -> {"away", "knocking", "open", "closed"}]
    BY <1>4
  <2>10. QED
    BY <1>4, <2>3, <2>4, <2>5, <2>6, <2>7, <2>8, <2>9 DEF TypeOK
<1>6. Chan \in Cons /\ con[Chan] = [kind |-> "listener", skt |-> port, active |-> {}]
      /\ \A a \in Cons \ {Chan} : con[a] = NoCon
  BY <1>3 DEF Cons
<1>7. NoCon.kind = "none"
  BY DEF NoCon
<1>8. Registry
  <2>1. Owns(Chan)
    BY <1>2, <1>3, <1>4, <1>6, <1>7 DEF Owns
  <2>2. QED
    BY <1>2, <1>3, <1>4, <1>6, <1>7, <2>1 DEF Registry
<1>9. Listening
  BY <1>6, <1>7 DEF Listening
<1>10. EventsCurrent /\ EventsApart
  BY <1>4 DEF EventsCurrent, EventsApart
<1>11. QED
  BY <1>5, <1>8, <1>9, <1>10 DEF LoopInv

\* The invariant is inductive.
LEMMA LoopInvariant == Spec => []LoopInv
<1>1. Init => LoopInv
  BY InitLoop
<1>2. LoopInv /\ [Next]_vars => LoopInv'
  <2>. SUFFICES ASSUME LoopInv, [Next]_vars
                PROVE  LoopInv'
    OBVIOUS
  <2>1. CASE LoopStep
    BY <2>1, LoopTypes, LoopKeeps DEF LoopInv
  <2>2. CASE TimerCalls \/ Time \/ \E c \in Clients : Peer(c)
    BY <2>2, OtherTypes, OtherKeeps DEF LoopInv
  <2>3. CASE UNCHANGED vars
    <3>1. TypeOK'
      BY <2>3 DEF LoopInv, TypeOK, vars, loop, tcp, timer
    <3>2. Registry' /\ Listening' /\ EventsCurrent' /\ EventsApart'
      BY <2>3, KeepsRegistry, KeepsListening, KeepsEvents DEF LoopInv, vars, loop, timer
    <3>3. QED
      BY <3>1, <3>2 DEF LoopInv
  <2>4. QED
    BY <2>1, <2>2, <2>3 DEF Next
<1>3. QED
  BY <1>1, <1>2, PTL DEF Spec

----------------------------------------------------------------------------
(* The theorems.                                                           *)

\* Type correctness of the event loop and its connections (core.c, epoll.c,
\* channel.c, timer.c).
THEOREM TypeCorrect == Spec => []TypeOK
<1>1. LoopInv => TypeOK
  BY DEF LoopInv
<1>2. QED
  BY <1>1, LoopInvariant, PTL

\* Whatever the handlers of a batch close, free and make, event_wait passes on
\* no event of a connection that is gone or is another one by now.
THEOREM EventsStayCurrent == Spec => []EventsCurrent
<1>1. LoopInv => EventsCurrent
  BY DEF LoopInv
<1>2. QED
  BY <1>1, LoopInvariant, PTL

\* Descriptors, connections and epoll's interest list agree between the steps
\* of clive_core_core, listener_recv and clive_timer_new.
THEOREM EachIsOwned == Spec => []Owned
<1>1. LoopInv => Owned
  BY DEF LoopInv, Registry, Owns, Listening, Owned
<1>2. QED
  BY <1>1, LoopInvariant, PTL

----------------------------------------------------------------------------
(* Timers are not early.                                                   *)

\* What is asked for, in whole seconds, is not after the expiry.
LEMMA ExpiryIs ==
    ASSUME now \in Nat, NEW msecs \in Nat
    PROVE  /\ Expiry(msecs) \in Nat
           /\ now + (msecs \div MsecPerSec) * NsecPerSec \in Nat
           /\ now + (msecs \div MsecPerSec) * NsecPerSec <= Expiry(msecs)
<1>. DEFINE n == NsecPerSec
            s == now \div n
            r == now % n
            q == msecs \div MsecPerSec
            m == msecs % MsecPerSec
<1>1. s \in Nat /\ r \in Nat /\ q \in Nat /\ m \in Nat /\ n \in Nat /\ Expiry(msecs) \in Nat
  BY ExpiryIsInt
<1>2. now = n * s + r
  OBVIOUS
<1>3. Expiry(msecs) = (s + q) * n + (r + m)
  BY DEF Expiry, TvSec, TvNsec
<1>. HIDE DEF n, s, r, q, m
<1>4. (s + q) * n = n * s + q * n /\ q * n \in Nat
  <2>1. \A i, j, k \in Nat : (i + j) * k = k * i + j * k /\ j * k \in Nat
    OBVIOUS
  <2>2. QED
    BY <1>1, <2>1
<1>5. n * s \in Nat
  <2>1. \A i, j \in Nat : i * j \in Nat
    OBVIOUS
  <2>2. QED
    BY <1>1, <2>1
<1>6. Expiry(msecs) = now + q * n + m
  BY <1>1, <1>2, <1>3, <1>4, <1>5
<1>7. now + q * n \in Nat /\ now + q * n <= Expiry(msecs)
  BY <1>1, <1>4, <1>6
<1>8. QED
  BY <1>1, <1>7 DEF q, n

\* Setting a timer: it is due at its expiry, or can be read at once.
LEMMA SetsDue ==
    ASSUME TypeOK, now > 0, NEW a \in Cons, NEW f \in Fds, NEW msecs \in Delays,
           Settime(f, msecs), Asks(a, msecs)
    PROVE  /\ due'[f] = 0 \/ due'[f] > now
           /\ ready'[f] # {} => asked'[a] \in 1..now /\ due'[f] = 0
           /\ due'[f] # 0 => asked'[a] \in 1..due'[f]
           /\ \A g \in Fds \ {f} : due'[g] = due[g] /\ ready'[g] = ready[g]
           /\ \A b \in Cons \ {a} : asked'[b] = asked[b]
<1>. DEFINE at == now + (msecs \div MsecPerSec) * NsecPerSec
<1>1. now \in Nat /\ msecs \in Nat
  BY DEF TypeOK
<1>2. Expiry(msecs) \in Nat /\ at \in Nat /\ at <= Expiry(msecs)
  BY <1>1, ExpiryIs
<1>3. at >= now
  <2>1. \A i, j \in Nat : i * j \in Nat
    OBVIOUS
  <2>2. (msecs \div MsecPerSec) * NsecPerSec \in Nat
    BY <1>1, <2>1, ExpiryIsInt
  <2>3. QED
    BY <1>1, <2>2
<1>4. asked'[a] = at /\ \A b \in Cons \ {a} : asked'[b] = asked[b]
  BY DEF Asks, TypeOK
<1>. HIDE DEF at
<1>5. /\ ready'[f] = IF Expiry(msecs) <= now THEN {"read"} ELSE {}
      /\ due'[f] = IF Expiry(msecs) <= now THEN 0 ELSE Expiry(msecs)
      /\ \A g \in Fds \ {f} : due'[g] = due[g] /\ ready'[g] = ready[g]
  BY DEF Settime, TypeOK
<1>6. QED
  BY <1>1, <1>2, <1>3, <1>4, <1>5

\* Steps that leave the timers that exist as they are.
LEMMA KeepsDue ==
    ASSUME Registry, TimersDue, UNCHANGED <<now, due, asked>>,
           \A a \in Cons : con'[a].kind = "timer" =>
               /\ con'[a] = con[a]
               /\ file'[con[a].skt] = file[con[a].skt]
               /\ ready'[con[a].skt] \in {{}, ready[con[a].skt]}
    PROVE  TimersDue'
<1>1. now' > 0 /\ \A f \in Fds : due'[f] = 0 \/ due'[f] > now'
  BY DEF TimersDue
<1>2. ASSUME NEW a \in Cons, con'[a].kind = "timer"
      PROVE  Due(a)'
  <2>1. Due(a) /\ con'[a] = con[a]
    BY <1>2 DEF TimersDue
  <2>2. QED
    BY <1>2, <2>1 DEF Due
<1>3. QED
  BY <1>1, <1>2 DEF TimersDue

\* A timer has a descriptor of its own, which is not the channel's.
LEMMA TimerApart ==
    ASSUME LoopInv, TimersDue, NEW a \in Cons, con[a].kind = "timer"
    PROVE  /\ a # Chan /\ Due(a) /\ con[a].skt \in Fds /\ con[a].skt # Port
           /\ file[con[a].skt] = "timer"
           /\ \A b \in Cons : con[b].kind # "none" /\ con[b].skt = con[a].skt => b = a
<1>1. Chan \in Cons /\ a # Chan
  BY DEF LoopInv, Listening, Cons
<1>2. Owns(a) /\ Due(a)
  BY DEF LoopInv, Registry, TimersDue
<1>3. con[a].skt # Port
  <2>1. CASE con[Chan].kind = "none"
    <3>1. Port = 0 /\ 0 \notin Fds
      BY <1>1, <2>1 DEF LoopInv, Registry, NoCon, Port
    <3>2. QED
      BY <1>2, <3>1 DEF Owns
  <2>2. CASE con[Chan].kind # "none"
    BY <1>1, <1>2, <2>2 DEF Owns, Port
  <2>3. QED
    BY <2>1, <2>2
<1>4. QED
  BY <1>1, <1>2, <1>3 DEF Owns, Due

\* No step of the main thread makes a timer's handler come early.
LEMMA LoopDue ==
    ASSUME LoopInv, TimersDue, LoopStep
    PROVE  TimersDue'
<1>. USE DEF LoopInv
<1>1. CASE EnterLoop \/ (EventWait /\ UNCHANGED <<tcp, timer>>) \/ (HandlerReturns /\ UNCHANGED tcp)
  <2>1. UNCHANGED <<con, file, ready, now, due, asked>>
    BY <1>1 DEF EnterLoop, EventWait, HandlerReturns, timer
  <2>2. QED
    BY <2>1, KeepsDue
<1>2. CASE ChannelStart /\ UNCHANGED timer
  <2>1. PICK act \in {{}, {"in"}} :
            con' = [con EXCEPT ![Chan] = [kind |-> "listener", skt |-> Port, active |-> act]]
    <3>1. Watch(Chan, "listener", Port)
      BY <1>2 DEF ChannelStart
    <3>2. QED
      BY <3>1, WatchIs
  <2>2. Chan \in Cons
    BY DEF Cons
  <2>3. con'[Chan].kind = "listener" /\ \A b \in Cons \ {Chan} : con'[b] = con[b]
    BY <2>1, <2>2 DEF TypeOK
  <2>4. UNCHANGED <<file, ready, now, due, asked>>
    BY <1>2 DEF ChannelStart, timer
  <2>5. QED
    BY <2>3, <2>4, KeepsDue
<1>3. ASSUME NEW e \in batch, TcpStep(e)
      PROVE  TimersDue'
  <2>1. e.con \in Cons /\ con[e.con].kind # "none" /\ UNCHANGED <<now, due, asked>>
    BY <1>3 DEF TcpStep, timer, TypeOK, Event, EventsCurrent
  <2>2. CASE Accept(e)
    <3>1. PICK c \in Clients, a \in FreeCons :
              /\ file' = [file EXCEPT ![NewFd] = c]
              /\ ready' = [ready EXCEPT
                    ![NewFd] = says[c],
                    ![Port] = {x \in {"read"} : \E d \in Clients \ {c} : link[d] = "knocking"}]
              /\ Watch(a, "input", NewFd)
      BY <2>2 DEF Accept
    <3>2. PICK act \in {{}, {"in"}} :
              con' = [con EXCEPT ![a] = [kind |-> "input", skt |-> NewFd, active |-> act]]
      BY <3>1, WatchIs
    <3>3. a \in Cons /\ NewFd \in Fds /\ file[NewFd] = "closed"
      BY <2>2, NewFdIsFree DEF Accept, FreeCons, Cons
    <3>4. con'[a].kind = "input" /\ \A b \in Cons \ {a} : con'[b] = con[b]
      BY <3>2, <3>3 DEF TypeOK
    <3>5. ASSUME NEW b \in Cons, con'[b].kind = "timer"
          PROVE  /\ con'[b] = con[b]
                 /\ file'[con[b].skt] = file[con[b].skt]
                 /\ ready'[con[b].skt] \in {{}, ready[con[b].skt]}
      <4>1. con'[b] = con[b] /\ con[b].kind = "timer"
        BY <3>4, <3>5
      <4>2. con[b].skt \in Fds /\ con[b].skt # Port /\ con[b].skt # NewFd
        BY <3>3, <4>1, TimerApart
      <4>3. QED
        BY <3>1, <4>1, <4>2 DEF TypeOK
    <3>6. QED
      BY <2>1, <3>5, KeepsDue
  <2>3. CASE InputError(e) \/ RecvEnds(e)
    <3>1. CoreClose(e.con)
      BY <2>3 DEF InputError, CoreError, RecvEnds
    <3>2. con'[e.con].kind = "none" /\ \A b \in Cons \ {e.con} : con'[b] = con[b]
      BY <2>1, <3>1 DEF CoreClose, TcpClose, TypeOK, NoCon
    <3>3. ASSUME NEW b \in Cons, con'[b].kind = "timer"
          PROVE  /\ con'[b] = con[b]
                 /\ file'[con[b].skt] = file[con[b].skt]
                 /\ ready'[con[b].skt] \in {{}, ready[con[b].skt]}
      <4>1. b # e.con /\ con'[b] = con[b] /\ con[b].kind = "timer"
        BY <3>2, <3>3
      <4>2. con[b].skt \in Fds /\ con[b].skt # con[e.con].skt
        BY <2>1, <4>1, TimerApart
      <4>3. QED
        BY <3>1, <4>1, <4>2 DEF CoreClose, TcpClose, TypeOK
    <3>4. QED
      BY <2>1, <3>3, KeepsDue
  <2>4. CASE AcceptFails(e) \/ RecvGoesOn(e) \/ RecvSpins(e)
    <3>1. UNCHANGED <<con, file, ready>>
      BY <2>4 DEF AcceptFails, RecvGoesOn, RecvSpins
    <3>2. QED
      BY <2>1, <3>1, KeepsDue
  <2>5. QED
    BY <1>3, <2>2, <2>3, <2>4 DEF TcpStep
<1>4. ASSUME NEW e \in batch, TimerStep(e)
      PROVE  TimersDue'
  <2>1. CASE RecvNotExpired(e)
    <3>1. UNCHANGED <<con, file, ready, now, due, asked>>
      BY <2>1 DEF RecvNotExpired, timer
    <3>2. QED
      BY <3>1, KeepsDue
  <2>2. CASE RecvExpired(e)
    <3>. DEFINE f == con[e.con].skt
    <3>1. e.con \in Cons /\ con[e.con].kind = "timer" /\ ready[f] # {}
      BY <2>2 DEF RecvExpired, Dispatched, TypeOK, Event
    <3>2. Due(e.con) /\ f \in Fds /\ due[f] = 0
      BY <3>1, TimerApart DEF Due
    <3>3. /\ UNCHANGED <<con, file, now, due>>
          /\ ready' = [ready EXCEPT ![f] = {}] /\ asked' = [asked EXCEPT ![e.con] = 0]
      BY <2>2 DEF RecvExpired
    <3>4. ASSUME NEW b \in Cons, con[b].kind = "timer"
          PROVE  Due(b)'
      <4>1. Due(b) /\ con[b].skt \in Fds
        BY <3>4, TimerApart
      <4>2. CASE b = e.con
        <5>1. ready'[f] = {}
          BY <3>2, <3>3 DEF TypeOK
        <5>2. QED
          BY <3>2, <3>3, <4>1, <4>2, <5>1 DEF Due
      <4>3. CASE b # e.con
        <5>1. con[b].skt # f
          BY <3>1, <3>4, <4>3, TimerApart
        <5>2. ready'[con[b].skt] = ready[con[b].skt] /\ asked'[b] = asked[b]
          BY <3>3, <4>1, <4>3, <5>1 DEF TypeOK
        <5>3. QED
          BY <3>3, <4>1, <5>2 DEF Due
      <4>4. QED
        BY <4>2, <4>3
    <3>5. QED
      BY <3>3, <3>4 DEF TimersDue
  <2>3. QED
    BY <1>4, <2>1, <2>2 DEF TimerStep
<1>5. QED
  BY <1>1, <1>2, <1>3, <1>4 DEF LoopStep

\* Setting one timer leaves the others as they are.
LEMMA SettingDue ==
    ASSUME LoopInv, TimersDue, NEW a \in Cons, NEW f \in Fds, NEW msecs \in Delays,
           Settime(f, msecs), Asks(a, msecs), now' = now,
           con'[a].skt = f, file'[f] = "timer",
           \A b \in Cons \ {a} : con'[b] = con[b],
           \A g \in Fds \ {f} : file'[g] = file[g],
           \A b \in Cons \ {a} : con[b].kind = "timer" => con[b].skt # f
    PROVE  TimersDue'
<1>1. now \in Nat /\ now > 0
  BY DEF LoopInv, TypeOK, TimersDue
<1>2. /\ due'[f] = 0 \/ due'[f] > now
      /\ ready'[f] # {} => asked'[a] \in 1..now /\ due'[f] = 0
      /\ due'[f] # 0 => asked'[a] \in 1..due'[f]
      /\ \A g \in Fds \ {f} : due'[g] = due[g] /\ ready'[g] = ready[g]
      /\ \A b \in Cons \ {a} : asked'[b] = asked[b]
  BY <1>1, SetsDue DEF LoopInv
<1>3. ASSUME NEW b \in Cons, con'[b].kind = "timer"
      PROVE  Due(b)'
  <2>1. CASE b = a
    BY <1>2, <2>1 DEF Due
  <2>2. CASE b # a
    <3>1. con'[b] = con[b] /\ con[b].kind = "timer"
      BY <1>3, <2>2
    <3>2. Due(b) /\ con[b].skt \in Fds \ {f}
      BY <2>2, <3>1, TimerApart
    <3>3. /\ file'[con[b].skt] = file[con[b].skt] /\ ready'[con[b].skt] = ready[con[b].skt]
          /\ due'[con[b].skt] = due[con[b].skt] /\ asked'[b] = asked[b]
      BY <1>2, <2>2, <3>2
    <3>4. QED
      BY <3>1, <3>2, <3>3 DEF Due
  <2>3. QED
    BY <2>1, <2>2
<1>4. now' > 0 /\ \A g \in Fds : due'[g] = 0 \/ due'[g] > now'
  BY <1>1, <1>2 DEF TimersDue
<1>5. QED
  BY <1>3, <1>4 DEF TimersDue

\* Nor do the clock, the clients and the callers of timer.h.
LEMMA OtherDue ==
    ASSUME LoopInv, TimersDue, TimerCalls \/ Time \/ \E c \in Clients : Peer(c)
    PROVE  TimersDue'
<1>. USE DEF LoopInv
<1>1. ASSUME NEW d \in Delays, NEW h \in BOOLEAN, TimerNew(d, h)
      PROVE  TimersDue'
  <2>1. PICK a \in FreeCons : Watch(a, "timer", NewFd) /\ Asks(a, d)
    BY <1>1 DEF TimerNew
  <2>2. PICK act \in {{}, {"in"}} :
            con' = [con EXCEPT ![a] = [kind |-> "timer", skt |-> NewFd, active |-> act]]
    BY <2>1, WatchIs
  <2>3. a \in Cons /\ NewFd \in Fds /\ file[NewFd] = "closed"
    BY <1>1, NewFdIsFree DEF TimerNew, FreeCons, Cons
  <2>4. con'[a].skt = NewFd /\ \A b \in Cons \ {a} : con'[b] = con[b]
    BY <2>2, <2>3 DEF TypeOK
  <2>5. file'[NewFd] = "timer" /\ \A g \in Fds \ {NewFd} : file'[g] = file[g]
    BY <1>1, <2>3 DEF TimerNew, TypeOK
  <2>6. Settime(NewFd, d) /\ now' = now
    BY <1>1 DEF TimerNew
  <2>7. \A b \in Cons \ {a} : con[b].kind = "timer" => con[b].skt # NewFd
    BY <2>3, TimerApart
  <2>8. QED
    BY <2>1, <2>3, <2>4, <2>5, <2>6, <2>7, SettingDue
<1>2. ASSUME NEW d \in Delays, TimerNewFails(d)
      PROVE  TimersDue'
  <2>1. UNCHANGED <<con, ready, now, due, asked>>
    BY <1>2 DEF TimerNewFails
  <2>2. ASSUME NEW b \in Cons, con[b].kind = "timer"
        PROVE  file'[con[b].skt] = file[con[b].skt]
    <3>1. con[b].skt \in Fds /\ file[con[b].skt] = "timer"
      BY <2>2, TimerApart
    <3>2. CASE file' = file
      BY <3>2
    <3>3. CASE FreeFds # {} /\ file' = [file EXCEPT ![NewFd] = "timer"]
      <4>1. con[b].skt # NewFd
        BY <3>1, <3>3, NewFdIsFree
      <4>2. QED
        BY <3>1, <3>3, <4>1 DEF TypeOK
    <3>4. QED
      BY <1>2, <3>2, <3>3 DEF TimerNewFails
  <2>3. QED
    BY <2>1, <2>2, KeepsDue
<1>3. ASSUME NEW d \in Delays, NEW a \in Heap, UpdateTime(a, d)
      PROVE  TimersDue'
  <2>1. a \in Cons /\ con[a].kind = "timer"
    BY <1>3 DEF UpdateTime, Timers, Cons
  <2>2. /\ con[a].skt \in Fds /\ file[con[a].skt] = "timer"
        /\ \A b \in Cons \ {a} : con[b].kind = "timer" => con[b].skt # con[a].skt
    BY <2>1, TimerApart
  <2>3. Settime(con[a].skt, d) /\ Asks(a, d) /\ UNCHANGED <<con, file, now>>
    BY <1>3 DEF UpdateTime
  <2>4. QED
    BY <2>1, <2>2, <2>3, SettingDue
<1>4. ASSUME NEW a \in Heap, NEW d, NEW h, UpdateTimeFails(a, d) \/ UpdateHandle(a, h)
      PROVE  TimersDue'
  <2>1. UNCHANGED <<con, file, ready, now, due, asked>>
    BY <1>4 DEF UpdateTimeFails, UpdateHandle, loop
  <2>2. QED
    BY <2>1, KeepsDue
<1>5. CASE Time
  <2>1. now \in Nat /\ now' = now + 1 /\ UNCHANGED <<con, file, asked>>
    BY <1>5 DEF Time, Tick, TypeOK
  <2>2. \A f \in Fds : /\ due[f] \in Nat
                       /\ ready'[f] = IF due[f] = now' THEN {"read"} ELSE ready[f]
                       /\ due'[f] = IF due[f] = now' THEN 0 ELSE due[f]
    BY <1>5, <2>1 DEF Time, Tick, TypeOK
  <2>3. now' > 0 /\ \A f \in Fds : due'[f] = 0 \/ due'[f] > now'
    BY <2>1, <2>2 DEF TimersDue
  <2>4. ASSUME NEW b \in Cons, con[b].kind = "timer"
        PROVE  Due(b)'
    <3>. DEFINE f == con[b].skt
    <3>1. Due(b) /\ f \in Fds
      BY <2>4, TimerApart
    <3>. HIDE DEF f
    <3>2. ready'[f] # {} => asked[b] \in 1..now' /\ due'[f] = 0
      <4>1. CASE due[f] = now'
        <5>1. now' # 0
          BY <2>1
        <5>2. asked[b] \in 1..now' /\ due'[f] = 0
          BY <2>2, <3>1, <4>1, <5>1 DEF Due, f
        <5>3. QED
          BY <5>2
      <4>2. CASE due[f] # now'
        <5>1. ready'[f] = ready[f] /\ due'[f] = due[f]
          BY <2>2, <3>1, <4>2
        <5>2. ready[f] # {} => asked[b] \in 1..now /\ due[f] = 0
          BY <3>1 DEF Due, f
        <5>3. QED
          BY <2>1, <5>1, <5>2
      <4>3. QED
        BY <4>1, <4>2
    <3>3. due'[f] # 0 => asked[b] \in 1..due'[f]
      BY <2>2, <3>1 DEF Due, f
    <3>4. QED
      BY <2>1, <3>1, <3>2, <3>3 DEF Due, f
  <2>5. QED
    BY <2>1, <2>3, <2>4 DEF TimersDue
<1>6. ASSUME NEW c \in Clients, Peer(c)
      PROVE  TimersDue'
  <2>1. UNCHANGED <<con, file, now, due, asked>>
    BY <1>6 DEF Peer, Connect, Send, Reset, Does, timer
  <2>2. ASSUME NEW b \in Cons, con[b].kind = "timer"
        PROVE  ready'[con[b].skt] = ready[con[b].skt]
    <3>1. con[b].skt \in Fds /\ con[b].skt # Port /\ file[con[b].skt] = "timer"
      BY <2>2, TimerApart
    <3>2. CASE Connect(c)
      BY <3>1, <3>2 DEF Connect, TypeOK
    <3>3. ASSUME NEW what, Does(c, what)
          PROVE  ready'[con[b].skt] = ready[con[b].skt]
      BY <3>1, <3>3 DEF Does, TypeOK
    <3>4. QED
      BY <1>6, <3>2, <3>3 DEF Peer, Send, Reset
  <2>3. QED
    BY <2>1, <2>2, KeepsDue
<1>7. QED
  BY <1>1, <1>2, <1>3, <1>4, <1>5, <1>6 DEF TimerCalls

\* The handler that is called is one whose time has come.
LEMMA CalledIsDue ==
    ASSUME LoopInv, TimersDue, [Next]_vars, pc = "dispatch", pc' = "handler",
           NEW e \in batch \ batch'
    PROVE  asked[e.con] \in 1..now
<1>1. PICK d \in batch : RecvExpired(d)
  <2>1. LoopStep
    BY DEF Next, TimerCalls, TimerNew, TimerNewFails, UpdateTime, UpdateTimeFails, UpdateHandle,
           Calling, Time, Tick, Peer, Connect, Send, Reset, Does, vars, loop
  <2>2. \E d \in batch : TcpStep(d) \/ TimerStep(d)
    BY <2>1 DEF LoopStep, EnterLoop, ChannelStart, EventWait, HandlerReturns
  <2>3. QED
    BY <2>2 DEF TcpStep, TimerStep, Accept, AcceptFails, InputError, CoreError, RecvEnds,
                RecvGoesOn, RecvSpins, RecvNotExpired, NextEvent
<1>2. e = d
  BY <1>1 DEF RecvExpired
<1>3. e.con \in Cons /\ con[e.con].kind = "timer" /\ ready[con[e.con].skt] # {}
  BY <1>1, <1>2 DEF RecvExpired, Dispatched, LoopInv, TypeOK, Event
<1>4. QED
  BY <1>3, TimerApart DEF Due

\* The handler of a timer is called once for each time it was set, and not
\* before the whole seconds asked for (clive_timer_new, clive_timer_update_time
\* and con_recv of timer.c).
THEOREM NeverEarly == Spec => NotEarly
<1>. DEFINE Inv == LoopInv /\ TimersDue
<1>1. Init => Inv
  <2>. SUFFICES ASSUME Init
                PROVE  TimersDue
    BY InitLoop
  <2>1. now > 0 /\ \A f \in Fds : due[f] = 0
    BY DEF Init, TimerInit
  <2>2. \A a \in Cons : con[a].kind # "timer"
    BY DEF Init, TcpInit, NoCon
  <2>3. QED
    BY <2>1, <2>2 DEF TimersDue
<1>2. Inv /\ [Next]_vars => TimersDue'
  <2>. SUFFICES ASSUME LoopInv, TimersDue, [Next]_vars
                PROVE  TimersDue'
    OBVIOUS
  <2>1. CASE LoopStep
    BY <2>1, LoopDue
  <2>2. CASE TimerCalls \/ Time \/ \E c \in Clients : Peer(c)
    BY <2>2, OtherDue
  <2>3. CASE UNCHANGED vars
    <3>1. UNCHANGED <<con, file, ready, now, due, asked>>
      BY <2>3 DEF vars, loop, timer
    <3>2. QED
      BY <3>1, KeepsDue DEF LoopInv
  <2>4. QED
    BY <2>1, <2>2, <2>3 DEF Next
<1>3. Inv /\ [Next]_vars =>
          [pc = "dispatch" /\ pc' = "handler" =>
              \A e \in batch \ batch' : asked[e.con] \in 1..now]_vars
  BY CalledIsDue
<1>4. QED
  BY <1>1, <1>2, <1>3, LoopInvariant, PTL DEF Spec, NotEarly
=============================================================================
