------------------------------- MODULE Inputs -------------------------------
(***************************************************************************)
(* The main thread after it has read the configuration: one event loop for *)
(* the listening socket of a tcp channel, the clients accepted from it and *)
(* the timers, which share the descriptors of the process and the heap.    *)
(***************************************************************************)
EXTENDS TcpInput, Timer

vars == <<loop, tcp, timer>>

Init == TcpInit /\ TimerInit

\* main comes to while (1) event_wait.
EnterLoop ==
    /\ pc = "main"
    /\ pc' = "wait"
    /\ UNCHANGED <<con, file, ready, interest, batch, tcp, timer>>

TcpStep(e) ==
    /\ \/ Accept(e) \/ AcceptFails(e) \/ InputError(e)
       \/ RecvEnds(e) \/ RecvGoesOn(e) \/ RecvSpins(e)
    /\ UNCHANGED timer

TimerStep(e) ==
    /\ RecvExpired(e) \/ RecvNotExpired(e)
    /\ UNCHANGED tcp

LoopStep ==
    \/ EnterLoop
    \/ ChannelStart /\ UNCHANGED timer
    \/ EventWait /\ UNCHANGED <<tcp, timer>>
    \/ \E e \in batch : TcpStep(e) \/ TimerStep(e)
    \/ HandlerReturns /\ UNCHANGED tcp

TimerCalls ==
    /\ \/ \E d \in Delays :
             \/ \E h \in BOOLEAN : TimerNew(d, h)
             \/ TimerNewFails(d)
             \/ \E a \in Heap : UpdateTime(a, d) \/ UpdateTimeFails(a, d)
       \/ \E a \in Heap, h \in BOOLEAN : UpdateHandle(a, h)
    /\ UNCHANGED tcp

\* What happens outside; what does after the process stopped is left out.
Peer(c) == ~Stopped /\ (Connect(c) \/ Send(c) \/ Reset(c)) /\ UNCHANGED timer
Time == ~Stopped /\ Tick /\ UNCHANGED tcp

Next ==
    \/ LoopStep
    \/ TimerCalls
    \/ Time
    \/ \E c \in Clients : Peer(c)

Spec == Init /\ [][Next]_vars

\* The thread runs on and handlers return; clients and callers owe nothing.
FairSpec == Spec /\ WF_vars(LoopStep) /\ WF_vars(Time)

----------------------------------------------------------------------------
(* Properties.                                                             *)

Kinds == {"none", "listener", "input", "timer"}
ConType == [kind : Kinds, skt : Fds \cup {0}, active : SUBSET {"in", "out"}]
Event == [con : Cons, fd : Fds, events : SUBSET {"read", "err", "write"}]

\* The variables keep their types.
TypeOK ==
    /\ con \in [Cons -> ConType]
    /\ file \in [Fds -> {"closed", "listener", "timer"} \cup Clients]
    /\ ready \in [Fds -> SUBSET {"read", "err"}]
    /\ interest \in [Fds -> [con : Cons \cup {NULL}, events : SUBSET {"in", "out"}]]
    /\ batch \subseteq Event
    /\ pc \in {"start", "main", "wait", "dispatch", "handler", "aborted", "stuck"}
    /\ link \in [Clients -> {"away", "knocking", "open", "closed"}]
    /\ says \in [Clients -> SUBSET {"read", "err"}]
    /\ now \in Nat /\ due \in [Fds -> Nat]
    /\ handle \in [Cons -> BOOLEAN] /\ running \in BOOLEAN
    /\ calls \in Nat /\ asked \in [Cons -> Nat]
    /\ leaked \subseteq Fds

\* No event is handled for a connection that is gone, or that has another
\* descriptor by now, though the batch keeps pointers while its handlers free,
\* close and allocate; and none is a write event, for which there is no handler.
EventsCurrent ==
    \A e \in batch :
        /\ con[e.con].kind # "none" /\ con[e.con].skt = e.fd
        /\ "write" \notin e.events

\* Descriptors, connections and the interest list agree: each open descriptor
\* belongs to one connection, which epoll points to, and none is lost but by
\* a timer whose expiry was refused. (The channel's listener may be refused.)
Owned ==
    pc \notin {"start", "aborted"} =>
        /\ \A a \in Cons : con[a].kind # "none" =>
              /\ file[con[a].skt] # "closed"
              /\ interest[con[a].skt] = IF con[a].active = {} THEN Unwatched
                                        ELSE [con |-> a, events |-> con[a].active]
              /\ con[a].active = {} => a = Chan
        /\ \A f \in Fds : file[f] # "closed" /\ f \notin leaked =>
              \E a \in Cons : con[a].kind # "none" /\ con[a].skt = f

\* A timer's handler is called once for each time it was set, and not before
\* the whole seconds asked for, also if it was set anew while its event was in
\* the batch. (The rest of a second is added as nanoseconds and lost.)
NotEarly ==
    [][pc = "dispatch" /\ pc' = "handler" =>
          \A e \in batch \ batch' : asked[e.con] \in 1..now]_vars

\* Its handler is called, or the loop stops.
TimersServed ==
    \A a \in Heap : asked[a] # 0 ~> (asked[a] = 0 \/ Stopped)

\* If descriptors do not stay out, a client that waits is accepted, unless epoll
\* refused the listener: accept may have failed before for want of a descriptor,
\* and others that only keep the loop busy do not prevent it.
ClientsAccepted ==
    <>[](FreeFds # {}) =>
        \A c \in Clients : link[c] = "knocking" ~>
            \/ link[c] # "knocking" \/ Stopped
            \/ pc # "start" /\ con[Chan].active = {}
=============================================================================
