----------------------------- MODULE EventLoop ------------------------------
(***************************************************************************)
(* The event loop of the main thread, common/epoll.c and common/core.c,    *)
(* and the kernel beneath it: descriptors, what is ready on them, and the  *)
(* interest list, which points to connections. Modules TcpInput and Timer  *)
(* add the handlers of two kinds of connections, module Inputs composes    *)
(* them.                                                                   *)
(***************************************************************************)
EXTENDS Integers

CONSTANTS
    NULL,
    Fds,   \* bound: descriptors the process may have for its inputs
    Heap,  \* bound: addresses at which calloc finds room for a struct con
    Chan   \* &channel->connection

Cons == Heap \cup {Chan}

ASSUME LoopAssumption ==
    /\ Fds \subseteq Nat \ {0} /\ Fds # {}
    /\ Chan \notin Heap /\ NULL \notin Cons

VARIABLES
    con,       \* con[a]: the struct con at a, NoCon if there is none
    file,      \* file[f]: what descriptor f is open on
    ready,     \* ready[f]: what epoll would report of f
    interest,  \* interest[f]: event.data.ptr and event.events
    batch,     \* evb->event: the events not yet handled
    pc         \* where the main thread is

loop == <<con, file, ready, interest, batch, pc>>

NoCon     == [kind |-> "none", skt |-> 0, active |-> {}]
Unwatched == [con |-> NULL, events |-> {}]

\* An ASSERT failed and the process is gone, or a handler never returns.
Stopped == pc \in {"aborted", "stuck"}

FreeFds == {f \in Fds : file[f] = "closed"}
FreeCons == {a \in Heap : con[a] = NoCon}

\* event_base_create
LoopInit ==
    /\ interest = [f \in Fds |-> Unwatched]
    /\ batch = {}

\* The kernel gives the lowest descriptor that is free.
NewFd == CHOOSE f \in FreeFds : \A g \in FreeFds : f <= g

\* event_add_conn: epoll watches the descriptor in both directions or refuses;
\* active stands for recv_active and send_active.
EventAddConn(c) == {c, [c EXCEPT !.active = {"in", "out"}]}

\* event_del_out, which first asserts recv_active.
EventDelOut(c) == [c EXCEPT !.active = @ \ {"out"}]

\* The two calls, for a connection of this kind that is made at a with the
\* descriptor f; the outcome is whether con'[a] is active.
Watch(a, kind, f) ==
    \E c \in EventAddConn([kind |-> kind, skt |-> f, active |-> {}]) :
        /\ con' = [con EXCEPT ![a] = EventDelOut(c)]
        /\ interest' = IF c.active = {} THEN interest
                       ELSE [interest EXCEPT ![f] = [con |-> a, events |-> EventDelOut(c).active]]

\* EPOLLERR, EPOLLIN with EPOLLHUP, and EPOLLOUT, which is always there.
Occurs(f) == IF interest[f] = Unwatched THEN {}
             ELSE ready[f] \cup (IF "out" \in interest[f].events THEN {"write"} ELSE {})

\* epoll_wait reports everything that is ready, level-triggered; with nothing
\* it returns after 500 ms and main calls it again.
EventWait ==
    /\ pc = "wait"
    /\ \E f \in Fds : Occurs(f) # {}
    /\ batch' = {[con |-> interest[f].con, fd |-> f, events |-> Occurs(f)] :
                    f \in {g \in Fds : Occurs(g) # {}}}
    /\ pc' = "dispatch"
    /\ UNCHANGED <<con, file, ready, interest>>

\* The next event, or back to epoll_wait.
NextEvent(rest) ==
    /\ batch' = rest
    /\ pc' = IF rest = {} THEN "wait" ELSE "dispatch"

\* clive_core_core comes to the recv handler of a connection of this kind.
Dispatched(e, kind) ==
    /\ pc = "dispatch" /\ e \in batch
    /\ con[e.con].kind = kind
    /\ "err" \notin e.events

EventDelConn(f) == interest' = [interest EXCEPT ![f] = Unwatched]

\* Faulty: the descriptor is not closed.
CoreCloseKeeps(a) ==
    /\ EventDelConn(con[a].skt)
    /\ con' = [con EXCEPT ![a] = NoCon]
    /\ UNCHANGED <<file, ready>>

\* tcp_close
TcpClose(a) ==
    /\ file' = [file EXCEPT ![con[a].skt] = "closed"]
    /\ ready' = [ready EXCEPT ![con[a].skt] = {}]
    /\ con' = [con EXCEPT ![a] = NoCon]

\* clive_core_close, for a client of a channel: no other connection here has
\* errors or ends.
CoreClose(a) == EventDelConn(con[a].skt) /\ TcpClose(a)

\* Faulty: no return after an error, so the read event is handled as well.
CoreErrorGoesOn(e) ==
    /\ pc = "dispatch" /\ e \in batch /\ "err" \in e.events
    /\ CoreClose(e.con)
    /\ NextEvent((batch \ {e}) \cup {[e EXCEPT !.events = {"read"}]})

\* An error takes precedence: the connection is closed and nothing is read.
CoreError(e) ==
    /\ pc = "dispatch" /\ e \in batch /\ "err" \in e.events
    /\ CoreClose(e.con)
    /\ NextEvent(batch \ {e})
=============================================================================
