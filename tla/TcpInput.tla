------------------------------ MODULE TcpInput ------------------------------
(***************************************************************************)
(* A channel with a tcp url, of channel/channel.c: its listening socket,   *)
(* the connections it accepts, and their end. tcp_recv tests a variable    *)
(* that it never sets; Garbage says which values it may have.              *)
(***************************************************************************)
EXTENDS EventLoop

CONSTANTS
    Clients,  \* those who send a stream to the channel
    Garbage   \* what n in tcp_recv may be: "positive", "zero", "negative"

ASSUME TcpAssumption ==
    /\ Clients \cap {"closed", "listener", "timer"} = {}
    /\ Garbage \subseteq {"positive", "zero", "negative"}

VARIABLES
    link,  \* a client's connection: away, knocking, open or closed
    says   \* what epoll would report of its end of the connection

tcp == <<link, says>>

\* clive_new_channel: the socket listens, and is not yet watched.
TcpInit ==
    LET f == CHOOSE g \in Fds : \A h \in Fds : g <= h IN
    /\ con = [a \in Cons |-> IF a = Chan THEN [kind |-> "listener", skt |-> f, active |-> {}]
                                         ELSE NoCon]
    /\ file = [g \in Fds |-> IF g = f THEN "listener" ELSE "closed"]
    /\ ready = [g \in Fds |-> {}]
    /\ LoopInit /\ pc = "start"
    /\ link = [c \in Clients |-> "away"]
    /\ says = [c \in Clients |-> {}]

Port == con[Chan].skt

\* clive_channel_start gives up when event_add_conn fails, and main does not
\* look at what it returns.
ChannelStart ==
    /\ pc = "start"
    /\ Watch(Chan, "listener", Port)
    /\ pc' = "main"
    /\ UNCHANGED <<file, ready, batch, tcp>>

----------------------------------------------------------------------------
(* The clients, as the kernel shows them.                                  *)

Connect(c) ==
    /\ link[c] = "away"
    /\ link' = [link EXCEPT ![c] = "knocking"]
    /\ ready' = [ready EXCEPT ![Port] = {"read"}]
    /\ UNCHANGED <<con, file, interest, batch, pc, says>>

\* Data or the end of the stream can be read; after a reset there is also an
\* error.
Does(c, what) ==
    /\ link[c] \in {"knocking", "open"}
    /\ says' = [says EXCEPT ![c] = what]
    /\ ready' = [f \in Fds |-> IF file[f] = c THEN what ELSE ready[f]]
    /\ UNCHANGED <<con, file, interest, batch, pc, link>>

Send(c)  == says[c] = {} /\ Does(c, {"read"})
Reset(c) == "err" \notin says[c] /\ Does(c, {"read", "err"})

----------------------------------------------------------------------------
(* The handlers.                                                           *)

\* listener_recv: accept, then a struct con of its own for the client. When
\* epoll refuses it, event_del_out's assertion fails.
Accept(e) ==
    /\ Dispatched(e, "listener") /\ FreeFds # {}
    /\ \E c \in Clients, a \in FreeCons :
          /\ link[c] = "knocking"
          /\ link' = [link EXCEPT ![c] = "open"]
          /\ file' = [file EXCEPT ![NewFd] = c]
          /\ ready' = [ready EXCEPT
                ![NewFd] = says[c],
                ![Port] = {x \in {"read"} : \E d \in Clients \ {c} : link[d] = "knocking"}]
          /\ Watch(a, "input", NewFd)
          /\ IF con'[a].active = {} THEN pc' = "aborted" /\ UNCHANGED batch
                                    ELSE NextEvent(batch \ {e})
    /\ UNCHANGED says

\* Faulty: -1 is taken for a descriptor, which event_add_conn refuses.
AcceptUnchecked(e) ==
    /\ Dispatched(e, "listener") /\ FreeFds = {}
    /\ \E a \in FreeCons :
          con' = [con EXCEPT ![a] = [kind |-> "input", skt |-> -1, active |-> {}]]
    /\ pc' = "aborted"
    /\ UNCHANGED <<file, ready, interest, batch, tcp>>

\* Faulty: the listener is not reported again until another client knocks.
AcceptFailsOnce(e) ==
    /\ Dispatched(e, "listener") /\ FreeFds = {}
    /\ ready' = [ready EXCEPT ![e.fd] = {}]
    /\ NextEvent(batch \ {e})
    /\ UNCHANGED <<con, file, interest, tcp>>

\* accept finds no descriptor: CL_OK, and the client goes on waiting.
AcceptFails(e) ==
    /\ Dispatched(e, "listener") /\ FreeFds = {}
    /\ NextEvent(batch \ {e})
    /\ UNCHANGED <<con, file, ready, interest, tcp>>

Ended(f) ==
    /\ link' = [link EXCEPT ![file[f]] = "closed"]
    /\ says' = [says EXCEPT ![file[f]] = {}]

\* tcp_recv, n = 0, or n < 0 with an errno that is an error.
RecvEnds(e) ==
    /\ Dispatched(e, "input") /\ Garbage \cap {"zero", "negative"} # {}
    /\ CoreClose(e.con)
    /\ NextEvent(batch \ {e})
    /\ Ended(e.fd)

\* n > 0, or n < 0 with EAGAIN: nothing was read, and the same event comes again.
RecvGoesOn(e) ==
    /\ Dispatched(e, "input") /\ Garbage \cap {"positive", "negative"} # {}
    /\ NextEvent(batch \ {e})
    /\ UNCHANGED <<con, file, ready, interest, tcp>>

\* n < 0 with EINTR: continue, for ever, since neither changes.
RecvSpins(e) ==
    /\ Dispatched(e, "input") /\ "negative" \in Garbage
    /\ pc' = "stuck"
    /\ UNCHANGED <<con, file, ready, interest, batch, tcp>>

InputError(e) == CoreError(e) /\ Ended(e.fd)
=============================================================================
