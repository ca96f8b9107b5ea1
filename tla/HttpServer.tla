----------------------------- MODULE HttpServer -----------------------------
(***************************************************************************)
(* The two threads of http/http.c over the event loop of common/core.c and *)
(* common/epoll.c, and the kernel's table of descriptors between them: the *)
(* event thread accepts clients, reads their requests and closes them; the *)
(* streamer writes the chunks of each http task to the descriptors in the  *)
(* task's list of clients, and closes those that fail.                     *)
(*                                                                         *)
(* A client is one TCP connection; the struct con of an accepted client    *)
(* has the client's name. A chunk is what one kfifo_get takes.             *)
(***************************************************************************)
EXTENDS Integers, Sequences, SequencesExt, FiniteSets, FiniteSetsExt

CONSTANTS
    Clients,
    Fds,         \* bound: descriptors the process may have for clients
    Names,       \* what clients can ask for
    Uncut,       \* the names that end with the request and not at a space
    Starts(_,_), \* Starts(m, n): m is a prefix of n
    Kind,        \* Kind[n]: "TS" if n contains "_ts", else "FLV"
    Config,      \* the channels of the configuration file, in order: a name
                 \* and the set of media that clive_channel_add_output creates
    BufCap,      \* chunks in a task's buffer
    MaxSends,    \* bound: segments a client sends
    MaxChunks    \* bound: chunks a channel's media puts out

Nobody   == "nobody"
Listener == "listener"

ASSUME HttpAssumption ==
    /\ {Nobody, Listener} \cap Clients = {}
    /\ Fds \subseteq Nat
    /\ Uncut \subseteq Names
    /\ \A n \in Names : Starts(n, n)
    /\ Kind \in [Names -> {"TS", "FLV"}]
    /\ Len(Config) \in Nat /\ DOMAIN Config = 1..Len(Config)
    /\ \A i \in DOMAIN Config : Config[i].media \subseteq {"TS", "FLV"}
    /\ {BufCap, MaxSends, MaxChunks} \subseteq Nat

VARIABLES
    (* the kernel *)
    link,     \* a client's connection: away, knocking, open or closed
    eof,      \* the clients that have closed their side
    inbox,    \* the segment of a client not yet read
    sends,    \* how many segments it has sent
    owner,    \* the client that an open descriptor leads to
    watched,  \* the clients in the interest list of the epoll descriptor
    (* the event thread *)
    skt,      \* conn->skt
    held,     \* http->rbuffer: empty, cut off after its name, or a name
    done,     \* the clients whose conn->done is set
    batch,    \* the events of epoll_wait not yet handled
    errs,     \* those of them that have EPOLLERR
    evPc, con, name, index,
    (* shared between the threads *)
    known,    \* number of channels in all_channels
    tasks,    \* the list channels of http.c
    cells,    \* the descriptors allocated by http_add_client
    pads,     \* the output_pads of each channel's media: indexes of tasks
    (* the streamer *)
    stPc, current, chunk, pos,
    (* history *)
    fed,      \* chunks put out by a channel
    asked,    \* names in the requests of a client
    got,      \* what a client received
    failed,   \* the clients that the streamer closed
    misled    \* an event or a cell of a closed client was used for another

kernel == <<link, eof, inbox, sends, owner, watched>>
event  == <<skt, held, done, batch, errs, evPc, con, name, index>>
stream == <<stPc, current, chunk, pos>>
past   == <<asked, got, failed, misled>>
vars   == <<kernel, event, known, tasks, cells, pads, stream, fed, past>>

\* An ASSERT failed or free stopped the process, and both threads are gone.
Aborted == evPc = "aborted"
Abort   == evPc' = "aborted" /\ stPc' = "aborted"

Media    == {"TS", "FLV"}
Bad      == "bad"
Segments == Names \cup {Bad}
Reply(code) == [task |-> 0, ch |-> 0, n |-> code]
Head200     == Reply(200)
NotFound404 == Reply(404)
NoChunk     == [ch |-> 0, n |-> 0]

Init ==
    /\ link = [c \in Clients |-> "away"] /\ eof = {}
    /\ inbox = [c \in Clients |-> "none"]
    /\ sends = [c \in Clients |-> 0]
    /\ owner = [f \in Fds |-> Nobody] /\ watched = {}
    /\ skt = [c \in Clients |-> 0]
    /\ held = [c \in Clients |-> "empty"]
    /\ done = {} /\ batch = {} /\ errs = {}
    /\ evPc = "wait" /\ con = Nobody /\ name = Nobody /\ index = 0
    /\ known = 0
    /\ tasks = <<>> /\ cells = <<>>
    /\ pads = [i \in DOMAIN Config |-> [m \in Media |-> <<>>]]
    /\ stPc = "poll" /\ current = 0 /\ chunk = NoChunk /\ pos = 0
    /\ fed = [i \in DOMAIN Config |-> 0]
    /\ asked = [c \in Clients |-> {}]
    /\ got = [c \in Clients |-> <<>>]
    /\ failed = {} /\ misled = FALSE

----------------------------------------------------------------------------
(* Clients, the main thread and the media thread.                          *)

Connect(c) ==
    /\ link[c] = "away"
    /\ link' = [link EXCEPT ![c] = "knocking"]
    /\ UNCHANGED <<eof, inbox, sends, owner, watched, event, known, tasks, cells,
                   pads, stream, fed, past>>

\* A segment: a request line that asks for a name, or anything else.
Send(c) ==
    /\ link[c] \in {"knocking", "open"} /\ c \notin eof
    /\ inbox[c] = "none" /\ sends[c] < MaxSends
    /\ \E s \in Segments : inbox' = [inbox EXCEPT ![c] = s]
    /\ sends' = [sends EXCEPT ![c] = @ + 1]
    /\ UNCHANGED <<link, eof, owner, watched, event, known, tasks, cells, pads,
                   stream, fed, past>>

Leave(c) ==
    /\ link[c] \in {"knocking", "open"} /\ c \notin eof
    /\ eof' = eof \cup {c}
    /\ UNCHANGED <<link, inbox, sends, owner, watched, event, known, tasks, cells,
                   pads, stream, fed, past>>

\* main starts the http threads before it reads the configuration.
ChannelAdd ==
    /\ ~Aborted /\ known < Len(Config)
    /\ known' = known + 1
    /\ UNCHANGED <<kernel, event, tasks, cells, pads, stream, fed, past>>

\* kfifo_put of a chunk for n pads with the same buffer.
Fill(buf, n, item) == buf \o [k \in 1..Min({n, BufCap - Len(buf)}) |-> item]

\* do_pack_ts2ts puts a chunk to each pad of the ts_media; module MediaRelay
\* has its steps.
Feed(i) ==
    /\ ~Aborted /\ fed[i] < MaxChunks /\ pads[i]["TS"] # <<>>
    /\ fed' = [fed EXCEPT ![i] = @ + 1]
    /\ tasks' = [t \in DOMAIN tasks |->
         LET to == {p \in DOMAIN pads[i]["TS"] : pads[i]["TS"][p] = t}
         IN  [tasks[t] EXCEPT !.buf = Fill(@, Cardinality(to), [ch |-> i, n |-> fed'[i]])]]
    /\ UNCHANGED <<kernel, event, known, cells, pads, stream, past>>

----------------------------------------------------------------------------
(* The event thread.                                                       *)

\* Faulty: EPOLLHUP is not taken for a read event; EPOLLIN is not.
ReadyNoHup(c) == c \in watched /\ inbox[c] # "none"
ReadyHup(c)   == c \in watched /\ c \in eof

Ready(c) == c \in watched /\ (inbox[c] # "none" \/ c \in eof)

\* epoll_wait returns the events of all that are ready.
EventWait ==
    /\ evPc = "wait"
    /\ batch' = {c \in Clients : Ready(c)} \cup
                {l \in {Listener} : \E c \in Clients : link[c] = "knocking"}
    /\ batch' # {}
    /\ errs' \in SUBSET (batch' \cap eof)
    /\ evPc' = "dispatch"
    /\ UNCHANGED <<kernel, skt, held, done, con, name, index, known, tasks,
                   cells, pads, stream, fed, past>>

BatchDone ==
    /\ evPc = "dispatch" /\ batch = {}
    /\ evPc' = "wait"
    /\ UNCHANGED <<kernel, skt, held, done, batch, errs, con, name, index, known,
                   tasks, cells, pads, stream, fed, past>>

FreeFds == {f \in Fds : owner[f] = Nobody}

\* http_recv: the kernel gives the lowest free descriptor, or none. When epoll
\* refuses it, the assertion of event_del_out fails.
Accept ==
    /\ evPc = "dispatch" /\ Listener \in batch
    /\ batch' = batch \ {Listener}
    /\ \/ /\ FreeFds # {}
          /\ \E c \in Clients :
                /\ link[c] = "knocking"
                /\ link' = [link EXCEPT ![c] = "open"]
                /\ skt' = [skt EXCEPT ![c] = Min(FreeFds)]
                /\ owner' = [owner EXCEPT ![Min(FreeFds)] = c]
                /\ watched' = watched \cup {c}
          /\ UNCHANGED <<evPc, stPc>>
       \/ FreeFds = {} /\ UNCHANGED <<link, skt, owner, watched, evPc, stPc>>
       \/ /\ FreeFds # {} /\ \E c \in Clients : link[c] = "knocking"
          /\ Abort
          /\ UNCHANGED <<link, skt, owner, watched>>
    /\ UNCHANGED <<eof, inbox, sends, held, done, errs, con, name, index, known,
                   tasks, cells, pads, current, chunk, pos, fed, past>>

\* close(f): the descriptor is free and its file leaves the interest list.
\* Closing a descriptor that is not open does nothing.
Close(f) ==
    LET c == owner[f] IN
    /\ owner' = [owner EXCEPT ![f] = Nobody]
    /\ link' = IF c = Nobody THEN link ELSE [link EXCEPT ![c] = "closed"]
    /\ watched' = watched \ {c}

\* What is written to f reaches the client at its other end.
Receives(f, item) ==
    LET c == owner[f] IN
    IF c = Nobody \/ c \in eof THEN got ELSE [got EXCEPT ![c] = Append(@, item)]

\* A descriptor does not block: when what was written before still fills the
\* socket's buffer, a write takes some or nothing (EAGAIN), and the caller does
\* not write the rest again. A buffer that nothing was written to has room.
Written(f, item) ==
    {Receives(f, item)} \cup {g \in {got} : owner[f] # Nobody /\ g[owner[f]] # <<>>}

\* Faulty: the connection leaves the loop and its descriptor stays open.
CoreCloseForgets(c) ==
    /\ watched' = watched \ {owner[skt[c]]} /\ UNCHANGED <<owner, link>>
    /\ done' = done \cup {c}
    /\ misled' = (misled \/ owner[skt[c]] \notin {c, Nobody})
    /\ evPc' = "dispatch"

\* clive_core_close and conn_close: event_del_conn, close, done.
CoreClose(c) ==
    /\ Close(skt[c])
    /\ done' = done \cup {c}
    /\ misled' = (misled \/ owner[skt[c]] \notin {c, Nobody})
    /\ evPc' = "dispatch"

\* The event is an error, or conn_recv reads from skt[c], whoever has it now,
\* and gets the end or an error: clive_core_core closes the connection.
RecvEnd(c) ==
    /\ evPc = "dispatch" /\ c \in batch
    /\ \/ c \in errs
       \/ LET d == owner[skt[c]] IN d # Nobody => inbox[d] = "none" /\ d \in eof
    /\ batch' = batch \ {c} /\ errs' = errs \ {c}
    /\ CoreClose(c)
    /\ UNCHANGED <<eof, inbox, sends, skt, held, con, name, index, known, tasks,
                   cells, pads, stream, fed, asked, got, failed>>

\* conn_recv, EAGAIN: the descriptor leads to another client by now.
RecvAgain(c) ==
    /\ evPc = "dispatch" /\ c \in batch \ errs
    /\ LET d == owner[skt[c]] IN d # Nobody /\ inbox[d] = "none" /\ d \notin eof
    /\ batch' = batch \ {c}
    /\ UNCHANGED <<kernel, skt, held, done, errs, evPc, con, name, index, known, tasks,
                   cells, pads, stream, fed, past>>

\* The name that conn_recv finds in rbuffer when it has read s: rbuffer is
\* never emptied, and its line ends after the first name when that was cut.
Found(c, s) == CASE held[c] = "cut"   -> Nobody
                 [] held[c] \in Uncut -> held[c]
                 [] s = Bad           -> Nobody
                 [] OTHER             -> s

\* clive_channel_is_existed and clive_channel_find: clive_new_channel stores
\* no name, and the empty name of the first channel is a prefix of any.
ChannelFind(n) == IF n = Nobody \/ known = 0 THEN 0 ELSE 1

\* conn_recv reads and looks for the channel; without one it answers 404.
RecvRead(c) ==
    /\ evPc = "dispatch" /\ c \in batch \ errs
    /\ owner[skt[c]] # Nobody /\ inbox[owner[skt[c]]] # "none"
    /\ batch' = batch \ {c}
    /\ LET d == owner[skt[c]]
           s == inbox[d]
           n == Found(c, s)
       IN  /\ inbox' = [inbox EXCEPT ![d] = "none"]
           /\ held' = [held EXCEPT ![c] = IF n \in Uncut THEN n ELSE "cut"]
           /\ IF ChannelFind(n) = 0
              THEN /\ got' \in Written(skt[c], NotFound404) \cup
                              {g \in {got} : s = Bad}
                   /\ CoreClose(c)
                   /\ UNCHANGED <<con, name, asked>>
              ELSE /\ con' = c /\ name' = n /\ evPc' = "task"
                   /\ asked' = [asked EXCEPT ![c] = @ \cup {n}]
                   /\ misled' = (misled \/ c # d)
                   /\ UNCHANGED <<link, owner, watched, done>> /\ got' = got
    /\ UNCHANGED <<eof, sends, skt, errs, index, known, tasks, cells, pads,
                   stream, fed, failed>>

\* The tasks whose name is a prefix of n, in the order of the list.
Matching(n) == {t \in DOMAIN tasks : Starts(tasks[t].name, n)}

\* http_task_is_existed, http_add_task; http_add_client allocates the cell.
AddTask ==
    /\ evPc = "task"
    /\ tasks' = IF Matching(name) # {} THEN tasks
                ELSE Append(tasks, [name |-> name, buf |-> <<>>, clients |-> <<>>])
    /\ cells' = Append(cells, [fd |-> skt[con], by |-> con, live |-> TRUE])
    /\ index' = 1 /\ evPc' = "client"
    /\ UNCHANGED <<kernel, skt, held, done, batch, errs, con, name, known, pads,
                   stream, fed, past>>

\* http_add_client: one matching task after the other, under its lock.
Locked(t) == stPc \in {"walk", "drop"} /\ current = t

AddClient ==
    /\ evPc = "client"
    /\ IF \E t \in Matching(name) : t >= index
       THEN LET t == Min({u \in Matching(name) : u >= index}) IN
            /\ ~Locked(t)
            /\ tasks' = [tasks EXCEPT ![t].clients = Append(@, Len(cells))]
            /\ index' = t + 1
            /\ UNCHANGED evPc
       ELSE evPc' = "pad" /\ index' = 0 /\ UNCHANGED tasks
    /\ UNCHANGED <<kernel, skt, held, done, batch, errs, con, name, known, cells, pads,
                   stream, fed, past>>

\* http_task_find, clive_channel_find, clive_media_add_output: the channel
\* found need not have the media that the name asks for.
AddOutput ==
    /\ evPc = "pad"
    /\ LET i == ChannelFind(name) IN
       IF Kind[name] \in Config[i].media
       THEN /\ pads' = [pads EXCEPT ![i][Kind[name]] = Append(@, Min(Matching(name)))]
            /\ evPc' = "head"
            /\ UNCHANGED stPc
       ELSE Abort /\ UNCHANGED pads
    /\ UNCHANGED <<kernel, skt, held, done, batch, errs, con, name, index, known, tasks,
                   cells, current, chunk, pos, fed, past>>

\* Faulty: no header while the streamer has the task's lock.
SendHeadTry ==
    /\ evPc = "head"
    /\ got' \in IF Locked(Min(Matching(name))) THEN {got} ELSE Written(skt[con], Head200)
    /\ evPc' = "dispatch" /\ con' = Nobody /\ name' = Nobody
    /\ UNCHANGED <<kernel, skt, held, done, batch, errs, index, known, tasks, cells, pads,
                   stream, fed, asked, failed, misled>>

\* What send returns is ignored.
SendHead ==
    /\ evPc = "head"
    /\ got' \in Written(skt[con], Head200)
    /\ evPc' = "dispatch" /\ con' = Nobody /\ name' = Nobody
    /\ UNCHANGED <<kernel, skt, held, done, batch, errs, index, known, tasks, cells, pads,
                   stream, fed, asked, failed, misled>>

----------------------------------------------------------------------------
(* The streamer.                                                           *)

\* Faulty: the end of the list is noticed one entry late.
NextTaskBeyond == IF current <= Len(tasks) THEN current + 1 ELSE 0

NextTask == IF current < Len(tasks) THEN current + 1 ELSE 0

\* current is NULL, or its buffer is empty: on to the next task.
PollEmpty ==
    /\ stPc = "poll" /\ tasks # <<>>
    /\ current > 0 => tasks[current].buf = <<>>
    /\ current' = NextTask
    /\ UNCHANGED <<kernel, event, known, tasks, cells, pads, stPc, chunk,
                   pos, fed, past>>

\* kfifo_get; the lock is taken for the walk over the clients.
PollGet ==
    /\ stPc = "poll" /\ current > 0 /\ tasks[current].buf # <<>>
    /\ chunk' = Head(tasks[current].buf)
    /\ tasks' = [tasks EXCEPT ![current].buf = Tail(@)]
    /\ pos' = 1 /\ stPc' = "walk"
    /\ UNCHANGED <<kernel, event, known, cells, pads, current, fed, past>>

InList == pos <= Len(tasks[current].clients)
Cell   == tasks[current].clients[pos]

\* The descriptor the streamer reads from a cell; from a freed one, anything.
CellFds == IF cells[Cell].live THEN {cells[Cell].fd} ELSE Fds

\* Faulty: a chunk that a client cannot take goes back to the buffer.
WriteRequeue ==
    /\ stPc = "walk" /\ InList
    /\ \E f \in CellFds :
          /\ owner[f] # Nobody
          /\ \/ /\ got' = Receives(f, [task |-> current, ch |-> chunk.ch, n |-> chunk.n])
                /\ tasks' = tasks
             \/ /\ Len(tasks[current].buf) < BufCap
                /\ tasks' = [tasks EXCEPT ![current].buf = Append(@, chunk)]
                /\ got' = got
          /\ misled' = (misled \/ owner[f] # cells[Cell].by)
    /\ pos' = pos + 1
    /\ UNCHANGED <<kernel, event, known, cells, pads, stPc, current,
                   chunk, fed, asked, failed>>

\* clive_write: the walk goes on whether or not all of the chunk was taken.
Write ==
    /\ stPc = "walk" /\ InList
    /\ \E f \in CellFds :
          /\ owner[f] # Nobody
          /\ got' \in Written(f, [task |-> current, ch |-> chunk.ch, n |-> chunk.n])
          /\ misled' = (misled \/ owner[f] # cells[Cell].by)
    /\ pos' = pos + 1
    /\ UNCHANGED <<kernel, event, known, tasks, cells, pads, stPc, current,
                   chunk, fed, asked, failed>>

\* Faulty: EAGAIN is taken for an error.
WriteFailsAny ==
    /\ stPc = "walk" /\ InList
    /\ stPc' = "drop"
    /\ UNCHANGED <<kernel, event, known, tasks, cells, pads, current, chunk, pos, fed, past>>

\* clive_write fails: the descriptor is closed or the client is gone.
WriteFails ==
    /\ stPc = "walk" /\ InList
    /\ \E f \in CellFds : owner[f] = Nobody \/ owner[f] \in eof
    /\ stPc' = "drop"
    /\ UNCHANGED <<kernel, event, known, tasks, cells, pads, current, chunk, pos, fed, past>>

\* The cells that freeing k may free: when it was freed before, its memory
\* may be that of a later one.
Freed(k) == IF cells[k].live THEN {k} ELSE {k} \cup {j \in DOMAIN cells : j > k}

\* close(f): since the write, the event thread may have closed f and the kernel
\* given it to another client.
CloseFailed(f, k) ==
    /\ Close(f)
    /\ failed' = IF owner[f] = Nobody THEN failed ELSE failed \cup {owner[f]}
    /\ misled' = (misled \/ owner[f] \notin {cells[Cell].by, Nobody} \/ k # Cell)

\* Faulty: the client stays in the list.
DropClientKeeps ==
    /\ stPc = "drop"
    /\ \E f \in CellFds : \E k \in Freed(Cell) :
          CloseFailed(f, k) /\ cells' = [cells EXCEPT ![k].live = FALSE]
    /\ pos' = pos + 1 /\ stPc' = "walk"
    /\ UNCHANGED <<eof, inbox, sends, event, known, tasks, pads, current,
                   chunk, fed, asked, got>>

\* Faulty: the descriptor is closed, but its cell is not removed and not freed.
DropClientCloses ==
    /\ stPc = "drop"
    /\ \E f \in CellFds : CloseFailed(f, Cell)
    /\ pos' = pos + 1 /\ stPc' = "walk"
    /\ UNCHANGED <<eof, inbox, sends, event, known, tasks, cells, pads, current,
                   chunk, fed, asked, got>>

\* close, free, and ListRemoveCurrent; the ListIterator_Next after it skips
\* the next client.
DropClient ==
    /\ stPc = "drop"
    /\ \E f \in CellFds : \E k \in Freed(Cell) :
          CloseFailed(f, k) /\ cells' = [cells EXCEPT ![k].live = FALSE]
    /\ tasks' = [tasks EXCEPT ![current].clients = RemoveAt(@, pos)]
    /\ pos' = pos + 1 /\ stPc' = "walk"
    /\ UNCHANGED <<eof, inbox, sends, event, known, pads, current,
                   chunk, fed, asked, got>>

\* free finds that the cell was freed before.
FreeAborts ==
    /\ stPc = "drop" /\ ~cells[Cell].live
    /\ Abort
    /\ UNCHANGED <<kernel, skt, held, done, batch, errs, con, name, index, known, tasks,
                   cells, pads, current, chunk, pos, fed, past>>

\* Faulty: the lock is not released.
WalkDoneLocked ==
    /\ stPc = "walk" /\ ~InList
    /\ UNCHANGED <<kernel, event, known, tasks, cells, pads, stream, fed, past>>

WalkDone ==
    /\ stPc = "walk" /\ ~InList
    /\ stPc' = "poll" /\ chunk' = NoChunk /\ pos' = 0
    /\ current' = NextTask
    /\ UNCHANGED <<kernel, event, known, tasks, cells, pads, fed, past>>

----------------------------------------------------------------------------
Environment ==
    \/ \E c \in Clients : Connect(c) \/ Send(c) \/ Leave(c)
    \/ ChannelAdd
    \/ \E i \in DOMAIN Config : Feed(i)

EventStep ==
    \/ EventWait \/ BatchDone \/ Accept
    \/ \E c \in Clients : RecvEnd(c) \/ RecvAgain(c) \/ RecvRead(c)
    \/ AddTask \/ AddClient \/ AddOutput \/ SendHead

StreamStep ==
    \/ PollEmpty \/ PollGet \/ WalkDone
    \/ Write \/ WriteFails \/ DropClient \/ FreeAborts

Next == Environment \/ EventStep \/ StreamStep

Spec == Init /\ [][Next]_vars

\* Both threads run for ever, and a thread that waits for a mutex that is
\* released again and again gets it.
FairSpec ==
    Spec /\ WF_vars(EventStep) /\ SF_vars(AddClient) /\ WF_vars(StreamStep)

----------------------------------------------------------------------------
(* Properties.                                                             *)

Listed(t) == ToSet(tasks[t].clients)

Chunks == [ch : Nat, n : Nat]
Tasks  == [name : Names, buf : Seq(Chunks), clients : Seq(Nat)]
Cells  == [fd : Fds, by : Clients, live : BOOLEAN]
Items  == [task : Nat, ch : Nat, n : Nat]

KernelTypes ==
    /\ link \in [Clients -> {"away", "knocking", "open", "closed"}]
    /\ eof \subseteq Clients
    /\ inbox \in [Clients -> Segments \cup {"none"}] /\ sends \in [Clients -> Nat]
    /\ owner \in [Fds -> Clients \cup {Nobody}] /\ watched \subseteq Clients

EventTypes ==
    /\ skt \in [Clients -> Fds \cup {0}]
    /\ held \in [Clients -> Uncut \cup {"empty", "cut"}]
    /\ done \subseteq Clients
    /\ batch \subseteq Clients \cup {Listener} /\ errs \subseteq batch \cap Clients
    /\ evPc \in {"wait", "dispatch", "task", "client", "pad", "head", "aborted"}
    /\ con \in Clients \cup {Nobody} /\ name \in Names \cup {Nobody} /\ index \in Nat

SharedTypes ==
    /\ known \in 0..Len(Config)
    /\ tasks \in Seq(Tasks) /\ cells \in Seq(Cells)
    /\ \A t \in DOMAIN tasks :
          Len(tasks[t].buf) <= BufCap /\ Listed(t) \subseteq DOMAIN cells
    /\ pads \in [DOMAIN Config -> [Media -> Seq(Nat)]]

StreamTypes ==
    /\ stPc \in {"poll", "walk", "drop", "aborted"} /\ current \in 0..Len(tasks)
    /\ chunk \in Chunks /\ pos \in Nat

PastTypes ==
    /\ fed \in [DOMAIN Config -> Nat]
    /\ asked \in [Clients -> SUBSET Names] /\ got \in [Clients -> Seq(Items)]
    /\ failed \subseteq Clients /\ misled \in BOOLEAN

\* The variables keep their types.
TypeOK == KernelTypes /\ EventTypes /\ SharedTypes /\ StreamTypes /\ PastTypes

\* Every open connection is watched by the event loop, under a descriptor
\* that leads to it: its requests and its end are always noticed.
OpenIsWatched ==
    \A c \in Clients : link[c] = "open" <=> c \in watched /\ owner[skt[c]] = c

\* A client gets the chunks of a task in the order the channel put them out,
\* whatever descriptors are reused in between.
ChunksInOrder ==
    \A c \in Clients : \A i, j \in DOMAIN got[c] :
        /\ i < j
        /\ got[c][i].task # 0
        /\ got[c][i].task = got[c][j].task
        => got[c][i].n <= got[c][j].n

\* The cell was added to another list than that of task t, too.
Shared(k, t) ==
    \E n \in asked[cells[k].by] : t \in Matching(n) /\ Matching(n) \ {t} # {}

\* A client list holds a freed cell only if the cell was in two lists, which
\* takes a client that asked for a name of which two tasks have a prefix; or if
\* an earlier cell was, and was freed again when its memory was this one's.
DanglingIfShared ==
    \A t \in DOMAIN tasks : \A k \in Listed(t) :
        \/ cells[k].live \/ Shared(k, t)
        \/ \E j \in 1..k-1 : ~cells[j].live /\ \E u \in DOMAIN tasks : Shared(j, u)

\* A list holds the descriptor of a closed client only if the event thread
\* closed it (conn_close does not know of the lists), or if the streamer did
\* by another cell of the same client, or by this one from another list.
StaleCells ==
    misled \/ \A t \in DOMAIN tasks : \A k \in Listed(t) :
        LET c == cells[k].by IN
        \/ link[c] = "open" \/ c \in done
        \/ /\ c \in failed
           /\ ~cells[k].live \/ \E j \in DOMAIN cells \ {k} : cells[j].by = c

\* No client that stays is closed, but by the answer to its own request.
NoInnocentClosed ==
    misled \/ \A c \in Clients : link[c] = "closed" => c \in eof \/ c \in done

\* The streamer may send data before the header of the reply, since the client
\* is in the list first, and fill the socket so that the header is lost. But
\* whoever asked is not left without both once the handler is through, though
\* either thread may close descriptors meanwhile; and who did not ask gets none.
Answered ==
    \A c \in Clients :
        /\ asked[c] # {} /\ got[c] = <<>>
           => con = c \/ c \in eof \/ link[c] = "closed"
        /\ asked[c] = {} => misled \/ ToSet(got[c]) \subseteq {NotFound404}

\* The event thread returns to epoll_wait from every handler, though it waits
\* for the streamer's locks.
HandlerReturns == evPc # "wait" ~> (evPc = "wait" \/ Aborted)

\* A client that leaves is closed.
GoneIsClosed ==
    \A c \in Clients : c \in eof /\ link[c] = "open" ~> (link[c] = "closed" \/ Aborted)

\* Every request is read.
RequestIsRead ==
    \A c \in Clients : inbox[c] # "none" /\ link[c] = "open"
                      ~> (inbox[c] = "none" \/ link[c] = "closed" \/ Aborted)

\* http.c:58 says of a task's list "the clients watching the same channel":
\* no client receives data of a task that it did not ask for.
SameChannel ==
    \A c \in Clients : \A i \in DOMAIN got[c] :
        got[c][i].task = 0 \/
        \E n \in asked[c] : Starts(tasks[got[c][i].task].name, n)

\* media.c:36 asserts media != NULL in clive_media_add_output.
MediaAsserted == evPc = "pad" => Kind[name] \in Config[ChannelFind(name)].media

\* README.md:33 says that channel_name "is the channel's unique name": what a
\* client receives is of the channel that has the name it asked for.
OwnChannel ==
    misled \/ \A c \in Clients : \A i \in DOMAIN got[c] :
        got[c][i].task = 0 \/
        \E n \in asked[c] : Config[got[c][i].ch].name = n
=============================================================================
