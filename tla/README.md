# cliveserver in TLA+

cliveserver receives live streams (MPEG-TS over UDP), repacks them and serves
them to HTTP clients. This directory holds TLA+ modules that model it, the TLC
configurations that check them on small instances, and proofs checked by TLAPS.
Paths and line numbers are those of the repository (`src/...` below).

## 1. Inventory

### Threads and data path

```
 UDP socket --udp_recv--> channel ring --Entry (media.c)--> ts2ts --> http task ring --Entry (http.c)--> sockets
 [main thread]            [kfifo, 4 MB]  [media thread]     pads      [kfifo, 128 kB]  [streamer thread]
                                              ^
                                              | registers rings as pads
                              requests: conn_recv [http event thread]
```

Four threads run for the life of the process: `main` (the event loop of the
inputs), the media thread (`media.c` Entry), the streamer (`http.c` Entry) and
the http event thread (`http.c` Event_Entry). Two rings join them; each ring has
one producer and one consumer and no lock.

### Components

| Component | State | Operations | What is hard | What makes it correct |
|---|---|---|---|---|
| Byte ring, `common/kfifo.c` | `in`, `out`, `buffer` | put, get, len | unlocked loads and stores of two threads, counters that wrap, the reset in `kfifo_get` | it is a bounded queue: no loss, repetition or reordering |
| UDP input, `channel/channel.c` `udp_recv` | `input_media_type`, the ring | receive, detect the format, attach, spin until it fits | order of put, type and attach; the event loop spins | the stream reaches the media thread in order; the handler returns |
| Media thread, `media/media.c`, `media/ts2ts.c` | list of tasks, pack type, `output_pads` | attach, setype, add_output, the polling loop | list changed while it is walked, lossy puts | each pad gets the stream, in order, once |
| Http server, `http/http.c` | http tasks with clients and a ring, connections | accept, request, stream, close | two threads close descriptors and the kernel reuses them; cells shared by lists | the data goes to those who asked for it; nobody else is closed |
| Event loop, `common/core.c`, `common/epoll.c` | interest list, batch of events | add, del, wait, dispatch | events of a batch that are out of date when handled | every open connection is watched; no event is handled for another one |
| Channel registry, `channel.c` | `all_channels` | add, find, is_existed | searched while main appends | a name finds its channel |
| List, `common/list.c` | doubly linked entries | add, insert, remove, iterate | removing during a walk | it is a sequence |
| Configuration, `main.c`, `common/jsmn.c` | tokens, `CfgStore` | parsing, the token loop, making channels | repeated calls of the parser, an open-ended buffer, order of keys | the channels of the file, in order |
| Timer, `common/timer.c` | timerfd, its expiry, a handler | new, update time, update handler, receive | units and carry of `tv_nsec`; set anew while its event is in a batch; a refused expiry | the handler is called once for each setting, and not before the whole seconds asked for |
| TCP input, `channel.c` | listening socket, connections | start, accept, receive, close | `n` is never set; `tcp_close` frees its connection during a batch; no descriptor left | clients are accepted once there are descriptors, no event meets a freed connection |
| log, util, udp/tcp wrappers | - | - | wrappers of system calls | - |
| pat.c, pmt.c | - | - | not built (`src/Makefile.am`) | - |
| flv, hls, hds, rtmp | - | - | empty files | - |

The hazards found on the way are listed in `PROJECT.json`, each at its line and
with the properties that would notice it going wrong, or why none does.

## 2. Plan

1. Done: `Kfifo` with its abstract specification `ByteQueue` and `KfifoProofs`;
   `MediaRelay` (input to pads); `HttpServer` (requests, streaming, descriptors);
   `List` with its abstract specification `ItemList`; `Jsmn` and, on top of it,
   `Startup` (from the configuration to the channels); `EventLoop`, with
   `TcpInput` and `Timer` on top of it, composed in `Inputs`, and `InputsProofs`;
   `RelayProofs` and `HttpProofs`, the safety invariants of `MediaRelay` and
   `HttpServer` for all constants; `ListProofs`, the invariants and the
   refinement of `List`; `JsmnProofs` and `StartupProofs`, the invariants of the
   parser, of the walk over its tokens and of the channels made of them.
2. Left: a variant of `Kfifo` for a build without optimisation, in which the
   macro `min` loads the counters twice.

## 3. The modules

### Kfifo, ByteQueue, KfifoProofs

`Kfifo` has a step for every load and store of `in` and `out` that the other
thread can observe: the loads of `size - in + out` in either order, the memcpys,
`in += len` as a load and a store, the comparison in `kfifo_get`, and the two
stores of the reset in either order (a compiler may merge them; that is the
case where nothing comes between). Memory is a byte per slot; a byte is named by
its position in the stream of accepted bytes, so that loss, repetition and
reordering are visible.

`overlap` is a history variable: it becomes true when a put is under way while a
get resets the counters, or begins between the comparison and the stores. All
promises of the ring are stated up to that moment. Run `kfifo_reset` shows what
may follow: the put stores its `in` between the two stores of the reset, the
second of these undoes it, and with `in = out = 0` the byte that was accepted is
lost, although kfifo.h:8-9 says that the data lies from `out` to `in`. The
history (`wr`, `rd`, the bytes accepted and fetched) goes on as the calls report
it, so that it tells what the ring should hold then.

The macro `min` names its arguments twice. The build of `configure.ac`
(AC_PROG_CC, that is `-g -O2`) loads the counters once and the model does so;
without optimisation they are loaded twice.

`ByteQueue` is the abstract bounded queue, and `ImplementsQueue` says that every
step of the ring is a step of the queue, until `overlap`.

Bounds: `Size`, `Width` (2^32 in the code), `MaxPut`, `MaxGet` and `MaxBytes`.
Run `kfifo` takes a ring of 2 bytes, counters of 4 values and 7 bytes, which
wrap the ring three times and the counters once, puts and gets that fill or
empty the ring, and the retry of `udp_recv` after a put that was cut. Run
`kfifo_reset` has a ring of 4 and counters of 8 values. Larger rings are a
matter of the proofs.

### MediaRelay

| Code | Model |
|---|---|
| `udp_recv` | `RecvFirst`, `PutFirst`, `Setype`, `Attach`, `RecvNext`, `RecvAgain`, `RecvEmpty`, `Spin` |
| media.c `Entry` | `FirstTask`, `PollEmpty`, `PollGet`, `Consume`, `TaskNext` |
| `do_pack_ts2ts` | `PadPut`, `PadNext` |
| `clive_media_add_output` | `AddLock`, `AddPad` |
| `kfifo_get` of the streamer | `Drain` |

Rings are bounded sequences here, which is what module Kfifo proves of them as
long as no put meets a reset. A unit is a piece of a datagram; `ignored` and
`missed` record what was dropped, so that every gap must have a reason. A
datagram of no bytes leaves `errno` as it was; the outcomes are the choice of
`RecvEmpty`. Bounds: units received by a channel, tasks attached, and
registrations of a buffer. Two channels, of which one receives three units and
the other one; a datagram has up to two units and the channel's ring holds two,
the pad's buffer one, so that puts are cut and the spin loop spins. With two
tasks the second channel may come or the first be attached twice.

### HttpServer, HttpProofs

| Code | Model |
|---|---|
| clients and kernel | `Connect`, `Send`, `Leave`, `Close`, `Receives`, `FreeFds` |
| `event_wait`, `clive_core_core` | `EventWait`, `BatchDone`, `RecvEnd` |
| `http_recv` | `Accept` |
| `conn_recv` | `RecvRead`, `RecvAgain`, `AddTask`, `AddClient`, `AddOutput`, `SendHead` |
| http.c `Entry` | `PollEmpty`, `PollGet`, `Write`, `WriteFails`, `DropClient`, `FreeAborts`, `WalkDone` |
| `main`, `do_pack_ts2ts` | `ChannelAdd`, `Feed` |

Nothing that is written to a client blocks. `Written` says what becomes of it: it
is received, or all or part of it is lost because what was written before still
fills the socket. The results of `send` in http.c:207-211 are ignored, so the
header can be lost as the data can. A failed `clive_write` and the `close` after
it are two steps (`WriteFails`, `DropClient`), since the event thread may close
the descriptor and accept another client under its number between them; then the
streamer closes that one. A cell that was freed before is freed again there:
malloc notices (`FreeAborts`) or its memory is a later cell's, which is freed
(`Freed`). `Accept` aborts when epoll refuses the new connection.

Descriptors are numbers and the kernel gives the lowest free one, so that they
are reused at once. A client list holds indexes of `cells`, the integers that
`http_add_client` allocates: one cell can be in several lists, because a request
is added to every task whose name is a prefix of it. Reading a freed cell may
give any descriptor. A batch of events is a set, handled in any order; the event
of a connection that the streamer closed meanwhile is still handled, and
`conn_recv` then reads from whoever has the descriptor. `misled` records that an
event, a cell or a `close` met another client than its own, or a second `free`
another cell; `StaleCells` and `NoInnocentClosed` speak of the time before.
`Answered` allows that data comes before the header of the reply, which the
code does, and that the header is then lost in a full socket. It asks that
nobody who stays is left without both, and, before `misled`, that data goes to
nobody who did not ask.

Names are model values with a prefix relation. `Uncut` are those that the end of
the request line ends: they keep the rest of the request and `rbuffer` keeps its
line, so that a later segment is the same request again; the others are cut at
the space, and then no line is found any more. Replies are kept in `got` as
items of task 0.

`HttpServe` lets two clients compete for one descriptor, with two chunks and one
segment each. `HttpShared` has two descriptors and two names of which one
continues the other, and two segments each: three requests in the right order
are what a shared cell needs. The clients are interchangeable there (SYMMETRY;
only invariants are checked). A third client adds a case to `StaleCells` (a cell
whose number was reused, freed through one list and still in another); it has
7 million states and takes too long to be one of the runs, but the proofs hold
for any number of clients. `CHECK_DEADLOCK FALSE`, because clients and
channels may stop: a server that waits in `epoll_wait` is no error.

### List, ItemList, ListProofs

The program uses `list.c` in two ways, and `kind` says which one a behaviour is
about. Most lists only grow, and are walked without a lock while an entry is
linked in; there each store that a walk can see is a step, in program order
(which gcc keeps here). The clients of an http task are changed and walked under
a lock, and the walk removes. `ListInsertBeforeCurrent`, `ListRemove` and
`ListFree` have no caller and are modelled as a guarded list allows them.

| Code | Model |
|---|---|
| `ListAdd`, `ListInsertAfterCurrent` | `InsertAfter`, then `Link`, `SetHead`, `SetTail` |
| `ListInsertBeforeCurrent`, `ListRemove`, `ListFree` | actions of the same name |
| `ListRemoveCurrent` | `Unlink`, in `ListRemove` and `WalkRemove` |
| the iterator macros, in the loops of ts2ts.c and http.c | `WalkInit`, `WalkVisit`, `WalkKeep`, `WalkNext`, `WalkEnd` |

`Contents` reads the items off `head` and `next`; with it the list implements
`ItemList`, a sequence that in a growing list only gets longer. Three entries
and four items: an entry that was freed is used again.

### Jsmn, Startup, JsmnProofs, StartupProofs

A text is a sequence of lexemes (brackets, strings, unquoted words, and "bad"
for bytes that jsmn refuses); a token's offsets count lexemes. `Jsmn` has an
action for each kind of lexeme, for the return with too few tokens and the
repeated call, and a second definition of the tokens (`TokensOfText`), by
nesting levels, to compare with. Behind the file's text lies `Junk`, because
`read_cfg` does not end the buffer. `Startup` adds the loop of `main` with an
action for each case of its switch, and the making of a channel call by call,
each of which can fail or abort. `temp` begins as what the stack holds.

| Code | Model |
|---|---|
| `parse_cfg`, `jsmn_parse` | `Grow`, `Open`, `Leaf`, `Close`, `Invalid`, `Parsed` |
| the loop of `main` | `Unfilled`, `NoObject`, `FirstObject`, `NoKey`, `Key`, `Skip`, `PrintName`, `PrintUrl`, `PrintOutput`, `AllTokens` |
| `clive_new_channel`, `clive_channel_add_output`, `_start`, `_add` | `NewChannel`, `AddOutput`, `ChannelStart`, `ChannelAdd` |

The texts are all sequences of up to four lexemes, and configurations of one or
two channels of the form that the repository's README shows: name and url in
either order, `output` last, perhaps a key that main does not know, and up to
three outputs (the code has room for five). There is room for one token at first
instead of 256, so that nearly every text makes the parser return and be called
again. Tokens of an output array are taken to be strings.

A text may have no lexeme, as of an empty or blank file. `jsmn_parse` then fills
no token and returns 0, and main.c:114-119 reads `tokens[0]` as malloc left it
(`Unfilled`): main returns, or there is no telling what it does (`pc = "stray"`).
`ReadsFilled` says that this is the only text for which an unfilled token is
read. `AsDocumented` is the form that the channels are proved for: not empty, and
with an `input_url` before each `output` in the same object, so that no url of
the channel before, which main.c:152 leaves in `temp`, comes in. `Said` reads off
the file what it says of an output, with the url of the output's own object. The
run checks that its configurations have this form. `CHECK_DEADLOCK FALSE`, because the process may
exit, and the event loop that follows belongs to the other modules.

### EventLoop, TcpInput, Timer, Inputs

The main thread has one event loop. `EventLoop` is the loop and the kernel
beneath it; `TcpInput` and `Timer` are the handlers of two kinds of connections;
`Inputs` composes them, because they share what can go wrong: descriptors that
are reused at once, places on the heap, and one batch of events that holds
pointers while its handlers free, close and allocate. UDP inputs have a
connection that is never freed, and are the subject of `MediaRelay`.

| Code | Model |
|---|---|
| `event_base_create`, `event_add_conn`, `event_del_out`, `event_del_conn` | `LoopInit`, `EventAddConn` and `EventDelOut` in `Watch`, `EventDelConn` |
| `event_wait`, `clive_core_core`, `clive_core_close` | `EventWait`, `Occurs`, `NextEvent`, `Dispatched`, `CoreError`, `CoreClose` |
| `clive_new_channel` for a tcp url, `clive_channel_start` | `TcpInit`, `ChannelStart` |
| `listener_recv` | `Accept`, `AcceptFails` |
| `tcp_recv`, `tcp_close` | `RecvEnds`, `RecvGoesOn`, `RecvSpins`, `InputError`, `TcpClose` |
| `clive_timer_new`, `clive_timer_update_time`, `_update_handle` | `TimerNew`, `TimerNewFails`, `UpdateTime`, `UpdateTimeFails`, `UpdateHandle` |
| `con_recv` of timer.c | `RecvExpired`, `RecvNotExpired`, `HandlerReturns` |
| clients, timerfd, the clock | `Connect`, `Send`, `Reset`, `Settime`, `Tick` |

`con[a]` is the `struct con` at address a; `recv_active` and `send_active` are
the set `active`. epoll may refuse a descriptor: the channel's listener is then
given up in silence, while for a client or a timer `event_del_out` fails its
assertion and the process is gone (`pc = "aborted"`). A batch is a set, handled
in any order; a read event that is out of date gets EAGAIN.

`tcp_recv` reads nothing: it tests a variable that is never set. `Garbage` says
which values it may have, and the run allows all three. With any of them the
stream of a TCP channel, which README.md:9 of the repository offers, goes
nowhere; what is left to promise is that the other users of the loop are
served. A value below 0 with `errno` EINTR makes `tcp_recv` loop for ever
(`pc = "stuck"`).

Nothing in the program makes a timer. Its callers are therefore arbitrary: main
before the loop, and the handlers of timers. An expiry is the wall clock's
seconds and nanoseconds with the milliseconds added, of which those below a
second are added as nanoseconds. So a timer is early by nearly the fraction of a
second that was asked for, and `NotEarly` speaks of the whole seconds only; and
when the sum reaches a second, the kernel refuses it. A new timer is then not
made and its descriptor is `leaked`; one that existed keeps its expiry. `asked`
counts what the kernel was given, so that no property promises anything of a
refused expiry.

`ClientsAccepted` is a promise on a condition: that from some time on descriptors
do not stay out. `accept` may have failed any number of times before that, for
the listening socket stays readable and is reported again. While they are out
the loop turns without rest, which is no error a property could state: no client
can be accepted then, and timers are still served (`TimersServed`).

Bounds: three descriptors and two connections besides the channel's, two
clients: descriptors run out, are reused and leak. A second has three
nanoseconds and two milliseconds, so that both parts of an expiry occur and the
sum is sometimes refused; the clock runs for a second, and timer.h is called
three times, which is what setting another timer anew while its event is in the
batch takes. A batch has fewer events than `EVENT_SIZE`. `CHECK_DEADLOCK FALSE`,
because the process may stop, and clients and callers owe nothing.

## 4. The runs

| Run | Shows |
|---|---|
| kfifo | the ring is a bounded queue until a put meets a reset; no slot is read and written at once; the retry loop of `udp_recv` ends; all accepted bytes are fetched; the invariant of the proof |
| kfifo_reset | violation: the second store of a reset undoes that of a put, whose byte is lost |
| relay | order, gaps with reasons, a clean start of TS channels, no more copies than registrations; `udp_recv` returns; every unit leaves for the pads |
| relay_data_once | violation: a second request doubles the data |
| http_serve | connections stay watched; no chunk overtakes another; no request ends with neither header nor data; requests are read, leavers closed, stayers not closed by the streamer |
| http_shared | when lists can hold freed cells or closed descriptors |
| http_same_channel | violation: data of a channel the client did not ask for |
| http_media_assert | violation: a request fails the assertion in media.c:36 |
| http_own_channel | violation: the first channel is served for every name |
| list | the list is a sequence for every walk; head, tail, prev, next and count agree; nothing freed is reached |
| startup | the tokens are those of the text; the loop reads no others, but for a text without any; the channels are those of the file, complete when listed; startup ends |
| inputs | no event is handled for a connection that is gone or another one; descriptors, connections and the interest list agree; timers are served once for each setting and not before the whole seconds asked for; clients are accepted if descriptors do not stay out |

Every property of a passing run has a mutant in `PROJECT.json`: a faulty variant
of one definition, kept in the module under its own name, that breaks it.

### Fairness

Kfifo: a put that began goes on, and so does the consumer's polling loop; new
data need not come. MediaRelay: both threads run for ever, datagrams and
requests need not come. HttpServer: both threads run for ever, and (strong
fairness of `AddClient`) a thread that waits for a mutex which is released again
and again gets it; clients owe nothing. Startup: one thread that runs on. Inputs:
the thread runs on, its handlers return, and the clock advances; clients and
callers owe nothing. The code justifies it: all loops are endless and poll.

## 5. Proofs

`KfifoProofs` proves for every size of the ring, every width of the counters
that is a multiple of it, and every length of puts and gets:

- `Invariance`: `Spec => [](TypeOK /\ Inductive)`
- `TypeCorrect`: `Spec => []TypeOK`
- `DataStaysIntact`: `Spec => []DataIntact`
- `RaceFree`: `Spec => []NoDataRace`
- `RingIsQueue`: `Spec => ImplementsQueue`

The only assumption is `KfifoAssumption`, on the constants (`kfifo_alloc` is
called with 4 MB and 128 kB, which divide 2^32).

`DataIntact` is not inductive: it says nothing of the values that a thread
holds. `Inductive` adds one part for each thread. The producer's loaded `in` is
the current one, since nobody else writes it, and its loaded `out` can only lag
behind, so that the room it computes is never too much; the bytes it has copied
lie right behind the published ones. The consumer's length is at most what is
used, whatever is put meanwhile; in the reset no put is under way and nothing is
left to be read. From that the copies of the two threads touch disjoint slots.
The lemmas before it are about counters: what `in - out` is across a wrap-around
(`UsedIs`, `RoomIs`), and that bytes fewer than `Size` apart have different
slots (`SlotsDiffer`, `SlotDistance`). There is one lemma for each action.

`InputsProofs` proves for any descriptors, heap, clients, values of the unset
variable, delays, and units of time:

- `TypeCorrect`: `Spec => []TypeOK`
- `EventsStayCurrent`: `Spec => []EventsCurrent`
- `EachIsOwned`: `Spec => []Owned`
- `NeverEarly`: `Spec => NotEarly`

The assumptions are those of the three modules on their constants, which say
that the constants are of the right kind and that a second has at least as many
nanoseconds as milliseconds.

`EventsCurrent` is not inductive: that an event is up to date when it is
reported follows from what epoll watches (`Registry`: each connection has a
descriptor of its own, and each entry of the interest list points to the
connection that has the descriptor), and that it stays so follows from the batch
having one event for a descriptor (`EventsApart`), so that the handler that
closes a connection holds its last event, and from new connections being made
only where there was none. `Listening` keeps the channel's own connection apart
from those on the heap. `LoopInv` is their conjunction. For `NeverEarly`,
`TimersDue` adds that the expiry of a timer, or its being readable, is no
earlier than what was asked for last: `SetsDue` shows it of the arithmetic of
seconds and nanoseconds, and `TimerApart` that no other descriptor interferes.
There is one lemma for each way of making, closing and keeping connections, and
one step for each action.

`RelayProofs` proves for any channels, buffers and assignment of the ones to the
others, any capacity of the buffers, and any length of datagrams and chunks:

- `TypeCorrect`: `Spec => []TypeOK`
- `Conserved`: `Spec => []Conservation`
- `StartIsClean`: `Spec => []CleanStart`
- `StreamOfPad`: `Spec => []PadStream`
- `CopiesBounded`: `Spec => []Copies`

The assumption is `RelayAssumption`; that a datagram fits into an empty buffer
of a channel (`MaxDgram <= InCap`: 64 kB and 4 MB) is what `StartIsClean` needs.
It follows that the bounds of the run `relay` hide nothing of these properties.

All but one of them rest on one notion, `Flows(s, g, lost)`: the sequence `s` is
in order, and of the units from its first to the last received, `g`, each is in
`s` or in `lost`. A step of the two threads receives behind (`FlowsOn`), drops at
the end (`FlowsBefore`) or in the middle (`FlowsWithout`), or takes from the
front (`FlowsBehind`), and is the identity on `s` otherwise. For `Conserved`, `s`
is what is on its way to the pads, and the invariant `FlowInv` adds that
`udp_recv` holds units only where a `kfifo_put` is to come. For `StreamOfPad`,
`s` begins with what the buffer got (`Stream`), and the chunk in hand counts as
long as the walk has not passed the buffer's entry; an entry that is appended
during the walk is behind it. `PadStream` itself is not inductive: it says
nothing of what is still to come. `CopiesBounded` compares how often a unit was
put to a buffer with the entries that the walk has visited for it
(`Visited`): none before the media thread got the unit, those behind the walk
while it is in the chunk, and all afterwards. `StartIsClean` follows a channel
through its first datagram (`Started`): until `clive_media_attach` the media
thread does not see it, and by then its buffer held nothing else and its pack
type is set.

`HttpProofs` proves for any clients, descriptors, names with any prefix relation,
configuration, and sizes of the buffers:

- `TypeCorrect`: `Spec => []TypeOK`
- `Watched`: `Spec => []OpenIsWatched`
- `InnocentStay`: `Spec => []NoInnocentClosed`
- `StaleExcused`: `Spec => []StaleCells`
- `DanglingShared`: `Spec => []DanglingIfShared`
- `RequestsAnswered`: `Spec => []Answered`
- `InOrder`: `Spec => []ChunksInOrder`

The assumption is `HttpAssumption`, that the constants are of the right kind and
each name is a prefix of itself. All rest on `TypeInv`: the types, `Phases` (the
connection of a handler or an event was accepted, and the streamer walks a list
that exists) and `Wired` (a connection that is open, its place in epoll's list
and its descriptor lead to each other), which is what makes `OpenIsWatched`
inductive although each thread closes by number. `InnocentStay` needs what the
streamer relies on when it closes after a failed write (`Innocent`): the client
of the cell has left or is closed (`Dropping`), the client of a freed cell is
closed (`DeadClosed`), and a cell has the descriptor its client was accepted
under (`Booked`). The others need more. `StaleCells` speaks of listed cells
only, but a cell is listed after it is made, so `Excused` speaks of all cells,
and of the one that the handler is about to make. `DanglingIfShared` needs
`Sharing`: no list has a cell twice, each cell is in lists of tasks that match
one name which its client asked for, and if it is freed one of these has lost
it, or an earlier shared cell was freed twice (`Recycled`); while the handler
adds a cell (`Adding`), it is in no list from `index` on. `RequestsAnswered`
splits the property in two. `Headed` is kept by the handler's last step: the
header is lost only in a socket that something was written to. `AskedFor` holds
since data is written by the cells in the lists, which are made for clients that
asked (`Sharing`), and the header to the handler's own client (`Handling`), as
long as nothing was misled. `InOrder` follows the chunks: those in a buffer are
sorted (`Queued`), the streamer's is not behind them (`Taken`), and neither is
what a client already got from it (`Delivered`); all come from one channel,
since `clive_channel_find` finds no other (`FirstOnly`), and else two channels
could be mixed in one buffer.

`ListProofs` proves for any number of entries and of items:

- `TypeCorrect`: `Spec => []TypeOK`
- `BothWaysAgree`: `Spec => []BothWays`
- `NothingFreedFollowed`: `Spec => []NothingFreed`
- `ListIsSequence`: `Spec => ImplementsItemList`
- `WalkIsComplete`: `Spec => []WalkComplete`

The assumption is `ListAssumption`: the entries are a finite set without the
null pointer, and the items are numbered.

None of these is inductive: `BothWays` says nothing of a call under way, and
`NothingFreed` nothing of the entries still to be followed. `Invariance` shows
`IInv`, which names a sequence `s` of entries that `prev`, `tail` and `count`
tell (`Back`), and a place `k`: the fields `head` and `next` lead either through
`s` too or, when the call under way has linked its entry in but not set `head`
finished, through `s` with the entry put behind `k` (`Now`). Each store of
a call either leaves this alone, moves from the one sequence to the other, or
completes it; `PutSequence`, `PutBack`, `CutSequence` and `CutBack` and their
counterparts for `next` say what a put or a cut does to the two directions.
`ChainWalked` links these sequences to `Reach`, which is defined by following
`next`: a chain without repetition is what that comes to. It goes by the least
counterexample, in place of an induction.

For the refinement, `Marks` adds that the items of the allocated entries are
distinct, so that the items of a put or cut chain are a put or cut sequence
(`PutItem`, `CutItem`). For `WalkComplete`, `WalkInv` adds where the walk stands.
In a list that only grows it is right behind the items that it has seen
(`GrowingWalk`), and what is linked in meanwhile comes after all that was there.
In a guarded list, from the place `q` where it stands the list is what it was
from a place `p` on, and each item before `p` was seen or is the one behind a
removed one (`GuardedWalk`).

`StartupProofs`, on top of `JsmnProofs`, proves for any texts, anything that may
lie behind them in memory, any set of unquoted words and any room at first:

- `StartupTypeCorrect`: `Spec => []TypeOK`
- `ParserExact`: `Spec => []ParseExact`
- `WalkReadsFilled`: `Spec => []ReadsFilled`
- `ChannelsAsDocumented`: `Spec => [](AsDocumented(file) => ChannelsOfFile)`
- `StartupShrinks`: `Spec => [](Remaining \in Nat) /\ [][Remaining' < Remaining]_vars`

The assumptions are `JsmnAssumption` (texts are sequences, there is room for a
token, brackets are no words) and `KeysAssumption` (the keys are words).
`ChannelsAsDocumented` is about the files of the documented form only: an output
array without a url before it in its object makes a channel with the url of the
channel before, or with what lies on the stack. The form leaves open how many
channels there are, what else stands between their keys, and in which order a
name and a url come.

`ParserInv` says what the tokens are when the parser is somewhere in the text:
one for each word before `pos`, in order (`Placed`); each ends before `pos`, open
ones excepted (`Ended`); no two overlap unless one is inside the other
(`Nested`); `size` is the number of tokens directly inside (`Counts`); and
`toksuper` is the innermost open one. It is kept through a return with too few
tokens because nothing is counted before it is known that there is room. The
definition to compare with (`TokensOfText`) goes by nesting levels instead, so
`TextInv` says what the tokens mean there: the level is the number of open
tokens and stays above a token's own until its end (`Levels`), the sizes are
numbers of words one level up (`Sizes`), and what was read may begin a
well-formed text (`Begun`). `OpenerIs` is where the two meet: the innermost open
token is the last opener one level down.

`ReadsFilled` says nothing of `j`. `WalkInv` says that `j` is the number of
pending tokens, those not met yet and inside of no other that was not met. When
the walk passes a token it gives way to its children (`PendingStep`), whose
number is its `size`. So the walk goes on as long as there are tokens of the
first value, and no longer. Of a text that has a lexeme the parser fills a token
(`TokenOfText`); of one without, the walk takes no step past the first.

For the channels, `FormInv` relates the variables of `main` to the place of the
token passed last (`Passed`): the state and `m` say which word stands there
(`AlongAt`), the url is the value of the last `input_url` before it unless
nothing was said yet (`UrlOk`), which at an output of the documented form is the
one of its own object (`OwnUrlLast`), a channel under way has what the outputs up to
some place of the array ask for (`MakingAt`), and the channels in the list are
those of an ascending selection of the keys `output` before it (`Listed`). What
lies behind the file's text adds nothing: its first value ends where the level
is 0 again, which is at the end of the file (`InFile`). `FlatSize` shows that
the `size` of the array, by which `main` scans its strings, is their number.

`StartupShrinks` is what `StartupEnds` rests on: each step lessens `Remaining`, a
number read off the variables, so that neither the repeated calls of the parser
nor the loops of `main` go on for ever. A call that runs out of tokens lessens it
because there is room then (no second call runs out at the same place), and a
token of the walk weighs more than the outputs it may bring (`OutputsInv`). That a
step is possible until the end is left to TLC.

Each invariant and action property of a passing run is stated by one of these
theorems. Only model-checked: liveness under fairness (`PutEnds`, `AllFetched`,
`HandlerReturns`, `UnitsLeave`, `GoneIsClosed`, `RequestIsRead`, `TimersServed`,
`ClientsAccepted`, `StartupEnds`), which the prover cannot treat.

## 6. Not modelled

The parts listed as such in the inventory, with the reasons in `PROJECT.json`.
Within the modelled parts: memory exhaustion, the failure of system calls other
than those named (a channel whose `bind` or `listen` failed, as after a restart
while the old connections linger, is a listener that no client reaches), steps
of the wall clock, to which the absolute expiries of timers are exposed, batches
longer than `EVENT_SIZE`, the contents of replies, log output, a request line
longer than `rbuffer`, what main does with tokens that malloc left in a state it
takes for a configuration, and what the rings of module HttpServer and MediaRelay do
after a put met a reset. `do_pack_ts2ts` walks `output_pads` without the `olock`
that media.h:41 says protects them; modules MediaRelay and List show that this
walk is harmless as long as the list only grows.
