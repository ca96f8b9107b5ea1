----------------------------- MODULE MediaRelay -----------------------------
(***************************************************************************)
(* From the UDP sockets of the channels to the buffers of the http tasks:  *)
(* udp_recv of channel/channel.c in the main thread, the repacking thread  *)
(* of media/media.c with media/ts2ts.c, and the http thread's              *)
(* registration of its buffers as output pads.                             *)
(*                                                                         *)
(* A unit is an indivisible piece of a datagram, named by its position in  *)
(* the input of its channel. Rings are bounded queues (module Kfifo says   *)
(* when they are).                                                         *)
(***************************************************************************)
EXTENDS Integers, Sequences, SequencesExt, FiniteSets

CONSTANTS
    Channels,  \* the channels with a udp url
    Buffers,   \* the http tasks' buffers
    Out,       \* Out[b]: the channel whose ts_media gets b as a pad
    InCap,     \* units in a channel's buffer, 4 MB in the code
    OutCap,    \* units in an http task's buffer, 128 kB
    ChunkLen,  \* units the media thread takes at once, 1024 bytes
    MaxDgram,  \* units in the longest datagram
    MaxUnits,  \* bound: MaxUnits[c] units are received by a channel
    MaxTasks,  \* bound: tasks attached
    MaxPads    \* bound: registrations of one buffer

ASSUME RelayAssumption ==
    /\ Out \in [Buffers -> Channels]
    /\ {InCap, OutCap, ChunkLen, MaxDgram} \subseteq Nat \ {0}
    /\ MaxDgram <= InCap
    /\ MaxUnits \in [Channels -> Nat]
    /\ {MaxTasks, MaxPads} \subseteq Nat

VARIABLES
    (* the main thread *)
    type,      \* channel->input_media_type
    open,      \* the channel's socket is open and in the event loop
    mainPc, at,\* where the thread is, and in the udp_recv of which channel
    pend,      \* the units of its local buffer still to be put
    (* shared by the main and the media thread *)
    fifo,      \* channel->buffer
    pack,      \* channel->ts_media->pack_type
    tasks,     \* the list of media.c: a channel for each Task
    (* the media thread *)
    mediaPc,
    current,   \* index of the current task, 0 for NULL
    chunk,     \* the bytes it got from a channel's buffer
    pad,       \* index of the current entry of output_pads
    (* shared by the media and the http threads *)
    pads,      \* channel->ts_media->output_pads
    adding,    \* the buffer being registered, under the olock
    obuf,      \* the http tasks' buffers
    (* history *)
    got,       \* units received by a channel
    odd,       \* channels that received an unsupported datagram first
    ignored,   \* units of a channel that were dropped before any pad
    put,       \* the units each buffer accepted
    missed     \* the units each buffer had no room for

main  == <<type, open, mainPc, at, pend>>
media == <<mediaPc, current, chunk, pad>>
http  == <<pads, adding>>
past  == <<got, odd, ignored, put, missed>>
vars  == <<main, fifo, pack, tasks, media, http, obuf, past>>

Types   == {"TS", "FLV", "Unknown"}
Packs   == {"TS2TS", "FLV2TS", "Unknown"}
Nothing == "nothing"

Least(a, b) == IF a < b THEN a ELSE b

\* Faulty variants, here and below, that the properties must tell from the code.
RoomOneMore(c) == InCap + 1 - Len(fifo[c])

Room(c) == InCap - Len(fifo[c])

Init ==
    /\ type = [c \in Channels |-> "Unknown"]
    /\ open = [c \in Channels |-> TRUE]
    /\ mainPc = "wait" /\ at = Nothing /\ pend = <<>>
    /\ fifo = [c \in Channels |-> <<>>]
    /\ pack = [c \in Channels |-> "Unknown"]
    /\ tasks = <<>>
    /\ mediaPc = "head" /\ current = 0 /\ chunk = <<>> /\ pad = 0
    /\ pads = [c \in Channels |-> <<>>] /\ adding = Nothing
    /\ obuf = [b \in Buffers |-> <<>>]
    /\ got = [c \in Channels |-> 0] /\ odd = {}
    /\ ignored = [c \in Channels |-> {}]
    /\ put = [b \in Buffers |-> <<>>]
    /\ missed = [b \in Buffers |-> {}]

----------------------------------------------------------------------------
(* The main thread: udp_recv.                                              *)

\* clive_udp_recv returns a datagram of n units.
Receives(c, n) ==
    /\ got[c] + n <= MaxUnits[c]
    /\ got' = [got EXCEPT ![c] = @ + n]
    /\ pend' = [k \in 1..n |-> got[c] + k]

\* Faulty: the format found is not recorded.
RecvFirstForgets(c) ==
    /\ mainPc = "wait" /\ open[c] /\ type[c] = "Unknown"
    /\ Len(tasks) < MaxTasks
    /\ \E n \in 1..MaxDgram : Receives(c, n)
    /\ at' = c /\ mainPc' = "put"
    /\ UNCHANGED <<type, open, fifo, pack, tasks, media, http, obuf,
                   odd, ignored, put, missed>>

\* The first datagram of a channel, or one that follows datagrams of no
\* supported format: its first byte tells the format.
RecvFirst(c) ==
    /\ mainPc = "wait" /\ open[c] /\ type[c] = "Unknown"
    /\ Len(tasks) < MaxTasks
    /\ \E n \in 1..MaxDgram, t \in Types :
          /\ Receives(c, n)
          /\ type' = [type EXCEPT ![c] = t]
          /\ odd' = IF t = "Unknown" THEN odd \cup {c} ELSE odd
    /\ at' = c /\ mainPc' = "put"
    /\ UNCHANGED <<open, fifo, pack, tasks, media, http, obuf, ignored, put, missed>>

\* It is put once: what does not fit is lost ("buffer overflow").
PutFirst ==
    /\ mainPc = "put"
    /\ LET w == Least(Len(pend), Room(at)) IN
          /\ fifo' = [fifo EXCEPT ![at] = @ \o SubSeq(pend, 1, w)]
          /\ ignored' = [ignored EXCEPT ![at] =
                            @ \cup ToSet(SubSeq(pend, w + 1, Len(pend)))]
    /\ pend' = <<>>
    /\ mainPc' = "setype"
    /\ UNCHANGED <<type, open, at, pack, tasks, media, http, obuf,
                   got, odd, put, missed>>

\* clive_media_setype; the flv_media never gets the pack type TS2TS.
Setype ==
    /\ mainPc = "setype"
    /\ pack' = [pack EXCEPT ![at] = CASE type[at] = "TS"  -> "TS2TS"
                                      [] type[at] = "FLV" -> "FLV2TS"
                                      [] OTHER            -> @]
    /\ mainPc' = "attach"
    /\ UNCHANGED <<type, open, at, pend, fifo, tasks, media, http, obuf, past>>

\* Faulty: a channel of unknown type is not attached.
AttachKnown ==
    /\ mainPc = "attach"
    /\ tasks' = IF type[at] = "Unknown" THEN tasks ELSE Append(tasks, at)
    /\ mainPc' = "recv"
    /\ UNCHANGED <<type, open, at, pend, fifo, pack, media, http, obuf, past>>

\* clive_media_attach, under media.c's lock; udp_recv goes on to receive.
Attach ==
    /\ mainPc = "attach"
    /\ tasks' = Append(tasks, at)
    /\ mainPc' = "recv"
    /\ UNCHANGED <<type, open, at, pend, fifo, pack, media, http, obuf, past>>

\* The second loop, entered at once by a channel of known type, receives a
\* datagram that is put until all of it is in the channel's buffer ...
RecvNext(c) ==
    /\ \/ mainPc = "wait" /\ open[c] /\ type[c] # "Unknown"
       \/ mainPc = "recv" /\ at = c
    /\ \E n \in 1..MaxDgram : Receives(c, n)
    /\ at' = c /\ mainPc' = "spin"
    /\ UNCHANGED <<type, open, fifo, pack, tasks, media, http, obuf,
                   odd, ignored, put, missed>>

\* ... or finds none: EAGAIN.
RecvAgain ==
    /\ mainPc = "recv"
    /\ mainPc' = "wait" /\ at' = Nothing
    /\ UNCHANGED <<type, open, pend, fifo, pack, tasks, media, http, obuf, past>>

\* udp_close, after which no event comes.
UdpClose(c) == open' = [open EXCEPT ![c] = FALSE]

\* A datagram without bytes leaves errno as it was. If that is none of EINTR
\* and EAGAIN the event loop closes the channel; EINTR receives again.
RecvEmpty(c) ==
    /\ \/ mainPc = "wait" /\ open[c]
       \/ mainPc = "recv" /\ at = c
    /\ UdpClose(c) \/ UNCHANGED open
    /\ mainPc' = "wait" /\ at' = Nothing
    /\ UNCHANGED <<type, pend, fifo, pack, tasks, media, http, obuf, past>>

\* Faulty: what did not fit is forgotten.
SpinOnce ==
    /\ mainPc = "spin"
    /\ fifo' = [fifo EXCEPT ![at] = @ \o SubSeq(pend, 1, Least(Len(pend), Room(at)))]
    /\ pend' = <<>> /\ mainPc' = "wait" /\ at' = Nothing
    /\ UNCHANGED <<type, open, pack, tasks, media, http, obuf, past>>

\* One kfifo_put of the loop that goes on while total < n.
Spin ==
    /\ mainPc = "spin"
    /\ LET w == Least(Len(pend), Room(at)) IN
          /\ fifo' = [fifo EXCEPT ![at] = @ \o SubSeq(pend, 1, w)]
          /\ pend' = SubSeq(pend, w + 1, Len(pend))
    /\ IF pend' = <<>> THEN mainPc' = "wait" /\ at' = Nothing
                       ELSE UNCHANGED <<mainPc, at>>
    /\ UNCHANGED <<type, open, pack, tasks, media, http, obuf, past>>

----------------------------------------------------------------------------
(* The media thread: Entry, clive_media_consume_data and do_pack_ts2ts.    *)

\* The channel whose chunk the thread holds.
Source == tasks[current]

\* current is NULL: it starts again at the head of the list, under the lock.
FirstTask ==
    /\ mediaPc = "head" /\ tasks # <<>>
    /\ current' = 1 /\ mediaPc' = "poll"
    /\ UNCHANGED <<main, fifo, pack, tasks, chunk, pad, http, obuf, past>>

PollEmpty ==
    /\ mediaPc = "poll" /\ fifo[Source] = <<>>
    /\ mediaPc' = "next"
    /\ UNCHANGED <<main, fifo, pack, tasks, current, chunk, pad, http, obuf, past>>

\* Faulty: the last unit of a chunk stays in the channel's buffer.
PollGetKeeps ==
    /\ mediaPc = "poll" /\ fifo[Source] # <<>>
    /\ LET n == Least(ChunkLen, Len(fifo[Source])) IN
          /\ chunk' = SubSeq(fifo[Source], 1, n)
          /\ fifo' = [fifo EXCEPT ![Source] = SubSeq(@, n, Len(@))]
    /\ mediaPc' = "consume"
    /\ UNCHANGED <<main, pack, tasks, current, pad, http, obuf, past>>

PollGet ==
    /\ mediaPc = "poll" /\ fifo[Source] # <<>>
    /\ LET n == Least(ChunkLen, Len(fifo[Source])) IN
          /\ chunk' = SubSeq(fifo[Source], 1, n)
          /\ fifo' = [fifo EXCEPT ![Source] = SubSeq(@, n + 1, Len(@))]
    /\ mediaPc' = "consume"
    /\ UNCHANGED <<main, pack, tasks, current, pad, http, obuf, past>>

\* clive_media_consume_data packs for TS2TS only, and then starts at the head
\* of output_pads; the olock is not taken.
Consume ==
    /\ mediaPc = "consume"
    /\ IF pack[Source] = "TS2TS"
       THEN /\ pad' = IF pads[Source] = <<>> THEN 0 ELSE 1
            /\ mediaPc' = IF pads[Source] = <<>> THEN "next" ELSE "walk"
            /\ UNCHANGED ignored
       ELSE /\ ignored' = [ignored EXCEPT ![Source] = @ \cup ToSet(chunk)]
            /\ mediaPc' = "next"
            /\ UNCHANGED pad
    /\ UNCHANGED <<main, fifo, pack, tasks, current, chunk, http, obuf,
                   got, odd, put, missed>>

\* kfifo_put to the current pad; what it does not accept is lost.
PadPut ==
    /\ mediaPc = "walk"
    /\ LET b == pads[Source][pad]
           w == Least(Len(chunk), OutCap - Len(obuf[b]))
       IN  /\ obuf' = [obuf EXCEPT ![b] = @ \o SubSeq(chunk, 1, w)]
           /\ put' = [put EXCEPT ![b] = @ \o SubSeq(chunk, 1, w)]
           /\ missed' = [missed EXCEPT ![b] =
                            @ \cup ToSet(SubSeq(chunk, w + 1, Len(chunk)))]
    /\ mediaPc' = "step"
    /\ UNCHANGED <<main, fifo, pack, tasks, current, chunk, pad, http,
                   got, odd, ignored>>

\* Faulty: the walk starts again when the list has grown.
PadNextAgain ==
    /\ mediaPc = "step"
    /\ IF pad < Len(pads[Source])
       THEN pad' = 1 /\ mediaPc' = "walk"
       ELSE pad' = 0 /\ mediaPc' = "next"
    /\ UNCHANGED <<main, fifo, pack, tasks, current, chunk, http, obuf, past>>

\* ListIterator_Next: the pads added meanwhile are seen.
PadNext ==
    /\ mediaPc = "step"
    /\ IF pad < Len(pads[Source])
       THEN pad' = pad + 1 /\ mediaPc' = "walk"
       ELSE pad' = 0 /\ mediaPc' = "next"
    /\ UNCHANGED <<main, fifo, pack, tasks, current, chunk, http, obuf, past>>

\* Faulty: the thread stays with the last task instead of starting again.
TaskNextStays ==
    /\ mediaPc = "next"
    /\ chunk' = <<>>
    /\ current' = Least(current + 1, Len(tasks)) /\ mediaPc' = "poll"
    /\ UNCHANGED <<main, fifo, pack, tasks, pad, http, obuf, past>>

\* current = current->next, under the lock.
TaskNext ==
    /\ mediaPc = "next"
    /\ chunk' = <<>>
    /\ IF current < Len(tasks)
       THEN current' = current + 1 /\ mediaPc' = "poll"
       ELSE current' = 0 /\ mediaPc' = "head"
    /\ UNCHANGED <<main, fifo, pack, tasks, pad, http, obuf, past>>

----------------------------------------------------------------------------
(* The http threads: conn_recv registers the buffer of a task, for every   *)
(* request for it, and the streamer takes from it.                         *)

Registrations(b) == Cardinality({i \in DOMAIN pads[Out[b]] : pads[Out[b]][i] = b})

\* clive_media_add_output takes the olock ...
AddLock(b) ==
    /\ Registrations(b) < MaxPads /\ adding = Nothing
    /\ adding' = b
    /\ UNCHANGED <<main, fifo, pack, tasks, media, pads, obuf, past>>

\* ... links the entry behind the tail, and releases the olock.
AddPad(b) ==
    /\ adding = b
    /\ pads' = [pads EXCEPT ![Out[b]] = Append(@, b)]
    /\ adding' = Nothing
    /\ UNCHANGED <<main, fifo, pack, tasks, media, obuf, past>>

\* kfifo_get of the streamer.
Drain(b) ==
    /\ obuf[b] # <<>>
    /\ obuf' = [obuf EXCEPT ![b] =
                   SubSeq(@, 1 + Least(ChunkLen, Len(@)), Len(@))]
    /\ UNCHANGED <<main, fifo, pack, tasks, media, http, past>>

----------------------------------------------------------------------------
MainStep  == PutFirst \/ Setype \/ Attach \/ RecvAgain \/ Spin
MediaStep == FirstTask \/ PollEmpty \/ PollGet \/ Consume \/ PadPut \/ PadNext \/ TaskNext

Next ==
    \/ MainStep
    \/ \E c \in Channels : RecvFirst(c) \/ RecvNext(c) \/ RecvEmpty(c)
    \/ MediaStep
    \/ \E b \in Buffers : AddLock(b) \/ AddPad(b) \/ Drain(b)

Spec == Init /\ [][Next]_vars

\* Both threads run for ever; datagrams and requests need not come.
FairSpec == Spec /\ WF_vars(MainStep) /\ WF_vars(MediaStep)

----------------------------------------------------------------------------
(* Properties.                                                             *)

Units == UNION {1..MaxUnits[c] : c \in Channels}

\* The variables keep their types; no buffer holds more than its capacity and
\* no index points outside its list.
TypeOK ==
    /\ type \in [Channels -> Types]
    /\ open \in [Channels -> BOOLEAN]
    /\ mainPc \in {"wait", "put", "setype", "attach", "recv", "spin"}
    /\ at \in Channels \cup {Nothing} /\ (mainPc # "wait" => at \in Channels)
    /\ pend \in Seq(Units)
    /\ fifo \in [Channels -> Seq(Units)]
    /\ \A c \in Channels : Len(fifo[c]) <= InCap
    /\ pack \in [Channels -> Packs]
    /\ tasks \in Seq(Channels)
    /\ mediaPc \in {"head", "poll", "consume", "walk", "step", "next"}
    /\ current \in 0..Len(tasks) /\ (mediaPc # "head" => current > 0)
    /\ chunk \in Seq(Units)
    /\ mediaPc \in {"walk", "step"} => pad \in DOMAIN pads[Source]
    /\ pads \in [Channels -> Seq(Buffers)]
    /\ adding \in Buffers \cup {Nothing}
    /\ obuf \in [Buffers -> Seq(Units)]
    /\ \A b \in Buffers : Len(obuf[b]) <= OutCap
    /\ got \in [Channels -> Nat] /\ odd \subseteq Channels
    /\ ignored \in [Channels -> SUBSET Units]
    /\ put \in [Buffers -> Seq(Units)] /\ missed \in [Buffers -> SUBSET Units]

Increasing(s) == \A i, j \in DOMAIN s : i < j => s[i] < s[j]

\* The units of a channel that are on their way to its pads, oldest first.
InHand(c) == IF mediaPc \in {"consume", "walk", "step"} /\ Source = c
             THEN chunk ELSE <<>>
InFlight(c) == InHand(c) \o fifo[c] \o (IF at = c THEN pend ELSE <<>>)

\* Whatever the two threads do, the units of a channel stay in order from its
\* socket to the media thread, and a unit later than one still on its way is
\* on its way too or was dropped for want of room or of a supported format.
Conservation ==
    \A c \in Channels : LET s == InFlight(c) IN
        /\ Increasing(s)
        /\ s # <<>> => \A u \in s[1]..got[c] : u \in ToSet(s) \cup ignored[c]

\* A TS channel whose first datagram was recognised loses nothing before the
\* pads: udp_recv sets the pack type before the media thread can see the
\* channel (channel.c:96-103). It is also attached once only.
CleanStart ==
    \A c \in Channels \ odd :
        /\ type[c] = "TS" => ignored[c] = {}
        /\ Cardinality({i \in DOMAIN tasks : tasks[i] = c}) <= 1

\* A buffer gets a unit once for each time it is registered, at most, though
\* the list of pads grows while do_pack_ts2ts walks it.
Copies ==
    \A b \in Buffers : \A u \in Units :
        Cardinality({i \in DOMAIN put[b] : put[b][i] = u}) <= Registrations(b)

\* A buffer registered once gets the units in order; between two that it got
\* only those are missing that it had no room for, or that were dropped
\* before.
PadStream ==
    \A b \in Buffers : Registrations(b) = 1 =>
        /\ Increasing(put[b])
        /\ \A i \in 1..Len(put[b])-1 :
              (put[b][i]+1)..(put[b][i+1]-1) \subseteq missed[b] \cup ignored[Out[b]]

\* The event loop is never caught in udp_recv: the loop over kfifo_put ends,
\* since the channel is attached before it is entered.
HandlerReturns == mainPc # "wait" ~> mainPc = "wait"

\* Every unit received leaves for the pads: no channel is starved by another
\* and none is forgotten, whatever the order in which they were attached.
UnitsLeave ==
    \A c \in Channels : \A u \in 1..MaxUnits[c] :
        u \in ToSet(InFlight(c)) ~> u \notin ToSet(InFlight(c))

\* http.c:60 says of an http task's buffer "the channels data": no part of the
\* channel's data is in it twice.
DataOnce == \A b \in Buffers : Increasing(put[b])
=============================================================================
