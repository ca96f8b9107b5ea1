------------------------------- MODULE Timer --------------------------------
(***************************************************************************)
(* common/timer.c: one-shot timers as connections of the event loop. Their *)
(* expiry is a point of the wall clock, computed in seconds and            *)
(* nanoseconds. Nothing in the program makes a timer yet; the calls may    *)
(* come from main before its loop and from the handlers of timers.         *)
(***************************************************************************)
EXTENDS EventLoop

CONSTANTS
    NsecPerSec,  \* 10^9
    MsecPerSec,  \* 1000, far below it
    Delays,      \* the msecs that callers ask for
    MaxNow,      \* bound: the last nanosecond of the clock
    MaxCalls     \* bound: calls of the functions of timer.h

ASSUME TimerAssumption ==
    /\ NsecPerSec \in Nat \ {0} /\ MsecPerSec \in Nat \ {0}
    /\ MsecPerSec <= NsecPerSec
    /\ Delays \subseteq Nat
    /\ MaxNow \in Nat /\ NsecPerSec <= MaxNow /\ MaxCalls \in Nat

VARIABLES
    now,      \* CLOCK_REALTIME in nanoseconds
    due,      \* due[f]: the expiry of a timerfd, 0 when it is not armed
    handle,   \* handle[a]: whether the handler of a timer calls timer.h
    running,  \* whether the handler that runs does
    calls,    \* calls so far
    asked,    \* history: the whole seconds asked for, by the wall clock; 0
              \* once the handler was called for it
    leaked    \* history: descriptors that no struct con knows any more

timer == <<now, due, handle, running, calls, asked, leaked>>

TimerInit ==
    /\ now = NsecPerSec
    /\ due = [f \in Fds |-> 0]
    /\ handle = [a \in Cons |-> FALSE] /\ running = FALSE
    /\ calls = 0
    /\ asked = [a \in Cons |-> 0]
    /\ leaked = {}

\* A timerfd that expires can be read, once.
Tick ==
    /\ now < MaxNow
    /\ now' = now + 1
    /\ LET expired == {f \in Fds : due[f] = now'} IN
       /\ ready' = [f \in Fds |-> IF f \in expired THEN {"read"} ELSE ready[f]]
       /\ due' = [f \in Fds |-> IF f \in expired THEN 0 ELSE due[f]]
    /\ UNCHANGED <<con, file, interest, batch, pc, handle, running, calls, asked, leaked>>

----------------------------------------------------------------------------
(* The expiry: now.tv_sec + msecs / 1000, now.tv_nsec + msecs % 1000.      *)

TvSec(msecs)  == (now \div NsecPerSec) + (msecs \div MsecPerSec)
TvNsec(msecs) == (now % NsecPerSec) + (msecs % MsecPerSec)
Expiry(msecs) == TvSec(msecs) * NsecPerSec + TvNsec(msecs)

\* timerfd_settime takes no tv_nsec of a second or more: EINVAL. The bound
\* leaves room for the expiry to come.
Valid(msecs)   == TvNsec(msecs) < NsecPerSec
Bounded(msecs) == Valid(msecs) => Expiry(msecs) <= MaxNow

\* timerfd_settime: an expiry that was pending is forgotten, and one that lies
\* in the past comes at once.
Settime(f, msecs) ==
    /\ ready' = [ready EXCEPT ![f] = IF Expiry(msecs) <= now THEN {"read"} ELSE {}]
    /\ due' = [due EXCEPT ![f] = IF Expiry(msecs) <= now THEN 0 ELSE Expiry(msecs)]

Asks(a, msecs) ==
    asked' = [asked EXCEPT ![a] = now + (msecs \div MsecPerSec) * NsecPerSec]

Calling ==
    /\ pc \in {"main", "handler"} /\ (pc = "handler" => running)
    /\ calls < MaxCalls
    /\ calls' = calls + 1

\* clive_timer_new; event_del_out aborts when epoll refused the timer.
TimerNew(msecs, h) ==
    /\ Calling /\ FreeFds # {} /\ Valid(msecs) /\ Bounded(msecs)
    /\ file' = [file EXCEPT ![NewFd] = "timer"]
    /\ Settime(NewFd, msecs)
    /\ \E a \in FreeCons :
          /\ Watch(a, "timer", NewFd)
          /\ pc' = IF con'[a].active = {} THEN "aborted" ELSE pc
          /\ handle' = [handle EXCEPT ![a] = h]
          /\ Asks(a, msecs)
    /\ UNCHANGED <<batch, now, running, leaked>>

\* It frees the timer and gives NULL: there was no descriptor, or the expiry
\* was refused, and then the descriptor stays open.
TimerNewFails(msecs) ==
    /\ Calling
    /\ \/ FreeFds = {} /\ UNCHANGED <<file, leaked>>
       \/ /\ FreeFds # {} /\ ~Valid(msecs)
          /\ file' = [file EXCEPT ![NewFd] = "timer"]
          /\ leaked' = leaked \cup {NewFd}
    /\ UNCHANGED <<con, ready, interest, batch, pc, now, due, handle, running, asked>>

Timers == {a \in Heap : con[a].kind = "timer"}

\* clive_timer_update_time
UpdateTime(a, msecs) ==
    /\ Calling /\ a \in Timers /\ Valid(msecs) /\ Bounded(msecs)
    /\ Settime(con[a].skt, msecs)
    /\ Asks(a, msecs)
    /\ UNCHANGED <<con, file, interest, batch, pc, now, handle, running, leaked>>

\* Faulty: the timer is stopped first.
UpdateTimeStops(a, msecs) ==
    /\ Calling /\ a \in Timers /\ ~Valid(msecs)
    /\ ready' = [ready EXCEPT ![con[a].skt] = {}]
    /\ due' = [due EXCEPT ![con[a].skt] = 0]
    /\ UNCHANGED <<con, file, interest, batch, pc, now, handle, running, asked, leaked>>

\* -1: the expiry is refused, and the one before remains.
UpdateTimeFails(a, msecs) ==
    /\ Calling /\ a \in Timers /\ ~Valid(msecs)
    /\ UNCHANGED <<loop, now, due, handle, running, asked, leaked>>

\* clive_timer_update_handle
UpdateHandle(a, h) ==
    /\ Calling /\ a \in Timers
    /\ handle' = [handle EXCEPT ![a] = h]
    /\ UNCHANGED <<loop, now, due, running, asked, leaked>>

----------------------------------------------------------------------------
(* con_recv.                                                               *)

\* Faulty: the handler is called though nothing was read.
RecvExpiredAny(e) ==
    /\ Dispatched(e, "timer")
    /\ ready' = [ready EXCEPT ![con[e.con].skt] = {}]
    /\ batch' = batch \ {e} /\ pc' = "handler"
    /\ running' = handle[e.con]
    /\ asked' = [asked EXCEPT ![e.con] = 0]
    /\ UNCHANGED <<con, file, interest, now, due, handle, calls, leaked>>

\* The read takes the expiration, and the handler is called.
RecvExpired(e) ==
    /\ Dispatched(e, "timer") /\ ready[con[e.con].skt] # {}
    /\ ready' = [ready EXCEPT ![con[e.con].skt] = {}]
    /\ batch' = batch \ {e} /\ pc' = "handler"
    /\ running' = handle[e.con]
    /\ asked' = [asked EXCEPT ![e.con] = 0]
    /\ UNCHANGED <<con, file, interest, now, due, handle, calls, leaked>>

\* EAGAIN: it was set anew by a handler called before in this batch.
RecvNotExpired(e) ==
    /\ Dispatched(e, "timer") /\ ready[con[e.con].skt] = {}
    /\ NextEvent(batch \ {e})
    /\ UNCHANGED <<con, file, ready, interest, timer>>

HandlerReturns ==
    /\ pc = "handler"
    /\ NextEvent(batch)
    /\ UNCHANGED <<con, file, ready, interest, timer>>
=============================================================================
