------------------------------- MODULE HookIO -------------------------------
(***************************************************************************)
(* The hooked socket calls of src/hook.cc: a fiber that reads, connects    *)
(* and sleeps on the IOManager's events and timers, the workers that run   *)
(* timer callbacks and epoll results meanwhile, the peer, another reader   *)
(* of the same socket, and a fiber that closes the descriptor.             *)
(*                                                                         *)
(* This module composes what the others show of their parts.  From         *)
(* IOManager it takes addEvent, cancelEvent, cancelAll and the delivery of *)
(* an event as single steps, for one descriptor; from TimerManager that a  *)
(* timer is taken out once it is due and that cancel() takes a timer back  *)
(* until then; from Scheduler that a scheduled fiber is resumed, once for  *)
(* each time it was scheduled, after it has yielded.  Time is a tick that  *)
(* brings the timers nearer, PerMs of them a millisecond: timers are set   *)
(* in whole milliseconds, by a clock (GetCurrentMS) that counts whole ones.*)
(***************************************************************************)
EXTENDS Integers

CONSTANTS
    Kind,       \* the calls made: some of "read", "connect", "sleep"
    MaxCalls,   \* bound: calls of the fiber
    Slot,       \* bound: timers alive at a time
    Timeout,    \* milliseconds of a call's timeout, the to of do_io
    PerMs,      \* ticks in a millisecond
    Naps,       \* what is asked of a sleep, in ticks; less than 2^31 ms
    MaxAge,     \* bound: ticks of a call that are counted
    Timed,      \* whether a call has a timeout: a subset of BOOLEAN
    MaxData,    \* bound: what the peer sends
    MayClose,   \* TRUE when another fiber closes the descriptor
    Shared,     \* TRUE when another fiber reads from the socket too
    MayRefuse,  \* TRUE when connect(2) may fail at once
    None

Calls == 1 .. MaxCalls
TimeoutTicks == Timeout * PerMs
Timer == [st : {"armed", "due", "locked", "set"}, left : 0 .. MaxAge,
          call : Calls, does : {"cancel", "schedule"}, ev : {"READ", "WRITE"}]

ASSUME HookIOAssumption ==
    /\ Kind \subseteq {"read", "connect", "sleep"}
    /\ MaxCalls \in Nat /\ MaxData \in Nat /\ Timeout \in Nat
    /\ PerMs \in Nat \ {0} /\ MaxAge \in Nat /\ TimeoutTicks <= MaxAge
    /\ Naps \subseteq 0 .. MaxAge
    /\ Timed \subseteq BOOLEAN
    /\ MayClose \in BOOLEAN /\ Shared \in BOOLEAN /\ MayRefuse \in BOOLEAN
    /\ None \notin Slot \cup Timer \cup {"READ", "WRITE"}

VARIABLES
    pc,         \* where the fiber is in its call, "out" between calls
    kind,       \* the call it makes
    call,       \* its number
    timed,      \* to != -1
    asked,      \* the ticks asked of a sleep (history)
    age,        \* ticks since the call began, up to MaxAge
    handle,     \* the local variable timer, None when it is empty
    result,     \* what the last call returned
    cancelled,  \* timer_info::cancelled, one timer_info for each call
    timers,     \* the timers, and the callbacks taken out of the manager
    registered, \* the event the fiber waits for in the descriptor's context
    scheduled,  \* how often the fiber is in the scheduler's list
    data,       \* what can be read now
    sent,       \* what the peer has sent
    conn,       \* the connection
    known,      \* FdManager has an FdCtx for the descriptor
    open,       \* the descriptor is open
    closer      \* how far close() has come

fiberVars == <<pc, kind, call, timed, asked, age, handle, result>>
eventVars == <<registered, scheduled>>
sockVars == <<data, sent, conn>>
fdVars == <<known, open, closer>>
vars == <<fiberVars, cancelled, timers, eventVars, sockVars, fdVars>>

TypeOK ==
    /\ pc \in {"out", "try", "arm", "add", "added", "held", "woken", "check"}
    /\ kind \in {"read", "connect", "sleep"}
    /\ call \in 0 .. MaxCalls
    /\ timed \in BOOLEAN
    /\ asked \in 0 .. MaxAge /\ age \in 0 .. MaxAge
    /\ handle \in Slot \cup {None}
    /\ result \in {"none", "ok", "error", "timeout"}
    /\ cancelled \in [Calls -> BOOLEAN]
    /\ \A s \in Slot : timers[s] \in Timer \cup {None}
    /\ registered \in {"READ", "WRITE", None}
    /\ scheduled \in Nat
    /\ data \in 0 .. sent /\ sent \in 0 .. MaxData
    /\ conn \in {"fresh", "connecting", "established", "failed"}
    /\ known \in BOOLEAN /\ open \in BOOLEAN
    /\ closer \in {"idle", "cancelled", "deleted", "done"}

Init ==
    /\ pc = "out" /\ kind = "read" /\ call = 0 /\ timed = FALSE /\ asked = 0 /\ age = 0
    /\ handle = None /\ result = "none"
    /\ cancelled = [c \in Calls |-> FALSE]
    /\ timers = [s \in Slot |-> None]
    /\ registered = None /\ scheduled = 0
    /\ data = 0 /\ sent = 0
    /\ conn = IF "connect" \in Kind THEN "fresh" ELSE "established"
    /\ known = TRUE /\ open = TRUE /\ closer = "idle"

-----------------------------------------------------------------------------
(* What the calls use of IOManager and TimerManager. *)

\* An unconnected socket is ready for WRITE: epoll reports EPOLLHUP.
IsReady(e) == IF e = "READ" THEN data > 0 ELSE conn # "connecting"

Alive(s) == timers[s] # None

\* addTimer with a delay in the wrong unit.
AddTimerWrongUnit(c, ticks, does, ev) ==
    \E s \in Slot :
        /\ ~Alive(s)
        /\ timers' = [timers EXCEPT ![s] =
               [st |-> "armed", left |-> 1000 * ticks, call |-> c, does |-> does, ev |-> ev]]
        /\ handle' = s

\* addTimer and addConditionTimer.  The part of a millisecond that has passed
\* on the clock already is taken for a part of the delay.
AddTimer(c, ticks, does, ev) ==
    \E s \in Slot, passed \in 0 .. (PerMs - 1) :
        /\ ~Alive(s)
        /\ timers' = [timers EXCEPT ![s] =
               [st |-> "armed", left |-> IF passed < ticks THEN ticks - passed ELSE 0,
                call |-> c, does |-> does, ev |-> ev]]
        /\ handle' = s

\* Timer::cancel() is too late once listExpiredCb has taken the callback.
CancelTimer ==
    timers' = [s \in Slot |->
        IF s = handle /\ Alive(s) /\ timers[s].st = "armed" THEN None ELSE timers[s]]

\* FdContext::triggerEvent.
TriggerEvent ==
    /\ registered' = None
    /\ scheduled' = scheduled + 1

\* cancelEvent without the test of events.
CancelTriggersAnyway(ev) == TriggerEvent

\* cancelEvent fails where the event is not registered and where epoll_ctl fails.
CancelEvent(ev) ==
    IF registered = ev /\ open THEN TriggerEvent ELSE UNCHANGED eventVars

CancelAll == IF registered # None THEN TriggerEvent ELSE UNCHANGED eventVars

Return(r) ==
    /\ pc' = "out"
    /\ result' = r
    /\ handle' = None
    /\ UNCHANGED <<kind, call, timed, asked, age>>

-----------------------------------------------------------------------------
(* The fiber. *)

Ev == IF kind = "connect" THEN "WRITE" ELSE "READ"

\* A socket is read once it is connected, and connected once.
MayCall(k) ==
    CASE k = "read" -> conn = "established"
      [] k = "connect" -> conn = "fresh"
      [] k = "sleep" -> TRUE

\* do_io and connect_with_timeout up to the first system call.
Begin(k) ==
    /\ k # "sleep" /\ known
    /\ pc' = "try" /\ result' = "none"
    /\ \E t \in Timed : timed' = t
    /\ handle' = None /\ asked' = 0
    /\ UNCHANGED <<timers, data>>

\* Without an FdCtx connect is an error, and for a read the system call is the
\* whole call: EAGAIN is an error too.
BeginUnknown(k) ==
    /\ k # "sleep" /\ ~known
    /\ pc' = "out" /\ timed' = FALSE /\ handle' = None /\ asked' = 0
    /\ IF k = "read" /\ open /\ data > 0
       THEN data' = data - 1 /\ result' = "ok"
       ELSE result' = "error" /\ UNCHANGED data
    /\ UNCHANGED timers

\* The whole milliseconds in n ticks: usec/1000, and tv_nsec/1000/1000.
WholeMs(n) == (n \div PerMs) * PerMs

\* sleep, usleep and nanosleep as far as YieldToHold.
BeginSleep(k) ==
    /\ k = "sleep"
    /\ pc' = "added" /\ result' = "none"
    /\ timed' = TRUE
    /\ \E n \in Naps : asked' = n /\ AddTimer(call + 1, WholeMs(n), "schedule", "READ")
    /\ UNCHANGED data

Start(k) ==
    /\ pc = "out" /\ call < MaxCalls /\ MayCall(k)
    /\ call' = call + 1 /\ kind' = k /\ age' = 0
    /\ (Begin(k) \/ BeginUnknown(k) \/ BeginSleep(k))
    /\ UNCHANGED <<cancelled, eventVars, sent, conn, fdVars>>

\* A retry does not ask for the FdCtx again.
TryRead ==
    /\ pc = "try" /\ kind = "read"
    /\ \/ open /\ data > 0 /\ data' = data - 1 /\ Return("ok")
       \/ ~open /\ Return("error") /\ UNCHANGED data
       \/ /\ open /\ data = 0
          /\ pc' = "arm"
          /\ UNCHANGED <<kind, call, timed, asked, age, handle, result, data>>
    /\ UNCHANGED <<cancelled, timers, eventVars, sent, conn, fdVars>>

\* Only n == 0 ends the call here: the condition of the second return, n != -1
\* && errno != EINPROGRESS, is never true, so an error of connect(2) is waited
\* for like EINPROGRESS.  Such an error is not in SO_ERROR.
TryConnect ==
    /\ pc = "try" /\ kind = "connect"
    /\ \/ open /\ conn' = "established" /\ Return("ok")
       \/ /\ \/ open /\ conn' = "connecting"
             \/ (~open \/ MayRefuse) /\ UNCHANGED conn
          /\ pc' = "arm"
          /\ UNCHANGED <<kind, call, timed, asked, age, handle, result>>
    /\ UNCHANGED <<cancelled, timers, eventVars, data, sent, fdVars>>

Arm ==
    /\ pc = "arm"
    /\ pc' = "add"
    /\ IF timed THEN AddTimer(call, TimeoutTicks, "cancel", Ev) ELSE UNCHANGED <<timers, handle>>
    /\ UNCHANGED <<kind, call, timed, asked, age, result>>
    /\ UNCHANGED <<cancelled, eventVars, sockVars, fdVars>>

\* On a closed descriptor epoll_ctl fails, and so does the getsockopt that
\* connect_with_timeout makes then.
AddEvent ==
    /\ pc = "add"
    /\ IF open
       THEN /\ registered' = Ev
            /\ pc' = "added"
            /\ UNCHANGED <<kind, call, timed, asked, age, handle, result, timers>>
       ELSE CancelTimer /\ Return("error") /\ UNCHANGED registered
    /\ UNCHANGED <<cancelled, scheduled, sockVars, fdVars>>

YieldToHold ==
    /\ pc = "added"
    /\ pc' = "held"
    /\ UNCHANGED <<kind, call, timed, asked, age, handle, result, cancelled, timers>>
    /\ UNCHANGED <<eventVars, sockVars, fdVars>>

\* The scheduler swaps the fiber in.
Resume ==
    /\ pc = "held" /\ scheduled > 0
    /\ scheduled' = scheduled - 1
    /\ pc' = "woken"
    /\ UNCHANGED <<kind, call, timed, asked, age, handle, result, cancelled, timers>>
    /\ UNCHANGED <<registered, sockVars, fdVars>>

WakeUp ==
    /\ pc = "woken"
    /\ pc' = "check"
    /\ IF kind = "sleep" THEN UNCHANGED timers ELSE CancelTimer
    /\ UNCHANGED <<kind, call, timed, asked, age, handle, result>>
    /\ UNCHANGED <<cancelled, eventVars, sockVars, fdVars>>

\* do_io after the wait: the timeout, or another turn.
CheckIO ==
    /\ pc = "check" /\ kind = "read"
    /\ IF cancelled[call]
       THEN Return("timeout")
       ELSE pc' = "try" /\ handle' = None /\ UNCHANGED <<kind, call, timed, asked, age, result>>
    /\ UNCHANGED <<cancelled, timers, eventVars, sockVars, fdVars>>

\* connect_with_timeout after the wait, without the look at tinfo->cancelled.
CheckConnectNoTimeout ==
    /\ pc = "check" /\ kind = "connect"
    /\ Return(IF open /\ conn # "failed" THEN "ok" ELSE "error")
    /\ UNCHANGED <<cancelled, timers, eventVars, sockVars, fdVars>>

\* connect_with_timeout after the wait: the timeout, or what SO_ERROR says.
CheckConnect ==
    /\ pc = "check" /\ kind = "connect"
    /\ Return(IF cancelled[call] THEN "timeout"
              ELSE IF open /\ conn # "failed" THEN "ok" ELSE "error")
    /\ UNCHANGED <<cancelled, timers, eventVars, sockVars, fdVars>>

EndSleep ==
    /\ pc = "check" /\ kind = "sleep"
    /\ Return("ok")
    /\ UNCHANGED <<cancelled, timers, eventVars, sockVars, fdVars>>

-----------------------------------------------------------------------------
(* Timers and epoll: steps of any worker. *)

Tick ==
    /\ timers' = [s \in Slot |->
           IF Alive(s) /\ timers[s].left > 0
           THEN [timers[s] EXCEPT !.left = @ - 1] ELSE timers[s]]
    /\ age' = IF pc = "out" \/ age = MaxAge THEN age ELSE age + 1
    /\ <<timers, age>>' # <<timers, age>>
    /\ UNCHANGED <<pc, kind, call, timed, asked, handle, result>>
    /\ UNCHANGED <<cancelled, eventVars, sockVars, fdVars>>

InState(s, st) == Alive(s) /\ timers[s].st = st

ExpireEarly(s) ==
    /\ InState(s, "armed")
    /\ timers' = [timers EXCEPT ![s].st = "due"]
    /\ UNCHANGED <<fiberVars, cancelled, eventVars, sockVars, fdVars>>

\* listExpiredCb takes the callback; idle() schedules it as a fiber.
Expire(s) ==
    /\ InState(s, "armed") /\ timers[s].left = 0
    /\ timers' = [timers EXCEPT ![s].st = "due"]
    /\ UNCHANGED <<fiberVars, cancelled, eventVars, sockVars, fdVars>>

\* The timer of a sleep.
RunSchedule(s) ==
    /\ InState(s, "due") /\ timers[s].does = "schedule"
    /\ scheduled' = scheduled + 1
    /\ timers' = [timers EXCEPT ![s] = None]
    /\ UNCHANGED <<fiberVars, cancelled, registered, sockVars, fdVars>>

\* The timer_info lives while its call does, and while a callback has locked it.
InfoAlive(c) ==
    \/ pc # "out" /\ call = c
    \/ \E s \in Slot : Alive(s) /\ timers[s].call = c /\ timers[s].st \in {"locked", "set"}

\* The callback's own weak pointer is the last one, and has expired.
RunLockFails(s) ==
    /\ InState(s, "due") /\ timers[s].does = "cancel"
    /\ timers' = [timers EXCEPT ![s] = None]
    /\ UNCHANGED <<fiberVars, cancelled, eventVars, sockVars, fdVars>>

\* OnTimer locks the weak condition; the callback looks at cancelled.
RunLock(s) ==
    /\ InState(s, "due") /\ timers[s].does = "cancel"
    /\ timers' = [timers EXCEPT ![s] =
           IF InfoAlive(timers[s].call) /\ ~cancelled[timers[s].call]
           THEN [timers[s] EXCEPT !.st = "locked"] ELSE None]
    /\ UNCHANGED <<fiberVars, cancelled, eventVars, sockVars, fdVars>>

\* One timer_info for the descriptor in the place of one for each call.
SetCancelledOfDescriptor(s) ==
    /\ InState(s, "locked")
    /\ cancelled' = [cancelled EXCEPT ![call] = TRUE]
    /\ timers' = [timers EXCEPT ![s].st = "set"]
    /\ UNCHANGED <<fiberVars, eventVars, sockVars, fdVars>>

RunSetCancelled(s) ==
    /\ InState(s, "locked")
    /\ cancelled' = [cancelled EXCEPT ![timers[s].call] = TRUE]
    /\ timers' = [timers EXCEPT ![s].st = "set"]
    /\ UNCHANGED <<fiberVars, eventVars, sockVars, fdVars>>

RunCancelEvent(s) ==
    /\ InState(s, "set")
    /\ CancelEvent(timers[s].ev)
    /\ timers' = [timers EXCEPT ![s] = None]
    /\ UNCHANGED <<fiberVars, cancelled, sockVars, fdVars>>

\* idle() triggers the event that epoll reports.
Deliver ==
    /\ registered # None /\ open /\ IsReady(registered)
    /\ TriggerEvent
    /\ UNCHANGED <<fiberVars, cancelled, timers, sockVars, fdVars>>

-----------------------------------------------------------------------------
(* The peer and the other users of the descriptor. *)

Send ==
    /\ conn = "established" /\ sent < MaxData
    /\ sent' = sent + 1 /\ data' = data + 1
    /\ UNCHANGED <<fiberVars, cancelled, timers, eventVars, conn, fdVars>>

\* Another fiber reads the data first.
Steal ==
    /\ Shared /\ data > 0
    /\ data' = data - 1
    /\ UNCHANGED <<fiberVars, cancelled, timers, eventVars, sent, conn, fdVars>>

Answer ==
    /\ conn = "connecting"
    /\ conn' \in {"established", "failed"}
    /\ UNCHANGED <<fiberVars, cancelled, timers, eventVars, data, sent, fdVars>>

\* The three steps of close().
CloseCancelAll ==
    /\ MayClose /\ closer = "idle"
    /\ CancelAll
    /\ closer' = "cancelled"
    /\ UNCHANGED <<fiberVars, cancelled, timers, sockVars, known, open>>

CloseDel ==
    /\ closer = "cancelled"
    /\ closer' = "deleted" /\ known' = FALSE
    /\ UNCHANGED <<fiberVars, cancelled, timers, eventVars, sockVars, open>>

CloseF ==
    /\ closer = "deleted"
    /\ closer' = "done" /\ open' = FALSE
    /\ UNCHANGED <<fiberVars, cancelled, timers, eventVars, sockVars, known>>

-----------------------------------------------------------------------------
Continue ==
    \/ TryRead \/ TryConnect \/ Arm \/ AddEvent \/ YieldToHold \/ Resume
    \/ WakeUp \/ CheckIO \/ CheckConnect \/ EndSleep

FiberStep ==
    \/ \E k \in Kind : Start(k)
    \/ Continue

CallbackStep(s) ==
    Expire(s) \/ RunSchedule(s) \/ RunLock(s) \/ RunSetCancelled(s) \/ RunCancelEvent(s)

Close == CloseCancelAll \/ CloseDel \/ CloseF

Next ==
    \/ FiberStep
    \/ Tick
    \/ \E s \in Slot : CallbackStep(s)
    \/ Deliver
    \/ Send \/ Steal \/ Answer
    \/ Close

Spec == Init /\ [][Next]_vars

\* Threads are scheduled, the scheduler resumes the fiber (Scheduler), workers
\* take out due timers (TimerManager) and epoll's results, time passes, and
\* close() goes on once it has begun.
Fairness ==
    /\ WF_vars(Continue)
    /\ WF_vars(Tick)
    /\ \A s \in Slot : WF_vars(CallbackStep(s))
    /\ WF_vars(Deliver)
    /\ WF_vars(CloseDel \/ CloseF)

FairSpec == Spec /\ Fairness

-----------------------------------------------------------------------------
\* Exactly one party will wake a fiber that waits: the registered event or the
\* timer of its sleep before it was triggered, the scheduler's list after.  A
\* fiber that does not wait has left nothing behind that would end a later wait.
OneWake ==
    LET waits == pc \in {"added", "held"}
        wake == {s \in Slot : Alive(s) /\ timers[s].does = "schedule"}
    IN  /\ scheduled \in {0, 1}
        /\ registered # None => waits /\ kind # "sleep" /\ registered = Ev
        /\ wake # {} => waits /\ kind = "sleep"
        /\ scheduled = 1 => waits
        /\ waits => (scheduled = 1) # (registered # None \/ wake # {})

\* A call has been cancelled only when its timeout has passed since it began,
\* but for less than the millisecond the clock counts in, whichever attempt's
\* timer it was and whatever callbacks of earlier calls are still under way.
TimeoutNotEarly ==
    pc # "out" /\ kind # "sleep" /\ cancelled[call] => TimeoutTicks < age + PerMs

\* sleep() comes back less than two milliseconds before the time asked for,
\* one dropped by the division and one by the clock, whatever callbacks and
\* events the calls before it have left.
SleepsLongEnough ==
    pc \in {"woken", "check"} /\ kind = "sleep" => asked < age + 2 * PerMs

\* connect() returns 0 only on a connected socket, unless another fiber is
\* closing it: a wait that the timer ended is not taken for an answer.
ConnectTruth ==
    pc = "out" /\ kind = "connect" /\ result = "ok" /\ closer = "idle"
        => conn = "established"

\* A timeout has marked the call as cancelled, its cancelEvent is over, and the
\* event is registered: the callback came before addEvent or one retry late, or
\* close() has taken the descriptor away.  No later callback cancels the event.
CancelLost ==
    /\ cancelled[call] /\ registered # None
    /\ \A s \in Slot : InState(s, "set") => timers[s].call # call

\* A call with a timeout comes back unless its cancelEvent was lost.
ReturnsUnlessLost == (pc # "out" /\ timed) ~> (pc = "out" \/ CancelLost)

\* A call with a timeout comes back.
Returns == (pc # "out" /\ timed) ~> pc = "out"

=============================================================================
