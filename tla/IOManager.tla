----------------------------- MODULE IOManager -----------------------------
(***************************************************************************)
(* The file descriptor events of IOManager (src/iomanager.cc): a context   *)
(* per descriptor that remembers who waits for READ and for WRITE, the     *)
(* edge-triggered registrations in epoll, and the workers that take ready  *)
(* descriptors out of epoll_wait and schedule who waits.                   *)
(*                                                                         *)
(* The body of addEvent, delEvent, cancelEvent, cancelAll and of one turn  *)
(* of idle()'s loop over the results runs under the mutex of the context,  *)
(* so it is one step here.  What comes before it is a step of its own: the *)
(* look-up in m_fdContexts, which is under m_mutex, and epoll_wait, whose  *)
(* results are used later.                                                 *)
(*                                                                         *)
(* A running fiber stands for anything that may call the IOManager: timer  *)
(* callbacks too.  Timers and the tickle pipe are in TimerManager and      *)
(* Scheduler; that a scheduled fiber runs once and after it has left its   *)
(* thread is what Scheduler shows.                                         *)
(***************************************************************************)
EXTENDS Integers, FiniteSets

CONSTANTS
    Fiber,     \* the fibers
    Callback,  \* the callbacks given to addEvent instead of a fiber
    Idler,     \* the workers inside idle()
    Fd,        \* the descriptors
    InitSize,  \* the size the constructor gives m_fdContexts (32)
    MaxGen,    \* bound: how often contextResize makes a context for one fd
    Comes,     \* bound: what descriptors become ready for
    MayClose,  \* TRUE when fibers close descriptors
    None

ASSUME IOManagerAssumption ==
    /\ Fd \subseteq Nat /\ IsFiniteSet(Fd)
    /\ InitSize \in Nat \ {0, 1} /\ MaxGen \in Nat
    /\ MayClose \in BOOLEAN /\ Comes \subseteq {"READ", "WRITE", "ERR"}
    /\ Fiber \cap Callback = {} /\ None \notin Fiber \cup Callback

Event == {"READ", "WRITE"}      \* EPOLLIN and EPOLLOUT too
Ready == Event \cup {"ERR"}     \* EPOLLERR or EPOLLHUP
Waiter == Fiber \cup Callback
Ctx == [fd : Fd, gen : 0 .. MaxGen]
Result == [ctx : Ctx, ev : SUBSET Ready]
NoCall == [op |-> "run"]
NotRegistered == [mask |-> {}, ctx |-> None]

VARIABLES
    size,      \* m_fdContexts.size()
    gen,       \* which context m_fdContexts[fd] is: contextResize may make a new one
    events,    \* FdContext::events
    waiter,    \* EventContext: whom triggerEvent schedules, None after a reset
    pending,   \* m_pendingEventCount
    reg,       \* the registration of each descriptor in epoll
    edge,      \* the descriptor is in epoll's ready list
    cond,      \* what the descriptor is ready for
    open,      \* the descriptors that are open
    call,      \* what each fiber does: [op |-> "run"], "hold", or a call under way
    scheduled, \* how often each waiter is in the scheduler's list
    batch,     \* results of epoll_wait that a worker has not come to yet
    aborted,   \* the FLZ_ASSERT that has ended the process, or "no"
    uses,      \* the events a waiter was given for, until it has run (history)
    overtaken  \* the descriptors that were closed under a user (history)

tableVars == <<size, gen>>
ctxVars == <<events, waiter, pending>>
kernelVars == <<reg, edge, cond, open>>
useVars == <<uses, overtaken>>
vars == <<tableVars, ctxVars, kernelVars, call, scheduled, batch, aborted, useVars>>

Call ==
    {NoCall, [op |-> "hold"]}
    \cup [op : {"grow"}, fd : Fd, ev : Event, who : Waiter]
    \cup [op : {"add"}, ctx : Ctx, ev : Event, who : Waiter]
    \cup [op : {"del", "cancel"}, ctx : Ctx, ev : Event]
    \cup [op : {"cancelAll"}, ctx : Ctx, close : BOOLEAN]
    \cup [op : {"close"}, fd : Fd]

TypeOK ==
    /\ size \in Nat
    /\ gen \in [Fd -> 0 .. MaxGen]
    /\ events \in [Ctx -> SUBSET Event]
    /\ waiter \in [Ctx -> [Event -> Waiter \cup {None}]]
    /\ pending \in Nat
    /\ reg \in [Fd -> [mask : SUBSET Event, ctx : Ctx] \cup {NotRegistered}]
    /\ edge \in [Fd -> BOOLEAN]
    /\ cond \in [Fd -> SUBSET Ready]
    /\ open \subseteq Fd
    /\ call \in [Fiber -> Call]
    /\ scheduled \in [Waiter -> Nat]
    /\ batch \in [Idler -> SUBSET Result]
    /\ aborted \in {"no", "events", "context", "triggerEvent"}
    /\ uses \in [Waiter -> SUBSET (Fd \X Event)]
    /\ overtaken \subseteq Fd

Init ==
    /\ size = InitSize
    /\ gen = [fd \in Fd |-> 0]
    /\ events = [c \in Ctx |-> {}]
    /\ waiter = [c \in Ctx |-> [e \in Event |-> None]]
    /\ pending = 0
    /\ reg = [fd \in Fd |-> NotRegistered]
    /\ edge = [fd \in Fd |-> FALSE]
    /\ cond = [fd \in Fd |-> {}]
    /\ open = Fd
    /\ call = [f \in Fiber |-> NoCall]
    /\ scheduled = [x \in Waiter |-> 0]
    /\ batch = [i \in Idler |-> {}]
    /\ aborted = "no"
    /\ uses = [x \in Waiter |-> {}] /\ overtaken = {}

-----------------------------------------------------------------------------
(* epoll, as idle() and the event calls use it. *)

Registered(fd) == reg[fd] # NotRegistered

\* EEXIST and EBADF for ADD, ENOENT and EBADF for MOD and DEL.
CtlFails(op, fd) == fd \notin open \/ (op = "ADD" <=> Registered(fd))

\* MOD and ADD look at the descriptor again: EPOLLET loses nothing here.
EpollCtl(op, c, mask) ==
    /\ reg' = [reg EXCEPT ![c.fd] =
           IF op = "DEL" THEN NotRegistered ELSE [mask |-> mask, ctx |-> c]]
    /\ edge' = [edge EXCEPT ![c.fd] =
           op # "DEL" /\ (@ \/ cond[c.fd] \cap (mask \cup {"ERR"}) # {})]
    /\ UNCHANGED <<cond, open>>

\* Data or room arrives, the peer goes away; an edge each time.
BecomeReady(fd, what) ==
    /\ fd \in open
    /\ cond' = [cond EXCEPT ![fd] = @ \cup {what}]
    /\ edge' = [edge EXCEPT ![fd] =
           @ \/ (Registered(fd) /\ what \in reg[fd].mask \cup {"ERR"})]
    /\ UNCHANGED <<tableVars, ctxVars, reg, open, call, scheduled, batch, aborted, useVars>>

\* Somebody reads the data, or fills the buffer.
Drain(fd, e) ==
    /\ e \in cond[fd]
    /\ cond' = [cond EXCEPT ![fd] = @ \ {e}]
    /\ UNCHANGED <<tableVars, ctxVars, reg, edge, open, call, scheduled, batch, aborted, useVars>>

\* socket() or accept() returns the number again.
Open(fd) ==
    /\ fd \notin open
    /\ open' = open \cup {fd}
    /\ UNCHANGED <<tableVars, ctxVars, reg, edge, cond, call, scheduled, batch, aborted, useVars>>

-----------------------------------------------------------------------------
(* FdContext *)

CtxOf(fd) == [fd |-> fd, gen |-> gen[fd]]
Return(f) == call' = [call EXCEPT ![f] = NoCall]

\* Fault: a waiter is scheduled but stays in the context.
TriggerKeepsWaiter(c, es) ==
    /\ events' = [events EXCEPT ![c] = @ \ es]
    /\ UNCHANGED waiter
    /\ scheduled' = [x \in Waiter |->
           scheduled[x] + Cardinality({e \in es : waiter[c][e] = x})]
    /\ pending' = pending - Cardinality(es)

\* triggerEvent and --m_pendingEventCount, for every event in es.
Trigger(c, es) ==
    /\ events' = [events EXCEPT ![c] = @ \ es]
    /\ waiter' = [waiter EXCEPT ![c] = [e \in Event |-> IF e \in es THEN None ELSE @[e]]]
    /\ scheduled' = [x \in Waiter |->
           scheduled[x] + Cardinality({e \in es : waiter[c][e] = x})]
    /\ pending' = pending - Cardinality(es)

OpWithout(left) == IF left = {} THEN "DEL" ELSE "MOD"

-----------------------------------------------------------------------------
(* addEvent *)

\* Programs have one user at a time for an event of a descriptor: a fiber that
\* is inside addEvent, or waits for what it was given for, ends its turn when it
\* is scheduled.  A descriptor that is opened again has no users yet, whoever
\* still goes on with the number.
UsersOf(fd, e) == {x \in Waiter : <<fd, e>> \in uses[x] /\ scheduled[x] = 0}
InCall(f, ops, fd, e) ==
    /\ call[f].op \in ops /\ call[f].ev = e
    /\ fd = IF call[f].op = "grow" THEN call[f].fd ELSE call[f].ctx.fd
NobodyIn(ops, fd, e) == \A g \in Fiber : ~InCall(g, ops, fd, e)

Release(x) == uses' = [uses EXCEPT ![x] = {}] /\ UNCHANGED overtaken

\* A callback is an object of its own: it is given away once.
Free(cb) ==
    /\ scheduled[cb] = 0
    /\ \A c \in Ctx, e \in Event : waiter[c][e] # cb
    /\ \A g \in Fiber : call[g].op \in {"grow", "add"} => call[g].who # cb

\* The look-up.
AddEvent(f, fd, e, who) ==
    /\ call[f] = NoCall
    /\ UsersOf(fd, e) = {} /\ NobodyIn({"del"}, fd, e)
    /\ who = f \/ (who \in Callback /\ Free(who))
    /\ call' = [call EXCEPT ![f] =
           IF fd < size THEN [op |-> "add", ctx |-> CtxOf(fd), ev |-> e, who |-> who]
                        ELSE [op |-> "grow", fd |-> fd, ev |-> e, who |-> who]]
    /\ uses' = [uses EXCEPT ![who] = {<<fd, e>>}]
    /\ UNCHANGED <<tableVars, ctxVars, kernelVars, scheduled, batch, aborted, overtaken>>

\* contextResize(fd * 1.5) does not look at the size again: it may also shrink
\* the vector, and a context that is made anew later is a different one.
ContextResize(f) ==
    LET fd == call[f].fd
        n == (3 * fd) \div 2
        made == {x \in Fd : size <= x /\ x < n} IN
    /\ call[f].op = "grow"
    /\ \A x \in made : gen[x] < MaxGen
    /\ size' = n
    /\ gen' = [x \in Fd |-> IF x \in made THEN gen[x] + 1 ELSE gen[x]]
    /\ call' = [call EXCEPT ![f] =
           [op |-> "add", ctx |-> [fd |-> fd, gen |-> gen'[fd]], ev |-> call[f].ev, who |-> call[f].who]]
    /\ UNCHANGED <<ctxVars, kernelVars, scheduled, batch, aborted, useVars>>

\* Fault: 0 is returned when epoll_ctl fails, and the caller yields.
AddHoldsOnError(f) ==
    LET c == call[f].ctx
        e == call[f].ev
        op == IF events[c] = {} THEN "ADD" ELSE "MOD" IN
    /\ call[f].op = "add"
    /\ IF e \in events[c] THEN
           /\ aborted' = "events"
           /\ UNCHANGED <<ctxVars, kernelVars, call, useVars>>
       ELSE IF CtlFails(op, c.fd) THEN
           /\ call' = [call EXCEPT ![f] = IF call[f].who = f THEN [op |-> "hold"] ELSE NoCall]
           /\ UNCHANGED <<ctxVars, kernelVars, aborted, useVars>>
       ELSE
           /\ EpollCtl(op, c, events[c] \cup {e})
           /\ pending' = pending + 1
           /\ events' = [events EXCEPT ![c] = @ \cup {e}]
           /\ aborted' = IF waiter[c][e] = None THEN "no" ELSE "context"
           /\ waiter' = [waiter EXCEPT ![c][e] = call[f].who]
           /\ call' = [call EXCEPT ![f] = IF call[f].who = f THEN [op |-> "hold"] ELSE NoCall]
           /\ UNCHANGED useVars
    /\ UNCHANGED <<tableVars, scheduled, batch>>

\* The rest, under the mutex of the context.  A fiber that gave itself yields.
Add(f) ==
    LET c == call[f].ctx
        e == call[f].ev
        op == IF events[c] = {} THEN "ADD" ELSE "MOD" IN
    /\ call[f].op = "add"
    /\ IF e \in events[c] THEN
           /\ aborted' = "events"
           /\ UNCHANGED <<ctxVars, kernelVars, call, useVars>>
       ELSE IF CtlFails(op, c.fd) THEN
           /\ Return(f) /\ Release(call[f].who)
           /\ UNCHANGED <<ctxVars, kernelVars, aborted>>
       ELSE
           /\ EpollCtl(op, c, events[c] \cup {e})
           /\ pending' = pending + 1
           /\ events' = [events EXCEPT ![c] = @ \cup {e}]
           /\ aborted' = IF waiter[c][e] = None THEN "no" ELSE "context"
           /\ waiter' = [waiter EXCEPT ![c][e] = call[f].who]
           /\ call' = [call EXCEPT ![f] = IF call[f].who = f THEN [op |-> "hold"] ELSE NoCall]
           /\ UNCHANGED useVars
    /\ UNCHANGED <<tableVars, scheduled, batch>>

-----------------------------------------------------------------------------
(* delEvent, cancelEvent, cancelAll: the look-up, then the body.  When     *)
(* m_fdContexts is too short they return false at once.                    *)

BeginCancel(f, fd, e) ==
    /\ call[f] = NoCall /\ fd < size
    /\ call' = [call EXCEPT ![f] = [op |-> "cancel", ctx |-> CtxOf(fd), ev |-> e]]
    /\ UNCHANGED <<tableVars, ctxVars, kernelVars, scheduled, batch, aborted, useVars>>

\* Only events that have a callback are deleted, as nothing would wake a fiber,
\* and not while another user adds them.
BeginDel(f, fd, e) ==
    /\ call[f] = NoCall /\ fd < size
    /\ waiter[CtxOf(fd)][e] \in Callback /\ NobodyIn({"grow", "add"}, fd, e)
    /\ call' = [call EXCEPT ![f] = [op |-> "del", ctx |-> CtxOf(fd), ev |-> e]]
    /\ UNCHANGED <<tableVars, ctxVars, kernelVars, scheduled, batch, aborted, useVars>>

\* close() of src/hook.cc goes on also when cancelAll returns false.
BeginCancelAll(f, fd, close) ==
    /\ call[f] = NoCall /\ (fd < size \/ close)
    /\ close => MayClose /\ fd \in open
    /\ call' = [call EXCEPT ![f] =
           IF fd < size THEN [op |-> "cancelAll", ctx |-> CtxOf(fd), close |-> close]
                        ELSE [op |-> "close", fd |-> fd]]
    /\ UNCHANGED <<tableVars, ctxVars, kernelVars, scheduled, batch, aborted, useVars>>

CancelEvent(f) ==
    LET c == call[f].ctx
        e == call[f].ev
        left == events[c] \ {e} IN
    /\ call[f].op = "cancel"
    /\ IF e \notin events[c] \/ CtlFails(OpWithout(left), c.fd)
       THEN UNCHANGED <<ctxVars, kernelVars, scheduled>>
       ELSE EpollCtl(OpWithout(left), c, left) /\ Trigger(c, {e})
    /\ Return(f)
    /\ UNCHANGED <<tableVars, batch, aborted, useVars>>

\* Fault: the descriptor leaves epoll although the other event is still there.
DelAlwaysDels(f) ==
    LET c == call[f].ctx
        e == call[f].ev IN
    /\ call[f].op = "del"
    /\ IF e \notin events[c] \/ CtlFails("DEL", c.fd)
       THEN UNCHANGED <<ctxVars, kernelVars, useVars>>
       ELSE /\ EpollCtl("DEL", c, {})
            /\ pending' = pending - 1
            /\ events' = [events EXCEPT ![c] = @ \ {e}]
            /\ waiter' = [waiter EXCEPT ![c][e] = None]
            /\ Release(waiter[c][e])
    /\ Return(f)
    /\ UNCHANGED <<tableVars, scheduled, batch, aborted>>

\* Fault: an event that has been triggered meanwhile is deleted all the same.
DelUnchecked(f) ==
    LET c == call[f].ctx
        e == call[f].ev
        left == events[c] \ {e} IN
    /\ call[f].op = "del"
    /\ IF CtlFails(OpWithout(left), c.fd)
       THEN UNCHANGED <<ctxVars, kernelVars, useVars>>
       ELSE /\ EpollCtl(OpWithout(left), c, left)
            /\ pending' = pending - 1
            /\ events' = [events EXCEPT ![c] = left]
            /\ waiter' = [waiter EXCEPT ![c][e] = None]
            /\ Release(waiter[c][e])
    /\ Return(f)
    /\ UNCHANGED <<tableVars, scheduled, batch, aborted>>

DelEvent(f) ==
    LET c == call[f].ctx
        e == call[f].ev
        left == events[c] \ {e} IN
    /\ call[f].op = "del"
    /\ IF e \notin events[c] \/ CtlFails(OpWithout(left), c.fd)
       THEN UNCHANGED <<ctxVars, kernelVars, useVars>>
       ELSE /\ EpollCtl(OpWithout(left), c, left)
            /\ pending' = pending - 1
            /\ events' = [events EXCEPT ![c] = left]
            /\ waiter' = [waiter EXCEPT ![c][e] = None]
            /\ Release(waiter[c][e])
    /\ Return(f)
    /\ UNCHANGED <<tableVars, scheduled, batch, aborted>>

\* Fault: m_pendingEventCount goes down once for both events.
CancelAllCountsOnce(f) ==
    LET c == call[f].ctx IN
    /\ call[f].op = "cancelAll"
    /\ IF events[c] = {} \/ CtlFails("DEL", c.fd)
       THEN UNCHANGED <<ctxVars, kernelVars, scheduled>>
       ELSE /\ EpollCtl("DEL", c, {})
            /\ events' = [events EXCEPT ![c] = {}]
            /\ waiter' = [waiter EXCEPT ![c] = [e \in Event |-> None]]
            /\ scheduled' = [x \in Waiter |->
                   scheduled[x] + Cardinality({e \in events[c] : waiter[c][e] = x})]
            /\ pending' = pending - 1
    /\ call' = [call EXCEPT ![f] = IF call[f].close THEN [op |-> "close", fd |-> c.fd] ELSE NoCall]
    /\ UNCHANGED <<tableVars, batch, aborted, useVars>>

CancelAll(f) ==
    LET c == call[f].ctx IN
    /\ call[f].op = "cancelAll"
    /\ IF events[c] = {} \/ CtlFails("DEL", c.fd)
       THEN UNCHANGED <<ctxVars, kernelVars, scheduled>>
       ELSE EpollCtl("DEL", c, {}) /\ Trigger(c, events[c])
    /\ call' = [call EXCEPT ![f] = IF call[f].close THEN [op |-> "close", fd |-> c.fd] ELSE NoCall]
    /\ UNCHANGED <<tableVars, batch, aborted, useVars>>

\* close() of src/hook.cc: cancelAll, and then the kernel closes the descriptor,
\* which takes it out of epoll.
Close(f) ==
    LET fd == call[f].fd IN
    /\ call[f].op = "close"
    /\ open' = open \ {fd}
    /\ reg' = [reg EXCEPT ![fd] = NotRegistered]
    /\ edge' = [edge EXCEPT ![fd] = FALSE]
    /\ cond' = [cond EXCEPT ![fd] = {}]
    /\ Return(f)
    /\ overtaken' = overtaken \cup {n \in {fd} : \E e \in Event : UsersOf(n, e) # {}}
    /\ uses' = [x \in Waiter |-> uses[x] \ ({fd} \X Event)]
    /\ UNCHANGED <<tableVars, ctxVars, scheduled, batch, aborted>>

-----------------------------------------------------------------------------
(* The scheduler runs what has been scheduled. *)

Resume(f) ==
    /\ call[f].op = "hold" /\ scheduled[f] > 0
    /\ scheduled' = [scheduled EXCEPT ![f] = @ - 1]
    /\ Return(f) /\ Release(f)
    /\ UNCHANGED <<tableVars, ctxVars, kernelVars, batch, aborted>>

RunCallback(cb) ==
    /\ scheduled[cb] > 0
    /\ scheduled' = [scheduled EXCEPT ![cb] = @ - 1]
    /\ Release(cb)
    /\ UNCHANGED <<tableVars, ctxVars, kernelVars, call, batch, aborted>>

-----------------------------------------------------------------------------
(* idle() *)

Revents(fd) == cond[fd] \cap (reg[fd].mask \cup {"ERR"})
ReadyFds == {fd \in Fd : edge[fd] /\ Registered(fd) /\ Revents(fd) # {}}

EpollWait(i) ==
    /\ batch[i] = {} /\ ReadyFds # {}
    /\ batch' = [batch EXCEPT ![i] = {[ctx |-> reg[fd].ctx, ev |-> Revents(fd)] : fd \in ReadyFds}]
    /\ edge' = [fd \in Fd |-> FALSE]
    /\ UNCHANGED <<tableVars, ctxVars, reg, cond, open, call, scheduled, aborted, useVars>>

\* EPOLLERR and EPOLLHUP stand for whatever is waited for.
RealEvents(c, r) ==
    IF "ERR" \in r.ev THEN (r.ev \cap Event) \cup events[c] ELSE r.ev \cap Event

\* One turn of the loop.  The result may be stale: only if nothing of it is
\* waited for any more it is skipped, otherwise all of it is triggered.
Process(i, r) ==
    LET c == r.ctx
        real == RealEvents(c, r)
        left == events[c] \ real IN
    /\ r \in batch[i]
    /\ batch' = [batch EXCEPT ![i] = @ \ {r}]
    /\ IF events[c] \cap real = {} \/ CtlFails(OpWithout(left), c.fd) THEN
           UNCHANGED <<ctxVars, kernelVars, scheduled, aborted>>
       ELSE IF real \subseteq events[c] THEN
           EpollCtl(OpWithout(left), c, left) /\ Trigger(c, real) /\ UNCHANGED aborted
       ELSE
           aborted' = "triggerEvent" /\ UNCHANGED <<ctxVars, kernelVars, scheduled>>
    /\ UNCHANGED <<tableVars, call, useVars>>

-----------------------------------------------------------------------------
FiberStep(f) ==
    \/ \E fd \in Fd, e \in Event : \E who \in {f} \cup Callback : AddEvent(f, fd, e, who)
    \/ ContextResize(f)
    \/ Add(f)
    \/ \E fd \in Fd, e \in Event : BeginCancel(f, fd, e) \/ BeginDel(f, fd, e)
    \/ \E fd \in Fd, close \in BOOLEAN : BeginCancelAll(f, fd, close)
    \/ CancelEvent(f)
    \/ DelEvent(f)
    \/ CancelAll(f)
    \/ Close(f)
    \/ Resume(f)

IdleStep(i) ==
    \/ EpollWait(i)
    \/ \E r \in batch[i] : Process(i, r)

Kernel ==
    \E fd \in Fd :
        \/ \E what \in Comes : BecomeReady(fd, what)
        \/ \E e \in Event : Drain(fd, e)
        \/ Open(fd)

\* A failed FLZ_ASSERT ends the process.
Next ==
    /\ aborted = "no"
    /\ \/ \E f \in Fiber : FiberStep(f)
       \/ \E cb \in Callback : RunCallback(cb)
       \/ \E i \in Idler : IdleStep(i)
       \/ Kernel

Spec == Init /\ [][Next]_vars

-----------------------------------------------------------------------------
(* Properties. *)

Waiting == {p \in Ctx \X Event : p[2] \in events[p[1]]}

\* m_pendingEventCount is the number of events that are waited for, also after
\* stale results, failed epoll_ctl calls and contexts lost from m_fdContexts:
\* stopping() can rely on it.
PendingCounts == pending = Cardinality(Waiting)

\* A fiber that gave itself to addEvent is in exactly one context, or scheduled
\* exactly once; no other fiber or callback is scheduled by two.
WokenOnce ==
    /\ \A x \in Waiter :
           Cardinality({p \in Waiting : waiter[p[1]][p[2]] = x}) + scheduled[x] <= 1
    /\ \A f \in Fiber : call[f].op = "hold" =>
           Cardinality({p \in Waiting : waiter[p[1]][p[2]] = f}) + scheduled[f] = 1

\* An edge is not lost: what a fiber waits for and has come is still to be
\* reported by epoll_wait, or is among results that a worker has yet to look at.
\* This holds as long as nobody closes a descriptor others wait for.
NoLostEdge ==
    \A p \in Waiting :
        LET c == p[1]
            wakes == {p[2], "ERR"} IN
        cond[c.fd] \cap wakes # {} =>
            \/ edge[c.fd] /\ reg[c.fd].ctx = c /\ p[2] \in reg[c.fd].mask
            \/ \E i \in Idler : \E r \in batch[i] : r.ctx = c /\ r.ev \cap wakes # {}

\* The assertions of addEvent, FLZ_ASSERT(!(fd_ctx->events & event)) and that the
\* EventContext is empty: a context is clean when it is used again, and has the
\* event still only when the descriptor was closed under one of its users.
AddAssertions ==
    /\ aborted # "context"
    /\ \A f \in Fiber :
           call[f].op = "add" /\ call[f].ev \in events[call[f].ctx] => call[f].ctx.fd \in overtaken

\* FLZ_ASSERT(events & event) in triggerEvent.
TriggerAssertion == aborted # "triggerEvent"

=============================================================================
