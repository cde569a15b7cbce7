----------------------------- MODULE Scheduler -----------------------------
(***************************************************************************)
(* Scheduler (src/scheduler.cc, include/scheduler.h) with the tickle() and *)
(* the idle() of IOManager (src/iomanager.cc) that it runs with: a list of *)
(* fibers, worker threads that take fibers from it in run(), and a pipe    *)
(* that gets a worker out of epoll_wait.                                   *)
(*                                                                         *)
(* A callback put into the list runs in a fiber of its own, so an element  *)
(* of the list is always called a fiber here.  END stands for EXCEPT too.  *)
(* claim[f] says that somebody outside the list holds f and will schedule  *)
(* it once: whoever made f, or the file descriptor event, timer or         *)
(* semaphore f waits for.                                                  *)
(*                                                                         *)
(* Workers are the threads that execute run().  With use_caller one of     *)
(* them, Root, is the thread that constructed the scheduler; it enters     *)
(* run() only inside stop(), on the stack of the root fiber.               *)
(***************************************************************************)
EXTENDS Integers, FiniteSets, Sequences

CONSTANTS
    Worker,    \* threads that execute run()
    Root,      \* the worker that is the calling thread, or a value not in Worker
    Fiber,     \* the fibers (and callbacks) the program schedules
    Callback,  \* those of them that a timer or an event may put into the list
    Semaphores, \* TRUE when fibers wait on FiberSemaphores too
    Caller,    \* calls of schedule() that may be under way at the same time
    External,  \* TRUE when threads outside the scheduler call schedule() too
    AnyThread, \* the thread -1: no preference
    None       \* no fiber

ASSUME SchedulerAssumption ==
    /\ AnyThread \notin Worker
    /\ None \notin Fiber
    /\ External \in BOOLEAN /\ Semaphores \in BOOLEAN
    /\ Callback \subseteq Fiber
    /\ IsFiniteSet(Worker)

VARIABLES
    fibers,    \* m_fibers: the list
    state,     \* Fiber::m_state
    claim,     \* somebody outside will schedule the fiber
    counted,   \* the claims of timers in m_timers and events in m_pendingEventCount
    pc,        \* where each worker is in run()
    cur,       \* ft.fiber of each worker
    tickleMe,  \* tickle_me or need_tickle of each worker
    idleEnd,   \* the idle fiber of the worker has ended
    saved,     \* Root's t_thread_fiber->m_ctx: nothing yet, in stop(), or in run()
    at,        \* where each call of schedule() is
    stopped,   \* m_autoStop and m_stopping, as stop() sets them
    bytes,     \* the tickle pipe is not empty
    edge,      \* the pipe is in epoll's ready list (EPOLLET)
    took       \* the pipe is among the results of a worker's epoll_wait

fiberVars == <<state, claim>>
workVars == <<pc, cur, tickleMe, idleEnd>>
pipeVars == <<bytes, edge, took>>
vars == <<fibers, fiberVars, workVars, at, stopped, counted, saved, pipeVars>>

FiberState == {"INIT", "HOLD", "READY", "RUNNING", "END"}
Entry == [fiber : Fiber, thread : Worker \cup {AnyThread}]
WorkerState == {"unborn", "scan", "tickle", "enter", "exec", "registered", "back",
                "tickleAfter", "idle", "asleep", "woken", "exit", "stale"}
Holding == {"tickle", "enter", "exec", "registered", "back"}
Executing == {"exec", "registered", "back"}

TypeOK ==
    /\ fibers \in Seq(Entry)
    /\ state \in [Fiber -> FiberState]
    /\ claim \in [Fiber -> BOOLEAN]
    /\ counted \subseteq Fiber /\ saved \in {"none", "stop", "run"}
    /\ pc \in [Worker -> WorkerState]
    /\ cur \in [Worker -> Fiber \cup {None}]
    /\ tickleMe \in [Worker -> BOOLEAN]
    /\ idleEnd \in [Worker -> BOOLEAN]
    /\ at \in [Caller -> {"out", "tickle"}]
    /\ stopped \in BOOLEAN
    /\ bytes \in BOOLEAN /\ edge \in BOOLEAN
    /\ took \in [Worker -> BOOLEAN]

Init ==
    /\ fibers = <<>>
    /\ state = [f \in Fiber |-> "INIT"]
    /\ claim = [f \in Fiber |-> TRUE]
    /\ counted = {} /\ saved = "none"
    /\ pc = [w \in Worker |-> IF w = Root THEN "unborn" ELSE "scan"]
    /\ cur = [w \in Worker |-> None]
    /\ tickleMe = [w \in Worker |-> FALSE]
    /\ idleEnd = [w \in Worker |-> FALSE]
    /\ at = [c \in Caller |-> "out"]
    /\ stopped = FALSE
    /\ bytes = FALSE /\ edge = FALSE
    /\ took = [w \in Worker |-> FALSE]

-----------------------------------------------------------------------------
Push(f, thread) == fibers' = Append(fibers, [fiber |-> f, thread |-> thread])
NeedTickle == fibers = <<>>

HasIdleThreads == \E w \in Worker : pc[w] \in {"idle", "asleep", "woken"}

\* IOManager::tickle: one byte into the pipe, which puts the pipe into the
\* ready list, but only when some worker is inside idle().
Tickle ==
    IF HasIdleThreads THEN bytes' = TRUE /\ edge' = TRUE /\ UNCHANGED took
                      ELSE UNCHANGED pipeVars

\* m_threadCount counts the threads start() creates: not Root.
ThreadCount == Cardinality(Worker \ {Root})

\* Faults: the pending events are forgotten; use_caller does not lower the count.
StoppingWithPending == stopped /\ fibers = <<>> /\ ThreadCount = 0
StoppingCountsRoot == counted = {} /\ stopped /\ fibers = <<>> /\ Cardinality(Worker) = 0

\* IOManager::stopping: no timer, no pending event and Scheduler::stopping().
\* A fiber that waits on a FiberSemaphore counts for nothing here.
Stopping == counted = {} /\ stopped /\ fibers = <<>> /\ ThreadCount = 0

-----------------------------------------------------------------------------
(* schedule() from outside run(): the creator of a fiber, an idle() loop   *)
(* that triggers an event or a timer, a fiber that posts a semaphore.  The *)
(* claim on f is used up.                                                  *)

\* A thread that is not a worker may call at any time; otherwise the call is
\* made by a fiber, by the constructing thread before stop(), or by an idle loop
\* for a timer or an event.
Acting == External \/ ~stopped \/ \E w \in Worker : pc[w] \in {"exec", "registered"}
MayCall(f) == Acting \/ (f \in counted /\ \E w \in Worker : pc[w] = "woken")

Schedule(c, f, thread) ==
    /\ at[c] = "out" /\ MayCall(f)
    /\ claim[f]
    /\ claim' = [claim EXCEPT ![f] = FALSE]
    /\ counted' = counted \ {f}
    /\ Push(f, thread)
    /\ at' = [at EXCEPT ![c] = IF NeedTickle THEN "tickle" ELSE "out"]
    /\ UNCHANGED <<state, workVars, stopped, saved, pipeVars>>

\* addTimer or addEvent with a callback, and their cancellation.
ArmCallback(f) ==
    /\ Acting /\ f \in Callback /\ claim[f] /\ f \notin counted
    /\ counted' = counted \cup {f}
    /\ UNCHANGED <<fibers, fiberVars, workVars, at, stopped, saved, pipeVars>>
DropCallback(f) ==
    /\ Acting /\ f \in Callback \cap counted /\ state[f] = "INIT"
    /\ counted' = counted \ {f}
    /\ UNCHANGED <<fibers, fiberVars, workVars, at, stopped, saved, pipeVars>>

\* if(need_tickle) tickle(), after m_mutex is released.
ScheduleTickle(c) ==
    /\ at[c] = "tickle"
    /\ Tickle
    /\ at' = [at EXCEPT ![c] = "out"]
    /\ UNCHANGED <<fibers, fiberVars, workVars, stopped, counted, saved>>

-----------------------------------------------------------------------------
(* run() *)

Pinned(w, e) == e.thread # AnyThread /\ e.thread # w

\* Fault: a fiber that is still running may be taken.
EligibleRunning(w, e) == ~Pinned(w, e)

Eligible(w, e) == ~Pinned(w, e) /\ state[e.fiber] # "RUNNING"

Without(q, i) == SubSeq(q, 1, i - 1) \o SubSeq(q, i + 1, Len(q))

\* The loop over m_fibers takes the first element that is not pinned to
\* another thread and whose fiber is not running.
IsFirst(w, i) ==
    /\ Eligible(w, fibers[i])
    /\ \A j \in 1 .. i - 1 : ~Eligible(w, fibers[j])

ScanTakes(w, i) ==
    /\ pc[w] = "scan"
    /\ IsFirst(w, i)
    /\ fibers' = Without(fibers, i)
    /\ cur' = [cur EXCEPT ![w] = fibers[i].fiber]
    /\ tickleMe' = [tickleMe EXCEPT ![w] =
           i < Len(fibers) \/ \E j \in 1 .. i - 1 : Pinned(w, fibers[j])]
    /\ pc' = [pc EXCEPT ![w] = "tickle"]
    /\ UNCHANGED <<fiberVars, idleEnd, at, stopped, counted, saved, pipeVars>>

ScanFindsNothing(w) ==
    /\ pc[w] = "scan"
    /\ \A j \in DOMAIN fibers : ~Eligible(w, fibers[j])
    /\ tickleMe' = [tickleMe EXCEPT ![w] = \E j \in DOMAIN fibers : Pinned(w, fibers[j])]
    /\ pc' = [pc EXCEPT ![w] = "tickle"]
    /\ UNCHANGED <<fibers, fiberVars, cur, idleEnd, at, stopped, counted, saved, pipeVars>>

\* if(tickle_me) tickle(), after m_mutex is released.
RunTickle(w) ==
    /\ pc[w] = "tickle"
    /\ IF tickleMe[w] THEN Tickle ELSE UNCHANGED pipeVars
    /\ tickleMe' = [tickleMe EXCEPT ![w] = FALSE]
    /\ pc' = [pc EXCEPT ![w] = "enter"]
    /\ UNCHANGED <<fibers, fiberVars, cur, idleEnd, at, stopped, counted, saved>>

\* swapIn() saves the place in run() in t_thread_fiber, also where call() has
\* saved the place in stop().
SaveRun(w) == saved' = IF w = Root THEN "run" ELSE saved

\* swapIn(); a fiber that has ended is dropped.
SwapIn(w) ==
    /\ pc[w] = "enter" /\ cur[w] # None
    /\ IF state[cur[w]] # "END"
       THEN /\ state' = [state EXCEPT ![cur[w]] = "RUNNING"]
            /\ pc' = [pc EXCEPT ![w] = "exec"]
            /\ SaveRun(w)
            /\ UNCHANGED cur
       ELSE /\ pc' = [pc EXCEPT ![w] = "scan"]
            /\ cur' = [cur EXCEPT ![w] = None]
            /\ UNCHANGED <<state, saved>>
    /\ UNCHANGED <<fibers, claim, tickleMe, idleEnd, at, stopped, counted, pipeVars>>

\* Nothing to do and the idle fiber has not ended: enter it.
GoIdle(w) ==
    /\ pc[w] = "enter" /\ cur[w] = None /\ ~idleEnd[w]
    /\ pc' = [pc EXCEPT ![w] = "idle"]
    /\ SaveRun(w)
    /\ UNCHANGED <<fibers, fiberVars, cur, tickleMe, idleEnd, at, stopped, counted, pipeVars>>

\* Leave run().  The function of a thread ends; the root fiber ends with back(),
\* which goes where the last call() or swapIn() has come from: into stop(), or
\* into the frame of run() that has just been left ("stale": undefined).
LeaveRun(w) ==
    /\ pc[w] = "enter" /\ cur[w] = None /\ idleEnd[w]
    /\ pc' = [pc EXCEPT ![w] = IF w = Root /\ saved # "stop" THEN "stale" ELSE "exit"]
    /\ UNCHANGED <<fibers, fiberVars, cur, tickleMe, idleEnd, at, stopped, counted, saved, pipeVars>>

\* Fault: ft.reset() comes before schedule(ft.fiber).
BackSwapped(w) ==
    LET f == cur[w] IN
    /\ pc[w] = "back"
    /\ IF state[f] = "READY" THEN Push(None, AnyThread) ELSE UNCHANGED fibers
    /\ state' = IF state[f] = "RUNNING" THEN [state EXCEPT ![f] = "HOLD"] ELSE state
    /\ tickleMe' = [tickleMe EXCEPT ![w] = state[f] = "READY" /\ NeedTickle]
    /\ cur' = [cur EXCEPT ![w] = None]
    /\ pc' = [pc EXCEPT ![w] = "tickleAfter"]
    /\ UNCHANGED <<claim, idleEnd, at, stopped, counted, saved, pipeVars>>

\* Fault: a READY fiber is not put back.
BackForgets(w) ==
    LET f == cur[w] IN
    /\ pc[w] = "back"
    /\ state' = IF state[f] = "RUNNING" THEN [state EXCEPT ![f] = "HOLD"] ELSE state
    /\ cur' = [cur EXCEPT ![w] = None]
    /\ pc' = [pc EXCEPT ![w] = "tickleAfter"]
    /\ UNCHANGED <<fibers, claim, tickleMe, idleEnd, at, stopped, counted, saved, pipeVars>>

\* Back from swapIn(): a READY fiber is put at the end of the list, one that
\* has ended is forgotten, any other becomes HOLD.
Back(w) ==
    LET f == cur[w] IN
    /\ pc[w] = "back"
    /\ IF state[f] = "READY" THEN Push(f, AnyThread) ELSE UNCHANGED fibers
    /\ state' = IF state[f] = "RUNNING" THEN [state EXCEPT ![f] = "HOLD"] ELSE state
    /\ tickleMe' = [tickleMe EXCEPT ![w] = state[f] = "READY" /\ NeedTickle]
    /\ cur' = [cur EXCEPT ![w] = None]
    /\ pc' = [pc EXCEPT ![w] = "tickleAfter"]
    /\ UNCHANGED <<claim, idleEnd, at, stopped, counted, saved, pipeVars>>

BackTickle(w) ==
    /\ pc[w] = "tickleAfter"
    /\ IF tickleMe[w] THEN Tickle ELSE UNCHANGED pipeVars
    /\ tickleMe' = [tickleMe EXCEPT ![w] = FALSE]
    /\ pc' = [pc EXCEPT ![w] = "scan"]
    /\ UNCHANGED <<fibers, fiberVars, cur, idleEnd, at, stopped, counted, saved>>

-----------------------------------------------------------------------------
(* The fiber a worker executes. *)

Finish(w) ==
    /\ pc[w] = "exec"
    /\ state' = [state EXCEPT ![cur[w]] = "END"]
    /\ pc' = [pc EXCEPT ![w] = "back"]
    /\ UNCHANGED <<fibers, claim, cur, tickleMe, idleEnd, at, stopped, counted, saved, pipeVars>>

YieldToReady(w) ==
    /\ pc[w] = "exec"
    /\ state' = [state EXCEPT ![cur[w]] = "READY"]
    /\ pc' = [pc EXCEPT ![w] = "back"]
    /\ UNCHANGED <<fibers, claim, cur, tickleMe, idleEnd, at, stopped, counted, saved, pipeVars>>

\* The fiber gives itself to an event or a timer, which are counted, or to a
\* semaphore.  From here on it may be scheduled, although it is still RUNNING.
Register(w) ==
    /\ pc[w] = "exec"
    /\ claim' = [claim EXCEPT ![cur[w]] = TRUE]
    /\ \/ counted' = counted \cup {cur[w]}
       \/ Semaphores /\ UNCHANGED counted
    /\ pc' = [pc EXCEPT ![w] = "registered"]
    /\ UNCHANGED <<fibers, state, cur, tickleMe, idleEnd, at, stopped, saved, pipeVars>>

\* switchTo(thread) schedules the fiber that calls it, and tickles.
SwitchTo(w, thread) ==
    /\ pc[w] = "exec" /\ thread # w
    /\ Push(cur[w], thread)
    /\ IF NeedTickle THEN Tickle ELSE UNCHANGED pipeVars
    /\ pc' = [pc EXCEPT ![w] = "registered"]
    /\ UNCHANGED <<fiberVars, cur, tickleMe, idleEnd, at, stopped, counted, saved>>

\* YieldToHold leaves the state at RUNNING: Back turns it into HOLD.
YieldToHold(w) ==
    /\ pc[w] = "registered"
    /\ pc' = [pc EXCEPT ![w] = "back"]
    /\ UNCHANGED <<fibers, fiberVars, cur, tickleMe, idleEnd, at, stopped, counted, saved, pipeVars>>

-----------------------------------------------------------------------------
(* idle() *)

\* The idle fiber ends when stopping() holds; otherwise epoll_wait.
Idle(w) ==
    /\ pc[w] = "idle"
    /\ idleEnd' = [idleEnd EXCEPT ![w] = Stopping]
    /\ pc' = [pc EXCEPT ![w] = IF Stopping THEN "scan" ELSE "asleep"]
    /\ UNCHANGED <<fibers, fiberVars, cur, tickleMe, at, stopped, counted, saved, pipeVars>>

\* One worker gets the edge of the pipe, if a byte is still there.
WakeByTickle(w) ==
    /\ pc[w] = "asleep" /\ edge /\ bytes
    /\ edge' = FALSE
    /\ took' = [took EXCEPT ![w] = TRUE]
    /\ pc' = [pc EXCEPT ![w] = "woken"]
    /\ UNCHANGED <<fibers, fiberVars, cur, tickleMe, idleEnd, at, stopped, counted, saved, bytes>>

\* Fault: epoll_wait without a timeout.
NoTimeout(w) == FALSE

\* The timeout of epoll_wait is MAX_TIMEOUT at most.
WakeByTimeout(w) ==
    /\ pc[w] = "asleep"
    /\ pc' = [pc EXCEPT ![w] = "woken"]
    /\ UNCHANGED <<fibers, fiberVars, cur, tickleMe, idleEnd, at, stopped, counted, saved, pipeVars>>

\* A file descriptor is ready.
WakeByEvent(w) ==
    /\ pc[w] = "asleep"
    /\ pc' = [pc EXCEPT ![w] = "woken"]
    /\ UNCHANGED <<fibers, fiberVars, cur, tickleMe, idleEnd, at, stopped, counted, saved, pipeVars>>

\* The timers and events found are scheduled meanwhile (Schedule), the pipe is
\* emptied, and the idle fiber swaps out.
LeaveIdle(w) ==
    /\ pc[w] = "woken"
    /\ bytes' = (bytes /\ ~took[w])
    /\ took' = [took EXCEPT ![w] = FALSE]
    /\ pc' = [pc EXCEPT ![w] = "scan"]
    /\ UNCHANGED <<fibers, fiberVars, cur, tickleMe, idleEnd, at, stopped, counted, saved, edge>>

-----------------------------------------------------------------------------
(* stop(): the flags, the tickles, and with use_caller call() of the root  *)
(* fiber, unless there is nothing to run.  Joining the threads changes     *)
(* nothing.                                                                *)
Stop ==
    /\ ~stopped
    /\ stopped' = TRUE
    /\ UNCHANGED <<fibers, fiberVars, cur, tickleMe, idleEnd, at, counted>>
    /\ Tickle
    /\ pc' = [w \in Worker |-> IF w # Root THEN pc[w]
                               ELSE IF Stopping' THEN "exit" ELSE "scan"]
    /\ saved' = IF Root \in Worker /\ ~Stopping' THEN "stop" ELSE saved

-----------------------------------------------------------------------------
RunStep(w) ==
    \/ \E i \in DOMAIN fibers : ScanTakes(w, i)
    \/ ScanFindsNothing(w)
    \/ RunTickle(w)
    \/ SwapIn(w)
    \/ GoIdle(w)
    \/ LeaveRun(w)
    \/ Back(w)
    \/ BackTickle(w)
    \/ Idle(w)
    \/ WakeByTickle(w)
    \/ WakeByTimeout(w)
    \/ LeaveIdle(w)

FiberStep(w) ==
    \/ Finish(w)
    \/ YieldToReady(w)
    \/ Register(w)
    \/ \E thread \in Worker : SwitchTo(w, thread)
    \/ YieldToHold(w)

CallerStep(c) ==
    \/ \E f \in Fiber, thread \in Worker \cup {AnyThread} : Schedule(c, f, thread)
    \/ ScheduleTickle(c)

Next ==
    \/ \E w \in Worker : RunStep(w) \/ FiberStep(w) \/ WakeByEvent(w)
    \/ \E c \in Caller : CallerStep(c)
    \/ \E f \in Fiber : ArmCallback(f) \/ DropCallback(f)
    \/ Stop

Spec == Init /\ [][Next]_vars

\* A worker keeps running, a fiber gives its thread back at last (it ends or
\* yields), and schedule() returns.  Nobody counts on a file descriptor.
FairSpec ==
    /\ Spec
    /\ \A w \in Worker : WF_vars(RunStep(w)) /\ WF_vars(FiberStep(w))
    /\ \A c \in Caller : WF_vars(ScheduleTickle(c))

\* Moreover the events and timers that are waited for happen, and no fiber
\* yields for ever.
StopSpec ==
    /\ FairSpec
    /\ \A w \in Worker : SF_vars(Finish(w))
    /\ \A c \in Caller, f \in Fiber : SF_vars(f \in counted /\ Schedule(c, f, AnyThread))
    /\ WF_vars(Stop)

-----------------------------------------------------------------------------
(* Properties. *)

Queued(f) == \E i \in DOMAIN fibers : fibers[i].fiber = f
Held(f) == \E w \in Worker : cur[w] = f

\* No fiber is executed by two threads, not even between the moment it hands
\* itself to an event and the moment its thread has left its stack.
NoDoubleRun ==
    \A w, v \in Worker : w # v /\ pc[w] \in Executing /\ pc[v] \in Executing => cur[w] # cur[v]

\* A fiber is not lost and not duplicated: it is claimed from outside, in the
\* list or held by a worker, and in two of these places only while it executes
\* and has already registered for its next turn.
OnePlace ==
    \A f \in Fiber :
        /\ state[f] # "END" => claim[f] \/ Queued(f) \/ Held(f)
        /\ ~(claim[f] /\ Queued(f))
        /\ \A i, j \in DOMAIN fibers : fibers[i].fiber = f /\ fibers[j].fiber = f => i = j
        /\ \A w \in Worker : cur[w] = f /\ (claim[f] \/ Queued(f)) =>
               pc[w] \in {"registered", "back"} /\ state[f] = "RUNNING"

\* run() in the calling thread leaves nothing behind that stopping() promises to
\* wait for: when it has ended the list is empty, no timer or event is pending,
\* and a fiber that has started has ended, or waits on a semaphore, which nobody
\* is left to notify.
RunEnded(w) == pc[w] \in {"exit", "stale"}
StopDrains ==
    Root \in Worker /\ RunEnded(Root) =>
        /\ fibers = <<>> /\ counted = {}
        /\ \A f \in Fiber : state[f] \in {"INIT", "END"} \/ claim[f]

\* With use_caller and no threads of its own, a scheduler that is stopped leaves
\* run() at last.  stop() itself does not go on ("stale"), and with threads of its
\* own it joins workers that never leave run().
RunEnds == stopped ~> (\A w \in Worker : RunEnded(w))

\* The scheduler is a FiberService: this is safety (a fiber runs on one thread,
\* a wake-up of a running fiber is kept) and liveness (what is scheduled runs,
\* although a tickle can be missed between the scan and epoll_wait).
Service == INSTANCE FiberService WITH
    running <- {cur[w] : w \in {v \in Worker : pc[v] \in Executing}},
    runnable <- {f \in Fiber :
                    \/ Queued(f)
                    \/ \E w \in Worker : cur[w] = f /\ pc[w] \in {"tickle", "enter"}
                    \/ \E w \in Worker : cur[w] = f /\ pc[w] = "back" /\ state[f] = "READY"},
    parked <- {f \in Fiber : claim[f]},
    done <- {f \in Fiber : state[f] = "END" /\ ~Held(f)}

ImplementsService == Service!Spec

=============================================================================
