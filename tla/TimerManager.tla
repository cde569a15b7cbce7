---------------------------- MODULE TimerManager ----------------------------
(***************************************************************************)
(* Timer and TimerManager (src/timer.cc) together with the part of the     *)
(* idle loop of IOManager (src/iomanager.cc) that sleeps until the next    *)
(* timer and collects the expired ones.                                    *)
(*                                                                         *)
(* m_timers is an std::set ordered by Comparator: by m_next, then by the   *)
(* address of the Timer.  It is modelled as the set of pairs <<k, t>>,     *)
(* where k is the value m_next had when t was inserted: a find() with the  *)
(* current m_next of t succeeds only while <<next[t], t>> is in the set,   *)
(* which is what happens to a red-black tree whose key is changed in       *)
(* place.                                                                  *)
(*                                                                         *)
(* Two kinds of threads appear.  A worker runs the idle loop.  A caller is *)
(* whoever uses the Timer API: a fiber on a busy worker or a thread that   *)
(* does not belong to the IOManager.                                       *)
(***************************************************************************)
EXTENDS Integers, FiniteSets

CONSTANTS
    Timer,        \* addresses of the Timer objects, natural numbers
    Worker,       \* threads that run IOManager::idle
    Caller,       \* threads that call the Timer API
    Delay,        \* values of the ms argument
    Hour,         \* the 60 * 60 * 1000 of detectClockRollover, scaled
    MaxTimeout,   \* MAX_TIMEOUT of IOManager::idle, scaled
    IntLimit,     \* 2^31, scaled: the first value the (int) cast makes negative
    Stale,        \* bound on the age of a clock reading when it is used
    MaxClock,     \* bound on the wall clock
    MaxBack       \* bound on the total time the wall clock is set back

\* Addresses are numbers so that Comparator can order them.  The clock is past
\* its first hour, so that m_previouseTime - Hour does not wrap, and the idle
\* threads have a timeout.
ASSUME TimerAssumption ==
    /\ Timer \subseteq Nat
    /\ Delay \subseteq Nat
    /\ Hour \in Nat
    /\ MaxTimeout \in Nat \ {0}
    /\ IntLimit \in Nat
    /\ MaxTimeout < IntLimit
    /\ Stale \in Nat
    /\ MaxClock \in Nat
    /\ MaxBack \in Nat
    /\ Hour <= MaxClock

Infinite == -1                   \* a negative epoll_wait timeout
NoTimer == -1                    \* an address no Timer has

VARIABLES
    clock,     \* what getCurrentMS returns
    back,      \* by how much the clock has been set back so far
    next,      \* Timer::m_next
    ms,        \* Timer::m_ms
    hasCb,     \* Timer::m_cb is not null
    recurring, \* Timer::m_recurring
    shared,    \* addTimer has returned the Timer::ptr, others may use it
    timers,    \* TimerManager::m_timers
    tickled,   \* TimerManager::m_tickled
    previous,  \* TimerManager::m_previouseTime
    pc,        \* where each worker is
    left,      \* what is left of the timeout of a worker's epoll_wait
    now,       \* now_ms in listExpiredCb
    took,      \* the pipe is among the results of a worker's epoll_wait
    at,        \* where each caller is
    arg,       \* the Timer a caller is adding
    bytes,     \* the tickle pipe is not empty
    edge       \* the pipe is in epoll's ready list (EPOLLET)

timerVars == <<next, ms, hasCb, recurring, shared>>
callVars == <<at, arg>>
workVars == <<pc, left, now, took>>
pipeVars == <<bytes, edge>>
clockVars == <<clock, back>>
vars == <<clockVars, timerVars, timers, tickled, previous, workVars, callVars, pipeVars>>

WorkerState == {"busy", "idle", "asleep", "list", "collect", "drain"}
CallerState == {"out", "insert", "tickle"}

TypeOK ==
    /\ clock \in Nat /\ back \in Nat
    /\ next \in [Timer -> Nat] /\ ms \in [Timer -> Nat]
    /\ hasCb \in [Timer -> BOOLEAN] /\ recurring \in [Timer -> BOOLEAN]
    /\ shared \in [Timer -> BOOLEAN]
    /\ timers \subseteq (Nat \X Timer)
    /\ tickled \in BOOLEAN /\ previous \in Nat
    /\ pc \in [Worker -> WorkerState]
    /\ left \in [Worker -> {Infinite} \cup 0 .. MaxTimeout] /\ now \in [Worker -> Nat]
    /\ took \in [Worker -> BOOLEAN]
    /\ at \in [Caller -> CallerState] /\ arg \in [Caller -> Timer \cup {NoTimer}]
    /\ bytes \in BOOLEAN /\ edge \in BOOLEAN

Init ==
    /\ clock = Hour /\ back = 0
    /\ next = [t \in Timer |-> 0] /\ ms = [t \in Timer |-> 0]
    /\ hasCb = [t \in Timer |-> FALSE]
    /\ recurring = [t \in Timer |-> FALSE]
    /\ shared = [t \in Timer |-> FALSE]
    /\ timers = {} /\ tickled = FALSE
    /\ previous = clock
    /\ pc = [w \in Worker |-> "busy"]
    /\ left = [w \in Worker |-> 0] /\ now = [w \in Worker |-> 0]
    /\ took = [w \in Worker |-> FALSE]
    /\ at = [c \in Caller |-> "out"] /\ arg = [c \in Caller |-> NoTimer]
    /\ bytes = FALSE /\ edge = FALSE

-----------------------------------------------------------------------------
(* The ordered set. *)

Comparator(l, r) ==
    \/ l[1] < r[1]
    \/ l[1] = r[1] /\ l[2] < r[2]

Entry(t) == <<next[t], t>>
Found(t) == Entry(t) \in timers

IsBegin(e, S) == \A o \in S : o = e \/ Comparator(e, o)
Begin(S) == CHOOSE e \in S : IsBegin(e, S)

\* hasIdleThreads(): m_idleThreadCount counts the workers inside idle().
HasIdleThreads == \E w \in Worker : pc[w] # "busy"

\* IOManager::tickle writes a byte, which puts the pipe into the ready list.
Tickle ==
    IF HasIdleThreads THEN bytes' = TRUE /\ edge' = TRUE
                      ELSE UNCHANGED pipeVars

\* TimerManager::addTimer(val, lock): the critical section, S is m_timers
\* before the insertion.  The caller goes on to onTimerInsertedAtFront only
\* when the new element comes first and nobody is on the way there already.
InsertLocked(c, t, e, S) ==
    LET atFront == IsBegin(e, S \cup {e}) /\ ~tickled
    IN  /\ timers' = S \cup {e}
        /\ tickled' = (tickled \/ atFront)
        /\ at' = [at EXCEPT ![c] = IF atFront THEN "tickle" ELSE "out"]
        /\ arg' = [arg EXCEPT ![c] = IF atFront THEN t ELSE NoTimer]

-----------------------------------------------------------------------------
(* The Timer API. *)

\* new Timer(ms, cb, recurring, this), before the lock is taken.
NewTimer(c, t, m, r) ==
    /\ at[c] = "out"
    /\ ~shared[t] /\ ~hasCb[t]
    /\ \A d \in Caller : arg[d] # t
    /\ next' = [next EXCEPT ![t] = clock + m]
    /\ ms' = [ms EXCEPT ![t] = m]
    /\ hasCb' = [hasCb EXCEPT ![t] = TRUE]
    /\ recurring' = [recurring EXCEPT ![t] = r]
    /\ at' = [at EXCEPT ![c] = "insert"] /\ arg' = [arg EXCEPT ![c] = t]
    /\ UNCHANGED <<clockVars, shared, timers, tickled, previous, workVars, pipeVars>>

\* addTimer(ms, cb, recurring) under the write lock.  Without the tickle it
\* returns the Timer::ptr at once.
InsertTimer(c) ==
    LET t == arg[c] IN
    /\ at[c] = "insert"
    /\ InsertLocked(c, t, Entry(t), timers)
    /\ shared' = [shared EXCEPT ![t] = at'[c] = "out"]
    /\ UNCHANGED <<clockVars, next, ms, hasCb, recurring, previous, workVars, pipeVars>>

\* onTimerInsertedAtFront, after the lock is released.
OnTimerInsertedAtFront(c) ==
    /\ at[c] = "tickle"
    /\ Tickle
    /\ at' = [at EXCEPT ![c] = "out"] /\ arg' = [arg EXCEPT ![c] = NoTimer]
    /\ shared' = [shared EXCEPT ![arg[c]] = TRUE]
    /\ UNCHANGED <<clockVars, next, ms, hasCb, recurring, timers, tickled, previous, workVars>>

\* Fault: cancel() only drops the callback.
CancelKeepsEntry(c, t) ==
    /\ at[c] = "out" /\ shared[t] /\ hasCb[t]
    /\ hasCb' = [hasCb EXCEPT ![t] = FALSE]
    /\ UNCHANGED <<clockVars, next, ms, recurring, shared, timers, tickled, previous, workVars, callVars, pipeVars>>

Cancel(c, t) ==
    /\ at[c] = "out" /\ shared[t] /\ hasCb[t]
    /\ hasCb' = [hasCb EXCEPT ![t] = FALSE]
    /\ timers' = timers \ {Entry(t)}
    /\ UNCHANGED <<clockVars, next, ms, recurring, shared, tickled, previous, workVars, callVars, pipeVars>>

\* refresh inserts without addTimer: it never tickles.
Refresh(c, t) ==
    /\ at[c] = "out" /\ shared[t] /\ hasCb[t] /\ Found(t)
    /\ next' = [next EXCEPT ![t] = clock + ms[t]]
    /\ timers' = (timers \ {Entry(t)}) \cup {<<clock + ms[t], t>>}
    /\ UNCHANGED <<clockVars, ms, hasCb, recurring, shared, tickled, previous, workVars, callVars, pipeVars>>

\* reset(m, from_now).  When m is the present period and from_now is false it
\* returns without touching anything.
Reset(c, t, m, fromNow) ==
    LET start == IF fromNow THEN clock ELSE next[t] - ms[t] IN
    /\ at[c] = "out" /\ shared[t]
    /\ m # ms[t] \/ fromNow
    /\ hasCb[t] /\ Found(t)
    /\ ms' = [ms EXCEPT ![t] = m]
    /\ next' = [next EXCEPT ![t] = start + m]
    /\ InsertLocked(c, t, <<start + m, t>>, timers \ {Entry(t)})
    /\ UNCHANGED <<clockVars, hasCb, recurring, shared, previous, workVars, pipeVars>>

-----------------------------------------------------------------------------
(* The idle loop of a worker. *)

\* run() found nothing to do: ++m_idleThreadCount and swapIn of the idle fiber.
GoIdle(w) ==
    /\ pc[w] = "busy"
    /\ pc' = [pc EXCEPT ![w] = "idle"]
    /\ UNCHANGED <<clockVars, timerVars, timers, tickled, previous, left, now, took, callVars, pipeVars>>

\* What getNextTimer returns; Infinite stands for ~0ull.
NextTimer ==
    IF timers = {} THEN Infinite
    ELSE IF clock >= Begin(timers)[1] THEN 0 ELSE Begin(timers)[1] - clock

\* The (int) cast: the low 32 bits, as a signed number.
AsInt(n) ==
    LET low == n % (2 * IntLimit)
    IN  IF low < IntLimit THEN low ELSE low - 2 * IntLimit

\* Faults: no MAX_TIMEOUT; -1 passed to epoll_wait.
UncappedTimeout(n) == IF n = Infinite THEN MaxTimeout ELSE AsInt(n)
NoTimeout(n) == Infinite

\* The timeout idle() passes to epoll_wait; a negative one never expires.
EpollTimeout(n) ==
    IF n = Infinite \/ AsInt(n) > MaxTimeout THEN MaxTimeout
    ELSE IF AsInt(n) < 0 THEN Infinite ELSE AsInt(n)

\* Fault: getNextTimer leaves m_tickled set.
SleepStillTickled(w) ==
    /\ pc[w] = "idle"
    /\ left' = [left EXCEPT ![w] = EpollTimeout(NextTimer)]
    /\ pc' = [pc EXCEPT ![w] = "asleep"]
    /\ UNCHANGED <<clockVars, timerVars, timers, tickled, previous, now, took, callVars, pipeVars>>

\* stopping(next_timeout) calls getNextTimer, which clears m_tickled under the
\* read lock; then the worker blocks in epoll_wait.
Sleep(w) ==
    /\ pc[w] = "idle"
    /\ tickled' = FALSE
    /\ left' = [left EXCEPT ![w] = EpollTimeout(NextTimer)]
    /\ pc' = [pc EXCEPT ![w] = "asleep"]
    /\ UNCHANGED <<clockVars, timerVars, timers, previous, now, took, callVars, pipeVars>>

\* epoll_wait returns because the pipe is in the ready list and still holds a
\* byte.  Edge triggered: this worker alone gets the event.
WakeByTickle(w) ==
    /\ pc[w] = "asleep" /\ edge /\ bytes
    /\ edge' = FALSE
    /\ took' = [took EXCEPT ![w] = TRUE]
    /\ left' = [left EXCEPT ![w] = 0]
    /\ pc' = [pc EXCEPT ![w] = "list"]
    /\ UNCHANGED <<clockVars, timerVars, timers, tickled, previous, now, callVars, bytes>>

\* epoll_wait returns because its timeout is over.
WakeByTimeout(w) ==
    /\ pc[w] = "asleep" /\ left[w] = 0
    /\ left' = [left EXCEPT ![w] = 0]
    /\ pc' = [pc EXCEPT ![w] = "list"]
    /\ UNCHANGED <<clockVars, timerVars, timers, tickled, previous, now, took, callVars, pipeVars>>

\* epoll_wait returns because some other file descriptor is ready.
WakeByEvent(w) ==
    /\ pc[w] = "asleep"
    /\ left' = [left EXCEPT ![w] = 0]
    /\ pc' = [pc EXCEPT ![w] = "list"]
    /\ UNCHANGED <<clockVars, timerVars, timers, tickled, previous, now, took, callVars, pipeVars>>

\* listExpiredCb reads the clock, then looks at m_timers under the read lock.
ReadNow(w) ==
    /\ pc[w] = "list"
    /\ IF timers = {}
       THEN now' = now /\ pc' = [pc EXCEPT ![w] = "drain"]
       ELSE now' = [now EXCEPT ![w] = clock] /\ pc' = [pc EXCEPT ![w] = "collect"]
    /\ UNCHANGED <<clockVars, timerVars, timers, tickled, previous, left, took, callVars, pipeVars>>

\* Fault: any backward step counts as a rollover.
RolloverAtOnce(w) == now[w] < previous

DetectClockRollover(w) == now[w] < previous - Hour

\* The elements before the iterator: all of them after a rollover, otherwise
\* those with m_next <= now_ms (lower_bound, then the loop over equal keys).
Expired(w) ==
    IF DetectClockRollover(w) THEN timers ELSE {e \in timers : e[1] <= now[w]}

\* listExpiredCb under the write lock, and the schedule() of what it returned.
\* schedule() tickles when the task queue was empty, which is not known here.
ListExpiredCb(w) ==
    LET gone == {e[2] : e \in Expired(w)}
        again == {t \in gone : recurring[t]}
        newNext(t) == now[w] + ms[t]
    IN
    /\ pc[w] = "collect"
    /\ previous' = IF timers = {} THEN previous ELSE now[w]
    /\ next' = [t \in Timer |-> IF t \in again THEN newNext(t) ELSE next[t]]
    /\ hasCb' = [t \in Timer |-> hasCb[t] /\ t \notin gone \ again]
    /\ timers' = (timers \ Expired(w)) \cup {<<newNext(t), t>> : t \in again}
    /\ \/ UNCHANGED pipeVars
       \/ gone # {} /\ bytes' = TRUE /\ edge' = TRUE
    /\ now' = [now EXCEPT ![w] = 0]
    /\ pc' = [pc EXCEPT ![w] = "drain"]
    /\ UNCHANGED <<clockVars, ms, recurring, shared, tickled, left, took, callVars>>

\* The loop over the epoll results, which empties the pipe if the pipe was
\* among them, and the swapOut back to run() (--m_idleThreadCount).
Drain(w) ==
    /\ pc[w] = "drain"
    /\ bytes' = (bytes /\ ~took[w])
    /\ took' = [took EXCEPT ![w] = FALSE]
    /\ pc' = [pc EXCEPT ![w] = "busy"]
    /\ UNCHANGED <<clockVars, timerVars, timers, tickled, previous, left, now, callVars, edge>>

-----------------------------------------------------------------------------
(* Time. *)

\* A millisecond goes by.  The timeout of epoll_wait is measured on a clock
\* of its own, which is never set back.  A thread uses the clock it has read
\* at most Stale later.
Tick ==
    /\ clock < MaxClock
    /\ \A w \in Worker : pc[w] = "collect" => clock + 1 <= now[w] + Stale
    /\ clock' = clock + 1
    /\ left' = [w \in Worker |-> IF pc[w] = "asleep" /\ left[w] > 0 THEN left[w] - 1 ELSE left[w]]
    /\ UNCHANGED <<back, timerVars, timers, tickled, previous, pc, now, took, callVars, pipeVars>>

\* gettimeofday is the wall clock: it can be set back.
SetBack(k) ==
    /\ clock - k >= Hour /\ back + k <= MaxBack
    /\ clock' = clock - k /\ back' = back + k
    /\ UNCHANGED <<timerVars, timers, tickled, previous, workVars, callVars, pipeVars>>

-----------------------------------------------------------------------------
CallerStep(c) ==
    \/ \E t \in Timer, m \in Delay, r \in BOOLEAN : NewTimer(c, t, m, r)
    \/ InsertTimer(c)
    \/ OnTimerInsertedAtFront(c)
    \/ \E t \in Timer : Cancel(c, t) \/ Refresh(c, t)
    \/ \E t \in Timer, m \in Delay, b \in BOOLEAN : Reset(c, t, m, b)

WorkerStep(w) ==
    \/ GoIdle(w)
    \/ Sleep(w)
    \/ WakeByTickle(w)
    \/ WakeByTimeout(w)
    \/ ReadNow(w)
    \/ ListExpiredCb(w)
    \/ Drain(w)

Next ==
    \/ \E c \in Caller : CallerStep(c)
    \/ \E w \in Worker : WorkerStep(w) \/ WakeByEvent(w)
    \/ Tick
    \/ \E k \in 1 .. MaxBack : SetBack(k)

Spec == Init /\ [][Next]_vars

\* A worker keeps going round its loop, a caller finishes the call it is in,
\* and time passes.  Nothing makes a caller start a call.
FairSpec ==
    /\ Spec
    /\ \A w \in Worker : WF_vars(WorkerStep(w))
    /\ \A c \in Caller : WF_vars(InsertTimer(c) \/ OnTimerInsertedAtFront(c))
    /\ WF_vars(Tick)

-----------------------------------------------------------------------------
(* Properties. *)

\* reset() without from_now computes m_next - m_ms on unsigned numbers: it
\* does not wrap.
StartNotNegative == \A t \in Timer : next[t] >= ms[t]

\* Every element of m_timers belongs to a timer with a callback, sits at the
\* place its present m_next asks for, and is the only one of its timer; a
\* shared timer with a callback is in m_timers.  So the find() in cancel()
\* succeeds and erase(it), which cancel() calls unchecked, never gets end();
\* and reset() can give a timer its place anew.
HeapConsistent ==
    /\ \A e \in timers : hasCb[e[2]] /\ e = Entry(e[2])
    /\ \A t \in Timer : shared[t] /\ hasCb[t] => Found(t)
    /\ StartNotNegative

\* listExpiredCb takes a timer out only when the wall clock has reached its
\* m_next, unless the clock was set back by more than detectClockRollover
\* tolerates.  In particular a worker that is late with an old now_ms, after
\* another worker has stored a newer m_previouseTime, is not taken for a
\* rollover.
NoEarlyExpiry ==
    [][\A w \in Worker : pc[w] = "collect" /\ pc'[w] = "drain" =>
          \A e \in timers \ timers' :
              e[1] <= clock + back \/ back + Stale > Hour]_vars

\* The m_tickled handshake of addTimer and getNextTimer loses no wake-up:
\* when every worker is blocked in epoll_wait, no tickle is on its way and
\* timers are waiting, one of the workers has a timeout that ends by the time
\* the first timer is due.  Only while the clock has never been set back: after
\* that, refresh() can move a timer to the front, and it never tickles.
TickleOnItsWay == (edge /\ bytes) \/ \E c \in Caller : at[c] = "tickle"
SleepersCovered ==
    back = 0 /\ (\A w \in Worker : pc[w] = "asleep") /\ timers # {} /\ ~TickleOnItsWay =>
        \E w \in Worker :
            /\ left[w] # Infinite
            /\ left[w] = 0 \/ clock + left[w] <= Begin(timers)[1]

\* A timer that is due is taken out of m_timers by some worker, or by its user.
TimerFires ==
    \A t \in Timer, k \in 0 .. MaxClock :
        <<k, t>> \in timers ~> <<k, t>> \notin timers

=============================================================================
