--------------------------- MODULE FiberSemaphore ---------------------------
(***************************************************************************)
(* FiberSemaphore (src/mutex.cc) and WorkerGroup (src/worker.cc), which    *)
(* bounds a batch of jobs with one.  The bodies under m_mutex are one step;*)
(* wait() leaves the lock before it yields, so that notify() may schedule  *)
(* a fiber that still runs: the scheduler passes over it until it is held  *)
(* (module Scheduler).                                                     *)
(***************************************************************************)
EXTENDS Naturals, Sequences, FiniteSets

CONSTANTS SemFibers,      \* fibers that use a semaphore of their own
          SemInitial,     \* its initial_concurrency
          BatchSize,      \* of the WorkerGroup
          MaxNotifies     \* bound on the calls of notify by fibers

ASSUME FiberSemaphoreAssumption == SemInitial \in Nat

VARIABLES
  m_concurrency,  \* by semaphore: "own" and "group", the m_sem of WorkerGroup
  m_waiters,
  semPc,          \* "free", "yielding" (in m_waiters, still runs), "held", by fiber
  semQueue,       \* fibers that a notify gave to the scheduler
  notified,       \* calls of notify, by semaphore
  passed,         \* calls of wait and tryWait that returned with a permit
  arrivals,       \* the fibers that had to wait, in order, by semaphore
  resumed,        \* those that notify chose, in order
  m_finish, toWait,   \* of waitAll: it was called; its waits that are left
  jobs            \* doWork calls that are scheduled and not over

smvars == <<m_concurrency, m_waiters, semPc, semQueue, notified, passed, arrivals, resumed,
            m_finish, toWait, jobs>>

Sems == {"own", "group"}
GroupUser == "user"                         \* the fiber that uses the WorkerGroup
SemOf(f) == IF f = GroupUser THEN "group" ELSE "own"

(* WorkerGroup gives its semaphore nothing: initial_concurrency is 0.       *)
SemConcurrency == [s \in Sems |-> IF s = "own" THEN SemInitial ELSE 0]

SmInit ==
  /\ m_concurrency = SemConcurrency /\ m_waiters = [s \in Sems |-> <<>>]
  /\ semPc = [f \in SemFibers \cup {GroupUser} |-> "free"] /\ semQueue = {}
  /\ notified = [s \in Sems |-> 0] /\ passed = [s \in Sems |-> 0]
  /\ arrivals = [s \in Sems |-> <<>>] /\ resumed = [s \in Sems |-> <<>>]
  /\ m_finish = FALSE /\ toWait = 0 /\ jobs = 0

(* wait(): a permit at once, or the fiber joins m_waiters and will yield    *)
SemWait(f) ==
  LET s == SemOf(f)
  IN /\ semPc[f] = "free"
     /\ \/ /\ m_concurrency[s] > 0
           /\ m_concurrency' = [m_concurrency EXCEPT ![s] = @ - 1]
           /\ passed' = [passed EXCEPT ![s] = @ + 1]
           /\ UNCHANGED <<m_waiters, semPc, arrivals>>
        \/ /\ m_concurrency[s] = 0
           /\ m_waiters' = [m_waiters EXCEPT ![s] = Append(@, f)]
           /\ arrivals' = [arrivals EXCEPT ![s] = Append(@, f)]
           /\ semPc' = [semPc EXCEPT ![f] = "yielding"]
           /\ UNCHANGED <<m_concurrency, passed>>
     /\ UNCHANGED <<semQueue, notified, resumed>>

(* tryWait() with a permit left; without one it changes nothing             *)
SemTryWait(f) ==
  LET s == SemOf(f)
  IN /\ semPc[f] = "free" /\ m_concurrency[s] > 0
     /\ m_concurrency' = [m_concurrency EXCEPT ![s] = @ - 1]
     /\ passed' = [passed EXCEPT ![s] = @ + 1]
     /\ UNCHANGED <<m_waiters, semPc, semQueue, notified, arrivals, resumed>>

(* Mutant: notify() counts a permit that it also gives to a waiter.         *)
SemNotifyCounts(s) ==
  /\ notified' = [notified EXCEPT ![s] = @ + 1]
  /\ m_concurrency' = [m_concurrency EXCEPT ![s] = @ + 1]
  /\ \/ /\ m_waiters[s] # <<>>
        /\ m_waiters' = [m_waiters EXCEPT ![s] = Tail(@)]
        /\ semQueue' = semQueue \cup {Head(m_waiters[s])}
        /\ resumed' = [resumed EXCEPT ![s] = Append(@, Head(m_waiters[s]))]
     \/ m_waiters[s] = <<>> /\ UNCHANGED <<m_waiters, semQueue, resumed>>
  /\ UNCHANGED <<semPc, passed, arrivals>>

SemNotify(s) ==
  /\ notified' = [notified EXCEPT ![s] = @ + 1]
  /\ \/ /\ m_waiters[s] # <<>>
        /\ m_waiters' = [m_waiters EXCEPT ![s] = Tail(@)]
        /\ semQueue' = semQueue \cup {Head(m_waiters[s])}
        /\ resumed' = [resumed EXCEPT ![s] = Append(@, Head(m_waiters[s]))]
        /\ UNCHANGED m_concurrency
     \/ /\ m_waiters[s] = <<>>
        /\ m_concurrency' = [m_concurrency EXCEPT ![s] = @ + 1]
        /\ UNCHANGED <<m_waiters, semQueue, resumed>>
  /\ UNCHANGED <<semPc, passed, arrivals>>

(* YieldToHold, and the scheduler that takes a fiber which is held          *)
SemYield(f) ==
  /\ semPc[f] = "yielding" /\ semPc' = [semPc EXCEPT ![f] = "held"]
  /\ UNCHANGED <<m_concurrency, m_waiters, semQueue, notified, passed, arrivals, resumed>>

SemResume(f) ==
  /\ semPc[f] = "held" /\ f \in semQueue
  /\ semPc' = [semPc EXCEPT ![f] = "free"] /\ semQueue' = semQueue \ {f}
  /\ passed' = [passed EXCEPT ![SemOf(f)] = @ + 1]
  /\ UNCHANGED <<m_concurrency, m_waiters, notified, arrivals, resumed>>

(* waitAll, which the destructor calls too: m_batchSize calls of wait(),    *)
(* once                                                                     *)
WaitAll ==
  /\ ~m_finish /\ semPc[GroupUser] = "free" /\ m_finish' = TRUE /\ toWait' = BatchSize
  /\ UNCHANGED <<m_concurrency, m_waiters, semPc, semQueue, notified, passed, arrivals, resumed, jobs>>

(* What a wait() of the group's user is for: one of waitAll, or that of     *)
(* schedule(), which makes a doWork task when the wait has returned.        *)
GroupWait(f) ==
  IF f # GroupUser THEN UNCHANGED <<toWait, jobs>>
  ELSE IF m_finish THEN toWait > 0 /\ toWait' = toWait - 1 /\ UNCHANGED jobs
  ELSE jobs' = (IF semPc'[f] = "free" THEN jobs + 1 ELSE jobs) /\ UNCHANGED toWait

GroupResume(f) == jobs' = IF f = GroupUser /\ ~m_finish THEN jobs + 1 ELSE jobs

(* notify() is called by any fiber, or by doWork after cb()                 *)
DoWork(s) ==
  /\ IF s = "group" THEN jobs > 0 ELSE notified[s] < MaxNotifies
  /\ jobs' = IF s = "group" THEN jobs - 1 ELSE jobs

SmNext ==
  \/ \E f \in SemFibers \cup {GroupUser} :
       \/ SemWait(f) /\ GroupWait(f) /\ UNCHANGED m_finish
       \/ SemResume(f) /\ GroupResume(f) /\ UNCHANGED <<m_finish, toWait>>
       \/ SemYield(f) /\ UNCHANGED <<m_finish, toWait, jobs>>
  \/ \E f \in SemFibers : SemTryWait(f) /\ UNCHANGED <<m_finish, toWait, jobs>>
  \/ \E s \in Sems : SemNotify(s) /\ DoWork(s) /\ UNCHANGED <<m_finish, toWait>>
  \/ WaitAll

SmSpec == SmInit /\ [][SmNext]_smvars
-----------------------------------------------------------------------------
(* Permits are neither lost nor made: those a semaphore began with and was  *)
(* given are in m_concurrency, on their way with a scheduled fiber, or      *)
(* returned from wait.  No fiber waits while there is one, waiters go on in *)
(* the order they came, and a fiber is scheduled once for a wait.  A        *)
(* WorkerGroup never runs a job: its first wait is for a notify that only a *)
(* job would make.                                                          *)
PermitsKept ==
  /\ \A s \in Sems :
       /\ SemConcurrency[s] + notified[s]
            = m_concurrency[s] + passed[s] + Cardinality({f \in semQueue : SemOf(f) = s})
       /\ m_waiters[s] # <<>> => m_concurrency[s] = 0
       /\ arrivals[s] = resumed[s] \o m_waiters[s]
       /\ \A f \in semQueue : semPc[f] # "free" /\ f \notin {m_waiters[s][i] : i \in DOMAIN m_waiters[s]}
  /\ jobs = 0 /\ passed["group"] = 0
=============================================================================
