----------------------------- MODULE ThreadPool -----------------------------
(***************************************************************************)
(* ThreadPool (src/threadpool.cc, include/threadpool.h) over the scoped    *)
(* lock of include/mutex.h.  The destructor of ScopedLockImpl unlocks the  *)
(* mutex whether or not it still holds it; unlocking a mutex of another    *)
(* thread sets it free.  m_state is read by enqueue without the lock.      *)
(***************************************************************************)
EXTENDS Naturals, Sequences, FiniteSets

CONSTANTS PoolThreads, MaxTasks

ASSUME ThreadPoolAssumption ==
  /\ IsFiniteSet(PoolThreads) /\ MaxTasks \in Nat
  /\ PoolThreads \cap {"owner", "caller", "nobody"} = {}

VARIABLES
  m_state,       \* "STOP", "RUNNING", "STOPPING"
  m_tasks,       \* the queue; 0 is a task that was moved out
  poolSem,       \* the count of m_sem
  mutexHolder,   \* who locked m_mutex, or "nobody"
  tpPc,          \* by thread: workers, "owner" (init, destructor), "caller" (enqueue)
  inHand,        \* by worker, the task it moved out of the queue
  pushed, late,  \* tasks pushed; those pushed when m_state was not RUNNING (history)
  ran,           \* task -> how often it ran
  emptyPop,      \* pop() of an empty queue: undefined
  stolen         \* a destructor set a mutex free that another thread held (history)

tpvars == <<m_state, m_tasks, poolSem, mutexHolder, tpPc, inHand, pushed, late, ran, emptyPop, stolen>>

Actors == PoolThreads \cup {"owner", "caller"}

TpInit ==
  /\ m_state = "STOP" /\ m_tasks = <<>> /\ poolSem = 0 /\ mutexHolder = "nobody"
  /\ tpPc = [a \in Actors |-> CASE a = "owner" -> "initLock" [] a = "caller" -> "idle" [] OTHER -> "none"]
  /\ inHand = [w \in PoolThreads |-> 0] /\ pushed = 0 /\ late = {}
  /\ ran = [t \in 0..MaxTasks |-> 0] /\ emptyPop = FALSE /\ stolen = FALSE

TpGoto(a, pc) == tpPc' = [tpPc EXCEPT ![a] = pc]

(* lock(), by the constructor of a scoped lock                              *)
Lock(a, at, next) ==
  /\ tpPc[a] = at /\ mutexHolder = "nobody" /\ mutexHolder' = a /\ TpGoto(a, next)
  /\ UNCHANGED <<m_state, m_tasks, poolSem, inHand, pushed, late, ran, emptyPop, stolen>>

(* pthread_mutex_unlock                                                     *)
Release(a) ==
  /\ mutexHolder' = "nobody"
  /\ stolen' = (stolen \/ mutexHolder \notin {a, "nobody"})

(* unlock() of a scoped lock that is locked                                 *)
Unlock(a, at, next) ==
  /\ tpPc[a] = at /\ Release(a) /\ TpGoto(a, next)
  /\ UNCHANGED <<m_state, m_tasks, poolSem, inHand, pushed, late, ran, emptyPop>>

(* ~ScopedLockImpl: m_lock is not looked at                                 *)
DropLock(a, at, next) ==
  /\ tpPc[a] = at /\ Release(a) /\ TpGoto(a, next)
  /\ UNCHANGED <<m_state, m_tasks, poolSem, inHand, pushed, late, ran, emptyPop>>

(* m_loop: wait for the semaphore                                           *)
WaitTask(w) ==
  /\ tpPc[w] = "wait" /\ poolSem > 0 /\ poolSem' = poolSem - 1 /\ TpGoto(w, "lock")
  /\ UNCHANGED <<m_state, m_tasks, mutexHolder, inHand, pushed, late, ran, emptyPop, stolen>>

(* Mutant: a thread woken by the destructor leaves only a pool in STOP.     *)
TakeFrontUnasked(w) ==
  /\ tpPc[w] = "section"
  /\ IF m_state = "STOP"
     THEN TpGoto(w, "quitUnlock") /\ UNCHANGED <<m_tasks, inHand, emptyPop>>
     ELSE /\ TpGoto(w, "pop") /\ emptyPop' = (emptyPop \/ m_tasks = <<>>)
          /\ inHand' = [inHand EXCEPT ![w] = IF m_tasks = <<>> THEN 0 ELSE Head(m_tasks)]
          /\ m_tasks' = IF m_tasks = <<>> THEN m_tasks ELSE <<0>> \o Tail(m_tasks)
  /\ UNCHANGED <<m_state, poolSem, mutexHolder, pushed, late, ran, stolen>>

(* leave when the pool stops and nothing is left, else move the front out   *)
TakeFront(w) ==
  /\ tpPc[w] = "section"
  /\ \/ /\ (m_state = "STOPPING" /\ m_tasks = <<>>) \/ m_state = "STOP"
        /\ TpGoto(w, "quitUnlock") /\ UNCHANGED <<m_tasks, inHand, emptyPop>>
     \/ /\ ~((m_state = "STOPPING" /\ m_tasks = <<>>) \/ m_state = "STOP")
        /\ TpGoto(w, "pop") /\ emptyPop' = (emptyPop \/ m_tasks = <<>>)
        /\ inHand' = [inHand EXCEPT ![w] = IF m_tasks = <<>> THEN 0 ELSE Head(m_tasks)]
        /\ m_tasks' = IF m_tasks = <<>> THEN m_tasks ELSE <<0>> \o Tail(m_tasks)
  /\ UNCHANGED <<m_state, poolSem, mutexHolder, pushed, late, ran, stolen>>

PopFront(w) ==
  /\ tpPc[w] = "pop" /\ TpGoto(w, "unlock")
  /\ emptyPop' = (emptyPop \/ m_tasks = <<>>)
  /\ m_tasks' = IF m_tasks = <<>> THEN m_tasks ELSE Tail(m_tasks)
  /\ UNCHANGED <<m_state, poolSem, mutexHolder, inHand, pushed, late, ran, stolen>>

RunTask(w) ==
  /\ tpPc[w] = "run" /\ TpGoto(w, "drop")
  /\ ran' = [ran EXCEPT ![inHand[w]] = IF @ < 2 THEN @ + 1 ELSE @]
  /\ inHand' = [inHand EXCEPT ![w] = 0]
  /\ UNCHANGED <<m_state, m_tasks, poolSem, mutexHolder, pushed, late, emptyPop, stolen>>

Worker(w) ==
  \/ WaitTask(w) \/ Lock(w, "lock", "section") \/ TakeFront(w) \/ PopFront(w)
  \/ Unlock(w, "unlock", "run") \/ RunTask(w) \/ DropLock(w, "drop", "wait")
  \/ Unlock(w, "quitUnlock", "quitDrop") \/ DropLock(w, "quitDrop", "done")

(* enqueue: the test of m_state, push, notify                               *)
EnqueueTest ==
  /\ tpPc["caller"] = "idle" /\ pushed < MaxTasks /\ m_state = "RUNNING" /\ TpGoto("caller", "lock")
  /\ UNCHANGED <<m_state, m_tasks, poolSem, mutexHolder, inHand, pushed, late, ran, emptyPop, stolen>>
Push ==
  /\ tpPc["caller"] = "section" /\ TpGoto("caller", "unlock")
  /\ pushed' = pushed + 1 /\ m_tasks' = Append(m_tasks, pushed')
  /\ late' = IF m_state = "RUNNING" THEN late ELSE late \cup {pushed'}
  /\ UNCHANGED <<m_state, poolSem, mutexHolder, inHand, ran, emptyPop, stolen>>
EnqueueNotify ==
  /\ tpPc["caller"] = "notify" /\ poolSem' = poolSem + 1 /\ TpGoto("caller", "drop")
  /\ UNCHANGED <<m_state, m_tasks, mutexHolder, inHand, pushed, late, ran, emptyPop, stolen>>

Caller ==
  \/ EnqueueTest \/ Lock("caller", "lock", "section") \/ Push \/ Unlock("caller", "unlock", "notify")
  \/ EnqueueNotify \/ DropLock("caller", "drop", "idle")

(* init() and the destructor: the assignment of m_state under the lock      *)
SetState(at, state, next) ==
  /\ tpPc["owner"] = at /\ m_state' = state /\ TpGoto("owner", next)
  /\ UNCHANGED <<m_tasks, poolSem, mutexHolder, inHand, pushed, late, ran, emptyPop, stolen>>
CreateThreads ==
  /\ tpPc["owner"] = "create"
  /\ tpPc' = [a \in Actors |-> IF a \in PoolThreads THEN "wait" ELSE IF a = "owner" THEN "initDrop" ELSE tpPc[a]]
  /\ UNCHANGED <<m_state, m_tasks, poolSem, mutexHolder, inHand, pushed, late, ran, emptyPop, stolen>>
NotifyAll ==
  /\ tpPc["owner"] = "notifyAll" /\ poolSem' = poolSem + Cardinality(PoolThreads) /\ TpGoto("owner", "join")
  /\ UNCHANGED <<m_state, m_tasks, mutexHolder, inHand, pushed, late, ran, emptyPop, stolen>>
Join ==
  /\ \A w \in PoolThreads : tpPc[w] = "done"
  /\ SetState("join", "STOP", "endDrop")

Owner ==
  \/ Lock("owner", "initLock", "initSet") \/ SetState("initSet", "RUNNING", "initUnlock")
  \/ Unlock("owner", "initUnlock", "create") \/ CreateThreads \/ DropLock("owner", "initDrop", "ready")
  \/ Lock("owner", "ready", "stopSet") \/ SetState("stopSet", "STOPPING", "stopUnlock")
  \/ Unlock("owner", "stopUnlock", "notifyAll") \/ NotifyAll \/ Join \/ DropLock("owner", "endDrop", "over")

TpNext == (\E w \in PoolThreads : Worker(w)) \/ Caller \/ Owner

TpSpec == TpInit /\ [][TpNext]_tpvars
-----------------------------------------------------------------------------
(* As long as no scoped lock's destructor has set free a mutex that another *)
(* thread held: m_tasks is used by one thread at a time, front() and pop()  *)
(* find a task, none runs twice, and when the destructor has joined the     *)
(* threads every task has run but those whose enqueue overlapped it.        *)
TasksOnce ==
  stolen \/
  /\ Cardinality({a \in Actors : tpPc[a] \in {"section", "pop", "unlock", "quitUnlock",
                                             "initSet", "initUnlock", "stopSet", "stopUnlock"}}) <= 1
  /\ ~emptyPop /\ ran[0] = 0
  /\ \A t \in 1..MaxTasks : ran[t] <= 1
  /\ tpPc["owner"] = "over" => \A t \in 1..pushed : ran[t] = 1 \/ t \in late
=============================================================================
