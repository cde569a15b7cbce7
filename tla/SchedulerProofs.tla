-------------------------- MODULE SchedulerProofs --------------------------
(***************************************************************************)
(* Proofs that a fiber of the Scheduler has one place (the list, a worker, *)
(* or whoever claims it) and never runs twice at a time, for any number of *)
(* workers, fibers and calls of schedule().                                *)
(***************************************************************************)
EXTENDS Scheduler, FiniteSetTheorems, TLAPS

-----------------------------------------------------------------------------
(* The inductive invariant. *)

\* No fiber is in the list twice.
Distinct ==
    \A i, j \in DOMAIN fibers : fibers[i].fiber = fibers[j].fiber => i = j

\* A claim on a fiber is used up by putting the fiber into the list.
ClaimedOrQueued == \A f \in Fiber : ~(claim[f] /\ Queued(f))

\* Which workers hold a fiber, and no two hold the same one.
HoldersKnown ==
    \A w \in Worker :
        /\ cur[w] # None => pc[w] \in Holding
        /\ pc[w] \in Executing => cur[w] # None

OneHolder == \A w, v \in Worker : cur[w] # None /\ cur[w] = cur[v] => w = v

\* The states of the fiber between swapIn() and ft.reset().
ExecutingState ==
    \A w \in Worker :
        /\ pc[w] \in {"exec", "registered"} => state[cur[w]] = "RUNNING"
        /\ pc[w] = "back" => state[cur[w]] \in {"RUNNING", "READY", "END"}

\* The state RUNNING protects a fiber that is scheduled before it has left:
\* this is what the scan looks at.
Registered ==
    \A w \in Worker : \A f \in Fiber :
        cur[w] = f /\ (claim[f] \/ Queued(f)) =>
            pc[w] \in {"registered", "back"} /\ state[f] = "RUNNING"

\* A fiber that yields without being READY has registered.
YieldsRegistered ==
    \A w \in Worker : \A f \in Fiber :
        cur[w] = f /\ (pc[w] = "registered" \/ (pc[w] = "back" /\ state[f] = "RUNNING")) =>
            claim[f] \/ Queued(f)

Kept == \A f \in Fiber : state[f] # "END" => claim[f] \/ Queued(f) \/ Held(f)

\* The constructing thread enters run() from stop() only.
RootWaits == ~stopped /\ Root \in Worker => pc[Root] = "unborn"

Inv ==
    /\ TypeOK
    /\ Distinct /\ ClaimedOrQueued
    /\ HoldersKnown /\ OneHolder
    /\ ExecutingState /\ Registered /\ YieldsRegistered
    /\ Kept
    /\ RootWaits

-----------------------------------------------------------------------------
(* The list. *)

LEMMA AppendIsSeq ==
    ASSUME NEW q \in Seq(Entry), NEW e \in Entry
    PROVE  /\ Append(q, e) \in Seq(Entry)
           /\ Len(Append(q, e)) = Len(q) + 1
           /\ \A k \in 1 .. Len(q) : Append(q, e)[k] = q[k]
           /\ Append(q, e)[Len(q) + 1] = e
  OBVIOUS

\* What q \o r is, in terms of the lengths.
LEMMA AppendedSeq ==
    ASSUME NEW q \in Seq(Entry), NEW r \in Seq(Entry)
    PROVE  /\ q \o r \in Seq(Entry)
           /\ Len(q \o r) = Len(q) + Len(r)
           /\ \A k \in 1 .. Len(q) + Len(r) :
                  (q \o r)[k] = IF k <= Len(q) THEN q[k] ELSE r[k - Len(q)]
  OBVIOUS

\* Without(q, i) is q with element i left out.
LEMMA WithoutIsSeq ==
    ASSUME NEW q \in Seq(Entry), NEW i \in DOMAIN q
    PROVE  /\ Without(q, i) \in Seq(Entry)
           /\ Len(Without(q, i)) = Len(q) - 1
           /\ \A k \in 1 .. Len(q) - 1 : Without(q, i)[k] = IF k < i THEN q[k] ELSE q[k + 1]
  <1> DEFINE front == SubSeq(q, 1, i - 1)
             rear  == SubSeq(q, i + 1, Len(q))
  <1>1. i \in 1 .. Len(q) /\ Len(q) \in Nat
    OBVIOUS
  <1>2. front \in Seq(Entry) /\ Len(front) = i - 1 /\ \A k \in 1 .. i - 1 : front[k] = q[k]
    BY <1>1
  <1>3. rear \in Seq(Entry) /\ Len(rear) = Len(q) - i /\ \A k \in 1 .. Len(q) - i : rear[k] = q[k + i]
    BY <1>1
  <1> HIDE DEF front, rear
  <1>4. /\ front \o rear \in Seq(Entry)
        /\ Len(front \o rear) = Len(q) - 1
        /\ \A k \in 1 .. Len(q) - 1 :
               (front \o rear)[k] = IF k < i THEN front[k] ELSE rear[k - (i - 1)]
    <2>1. /\ front \o rear \in Seq(Entry) /\ Len(front \o rear) = Len(front) + Len(rear)
          /\ \A k \in 1 .. Len(front) + Len(rear) :
                 (front \o rear)[k] = IF k <= Len(front) THEN front[k] ELSE rear[k - Len(front)]
      BY <1>2, <1>3, AppendedSeq, Zenon
    <2>2. /\ Len(front) + Len(rear) = Len(q) - 1
          /\ \A k \in 1 .. Len(q) - 1 : k <= Len(front) <=> k < i
      <3>1. Len(front) = i - 1 /\ Len(rear) = Len(q) - i
        BY <1>2, <1>3
      <3> QED
        BY ONLY <1>1, <3>1, SMTT(60)
    <2>3. \A k \in 1 .. Len(q) - 1 :
              (front \o rear)[k] = IF k <= Len(front) THEN front[k] ELSE rear[k - Len(front)]
      BY ONLY <2>1, <2>2
    <2> QED
      BY ONLY <1>2, <2>1, <2>2, <2>3
  <1>5. ASSUME NEW k \in 1 .. Len(q) - 1
        PROVE  (front \o rear)[k] = IF k < i THEN q[k] ELSE q[k + 1]
    <2>1. CASE k < i
      BY <1>1, <1>2, <1>4, <2>1
    <2>2. CASE ~(k < i)
      <3>1. k - (i - 1) \in 1 .. Len(q) - i /\ k - (i - 1) + i = k + 1
        BY <1>1, <2>2
      <3> QED BY <1>1, <1>3, <1>4, <2>2, <3>1
    <2> QED BY <2>1, <2>2
  <1> QED BY <1>4, <1>5 DEF Without, front, rear

\* m_fibers.push_back: the fiber is in the list now, and once.
LEMMA PushQueue ==
    ASSUME fibers \in Seq(Entry), Distinct,
           NEW f \in Fiber, NEW thread \in Worker \cup {AnyThread},
           ~Queued(f), Push(f, thread)
    PROVE  /\ fibers' \in Seq(Entry)
           /\ Distinct'
           /\ \A g \in Fiber : Queued(g)' <=> Queued(g) \/ g = f
  <1> DEFINE e == [fiber |-> f, thread |-> thread]
  <1>1. e \in Entry /\ e.fiber = f
    BY DEF Entry
  <1> HIDE DEF e
  <1>2. fibers' = Append(fibers, e)
    BY DEF Push, e
  <1>3. /\ fibers' \in Seq(Entry) /\ DOMAIN fibers = 1 .. Len(fibers) /\ Len(fibers) \in Nat
        /\ DOMAIN fibers' = 1 .. Len(fibers) + 1
        /\ \A k \in 1 .. Len(fibers) : fibers'[k] = fibers[k]
        /\ fibers'[Len(fibers) + 1] = e
    BY <1>1, <1>2, AppendIsSeq
  <1>4. \A k \in 1 .. Len(fibers) + 1 : k \in 1 .. Len(fibers) \/ k = Len(fibers) + 1
    BY <1>3
  <1>5. \A k \in 1 .. Len(fibers) : fibers[k].fiber # f
    BY <1>3 DEF Queued
  <1>6. Distinct'
    <2> SUFFICES ASSUME NEW j \in DOMAIN fibers', NEW k \in DOMAIN fibers',
                        fibers'[j].fiber = fibers'[k].fiber
                 PROVE  j = k
      BY DEF Distinct
    <2> QED BY <1>1, <1>3, <1>4, <1>5 DEF Distinct
  <1>7. ASSUME NEW g \in Fiber
        PROVE  Queued(g)' <=> Queued(g) \/ g = f
    <2>1. Queued(g) => Queued(g)'
      BY <1>3 DEF Queued
    <2>2. g = f => Queued(g)'
      BY <1>1, <1>3 DEF Queued
    <2>3. Queued(g)' => Queued(g) \/ g = f
      BY <1>1, <1>3, <1>4 DEF Queued
    <2> QED BY <2>1, <2>2, <2>3
  <1> QED BY <1>3, <1>6, <1>7

\* m_fibers.erase in run(): that fiber, and no other, has left the list.
LEMMA TakeQueue ==
    ASSUME fibers \in Seq(Entry), Distinct,
           NEW i \in DOMAIN fibers, fibers' = Without(fibers, i)
    PROVE  /\ fibers' \in Seq(Entry)
           /\ Distinct'
           /\ \A g \in Fiber : Queued(g)' <=> Queued(g) /\ g # fibers[i].fiber
  <1>1. /\ fibers' \in Seq(Entry) /\ DOMAIN fibers = 1 .. Len(fibers) /\ Len(fibers) \in Nat
        /\ DOMAIN fibers' = 1 .. Len(fibers) - 1
        /\ \A k \in 1 .. Len(fibers) - 1 : fibers'[k] = IF k < i THEN fibers[k] ELSE fibers[k + 1]
    BY WithoutIsSeq
  <1> DEFINE old(k) == IF k < i THEN k ELSE k + 1
  <1>2. \A k \in DOMAIN fibers' :
            old(k) \in DOMAIN fibers /\ old(k) # i /\ fibers'[k] = fibers[old(k)]
    BY <1>1
  <1>3. \A j, k \in DOMAIN fibers' : old(j) = old(k) => j = k
    BY <1>1
  <1>4. \A k \in DOMAIN fibers : k # i => \E j \in DOMAIN fibers' : old(j) = k
    <2> SUFFICES ASSUME NEW k \in DOMAIN fibers, k # i
                 PROVE  \E j \in DOMAIN fibers' : old(j) = k
      OBVIOUS
    <2>1. CASE k < i
      BY <1>1, <2>1
    <2>2. CASE k > i
      <3>1. k - 1 \in DOMAIN fibers' /\ old(k - 1) = k
        BY <1>1, <2>2
      <3> QED BY <3>1
    <2> QED BY <1>1, <2>1, <2>2
  <1> HIDE DEF old
  <1>5. Distinct'
    <2> SUFFICES ASSUME NEW j \in DOMAIN fibers', NEW k \in DOMAIN fibers',
                        fibers'[j].fiber = fibers'[k].fiber
                 PROVE  j = k
      BY DEF Distinct
    <2> QED BY <1>2, <1>3 DEF Distinct
  <1>6. ASSUME NEW g \in Fiber
        PROVE  Queued(g)' <=> Queued(g) /\ g # fibers[i].fiber
    <2>1. ASSUME Queued(g)'
          PROVE  Queued(g) /\ g # fibers[i].fiber
      <3>1. PICK k \in DOMAIN fibers' : fibers'[k].fiber = g
        BY <2>1 DEF Queued
      <3> QED BY <1>2, <3>1 DEF Queued, Distinct
    <2>2. ASSUME Queued(g), g # fibers[i].fiber
          PROVE  Queued(g)'
      <3>1. PICK k \in DOMAIN fibers : fibers[k].fiber = g
        BY <2>2 DEF Queued
      <3>2. PICK j \in DOMAIN fibers' : old(j) = k
        BY <1>4, <2>2, <3>1
      <3> QED BY <1>2, <3>1, <3>2 DEF Queued
    <2> QED BY <2>1, <2>2
  <1> QED BY <1>1, <1>5, <1>6

-----------------------------------------------------------------------------
(* Types. *)

LEMMA TypeInit == Init => TypeOK
  <1> SUFFICES ASSUME Init PROVE TypeOK
    OBVIOUS
  <1>1. fibers \in Seq(Entry)
    BY DEF Init
  <1>2. /\ state \in [Fiber -> FiberState]
        /\ pc \in [Worker -> WorkerState]
        /\ cur \in [Worker -> Fiber \cup {None}]
        /\ at \in [Caller -> {"out", "tickle"}]
    BY DEF Init, FiberState, WorkerState
  <1>3. /\ claim \in [Fiber -> BOOLEAN]
        /\ tickleMe \in [Worker -> BOOLEAN]
        /\ idleEnd \in [Worker -> BOOLEAN]
        /\ took \in [Worker -> BOOLEAN]
    BY DEF Init
  <1>4. /\ stopped \in BOOLEAN /\ bytes \in BOOLEAN /\ edge \in BOOLEAN
        /\ counted \subseteq Fiber /\ saved \in {"none", "stop", "run"}
    BY DEF Init
  <1> QED BY <1>1, <1>2, <1>3, <1>4 DEF TypeOK

LEMMA TickleType ==
    ASSUME TypeOK, Tickle
    PROVE  bytes' \in BOOLEAN /\ edge' \in BOOLEAN /\ took' \in [Worker -> BOOLEAN]
  BY DEF TypeOK, Tickle, pipeVars

LEMMA PushType ==
    ASSUME TypeOK, NEW f \in Fiber, NEW thread \in Worker \cup {AnyThread}, Push(f, thread)
    PROVE  fibers' \in Seq(Entry)
  <1>1. [fiber |-> f, thread |-> thread] \in Entry
    BY DEF Entry
  <1> QED BY <1>1, AppendIsSeq DEF TypeOK, Push

LEMMA RunStepType ==
    ASSUME TypeOK, HoldersKnown, NEW w \in Worker, RunStep(w)
    PROVE  TypeOK'
  <1>1. ASSUME NEW i \in DOMAIN fibers, ScanTakes(w, i)
        PROVE  TypeOK'
    <2>0. fibers \in Seq(Entry) /\ fibers' = Without(fibers, i)
      BY <1>1 DEF ScanTakes, TypeOK
    <2>1. fibers' \in Seq(Entry)
      BY <2>0, WithoutIsSeq
    <2>3. fibers[i].fiber \in Fiber
      <3>1. fibers[i] \in Entry
        BY <2>0
      <3> QED BY <3>1 DEF Entry
    <2>2. tickleMe' \in [Worker -> BOOLEAN]
      BY <1>1 DEF ScanTakes, TypeOK
    <2> QED BY <1>1, <2>1, <2>2, <2>3 DEF ScanTakes, TypeOK, WorkerState, fiberVars, pipeVars
  <1>2. CASE ScanFindsNothing(w)
    <2>1. tickleMe' \in [Worker -> BOOLEAN]
      BY <1>2 DEF ScanFindsNothing, TypeOK
    <2> QED BY <1>2, <2>1 DEF ScanFindsNothing, TypeOK, WorkerState, fiberVars, pipeVars
  <1>3. CASE RunTickle(w)
    <2>1. bytes' \in BOOLEAN /\ edge' \in BOOLEAN /\ took' \in [Worker -> BOOLEAN]
      BY <1>3, TickleType DEF RunTickle, TypeOK, pipeVars
    <2> QED BY <1>3, <2>1 DEF RunTickle, TypeOK, WorkerState, fiberVars
  <1>4. CASE SwapIn(w)
    <2>1. cur[w] \in Fiber
      BY <1>4 DEF SwapIn, TypeOK
    <2>2. saved' \in {"none", "stop", "run"}
      BY <1>4 DEF SwapIn, SaveRun, TypeOK
    <2> QED BY <1>4, <2>1, <2>2 DEF SwapIn, TypeOK, WorkerState, FiberState, pipeVars
  <1>5. CASE GoIdle(w)
    BY <1>5 DEF GoIdle, SaveRun, TypeOK, WorkerState, fiberVars, pipeVars
  <1>12. CASE LeaveRun(w)
    BY <1>12 DEF LeaveRun, TypeOK, WorkerState, fiberVars, pipeVars
  <1>6. CASE Back(w)
    <2>1. cur[w] \in Fiber
      BY <1>6 DEF Back, TypeOK, HoldersKnown, Executing
    <2>2. fibers' \in Seq(Entry)
      BY <1>6, <2>1, PushType DEF Back, TypeOK
    <2>3. tickleMe' \in [Worker -> BOOLEAN]
      BY <1>6 DEF Back, TypeOK, NeedTickle
    <2>4. state' \in [Fiber -> FiberState]
      BY <1>6, <2>1 DEF Back, TypeOK, FiberState
    <2> QED BY <1>6, <2>2, <2>3, <2>4 DEF Back, TypeOK, WorkerState, pipeVars
  <1>7. CASE BackTickle(w)
    <2>1. bytes' \in BOOLEAN /\ edge' \in BOOLEAN /\ took' \in [Worker -> BOOLEAN]
      BY <1>7, TickleType DEF BackTickle, TypeOK, pipeVars
    <2> QED BY <1>7, <2>1 DEF BackTickle, TypeOK, WorkerState, fiberVars
  <1>8. CASE Idle(w)
    <2>1. idleEnd' \in [Worker -> BOOLEAN]
      BY <1>8 DEF Idle, TypeOK, Stopping
    <2> QED BY <1>8, <2>1 DEF Idle, TypeOK, WorkerState, fiberVars, pipeVars
  <1>9. CASE WakeByTickle(w)
    BY <1>9 DEF WakeByTickle, TypeOK, WorkerState, fiberVars
  <1>10. CASE WakeByTimeout(w)
    BY <1>10 DEF WakeByTimeout, TypeOK, WorkerState, fiberVars, pipeVars
  <1>11. CASE LeaveIdle(w)
    <2>1. bytes' \in BOOLEAN
      BY <1>11 DEF LeaveIdle, TypeOK
    <2> QED BY <1>11, <2>1 DEF LeaveIdle, TypeOK, WorkerState, fiberVars
  <1> QED BY <1>1, <1>2, <1>3, <1>4, <1>5, <1>6, <1>7, <1>8, <1>9, <1>10, <1>11, <1>12 DEF RunStep

LEMMA FiberStepType ==
    ASSUME TypeOK, HoldersKnown, NEW w \in Worker, FiberStep(w)
    PROVE  TypeOK'
  <1>0. pc[w] \in Executing => cur[w] \in Fiber
    BY DEF HoldersKnown, TypeOK
  <1>1. CASE Finish(w)
    BY <1>0, <1>1 DEF Finish, TypeOK, WorkerState, FiberState, Executing, pipeVars
  <1>2. CASE YieldToReady(w)
    BY <1>0, <1>2 DEF YieldToReady, TypeOK, WorkerState, FiberState, Executing, pipeVars
  <1>3. CASE Register(w)
    BY <1>0, <1>3 DEF Register, TypeOK, WorkerState, Executing, pipeVars
  <1>4. ASSUME NEW thread \in Worker, SwitchTo(w, thread)
        PROVE  TypeOK'
    <2>1. fibers' \in Seq(Entry)
      BY <1>0, <1>4, PushType DEF SwitchTo, Executing
    <2>2. bytes' \in BOOLEAN /\ edge' \in BOOLEAN /\ took' \in [Worker -> BOOLEAN]
      BY <1>4, TickleType DEF SwitchTo, TypeOK, pipeVars
    <2> QED BY <1>4, <2>1, <2>2 DEF SwitchTo, TypeOK, WorkerState, fiberVars
  <1>5. CASE YieldToHold(w)
    BY <1>5 DEF YieldToHold, TypeOK, WorkerState, fiberVars, pipeVars
  <1> QED BY <1>1, <1>2, <1>3, <1>4, <1>5 DEF FiberStep

LEMMA CallerStepType ==
    ASSUME TypeOK, NEW c \in Caller, CallerStep(c)
    PROVE  TypeOK'
  <1>1. ASSUME NEW f \in Fiber, NEW thread \in Worker \cup {AnyThread}, Schedule(c, f, thread)
        PROVE  TypeOK'
    <2>1. fibers' \in Seq(Entry)
      BY <1>1, PushType DEF Schedule
    <2>2. counted' \subseteq Fiber
      BY <1>1 DEF Schedule, TypeOK
    <2> QED BY <1>1, <2>1, <2>2 DEF Schedule, TypeOK, workVars, pipeVars
  <1>2. CASE ScheduleTickle(c)
    <2>1. bytes' \in BOOLEAN /\ edge' \in BOOLEAN /\ took' \in [Worker -> BOOLEAN]
      BY <1>2, TickleType DEF ScheduleTickle
    <2> QED BY <1>2, <2>1 DEF ScheduleTickle, TypeOK, fiberVars, workVars
  <1> QED BY <1>1, <1>2 DEF CallerStep

LEMMA TypeStep == TypeOK /\ HoldersKnown /\ [Next]_vars => TypeOK'
  <1> SUFFICES ASSUME TypeOK, HoldersKnown, [Next]_vars PROVE TypeOK'
    OBVIOUS
  <1>1. ASSUME NEW w \in Worker, WakeByEvent(w)
        PROVE  TypeOK'
    BY <1>1 DEF WakeByEvent, TypeOK, WorkerState, fiberVars, pipeVars
  <1>2. CASE Stop
    <2>1. bytes' \in BOOLEAN /\ edge' \in BOOLEAN /\ took' \in [Worker -> BOOLEAN]
      BY <1>2, TickleType DEF Stop
    <2>2. pc' \in [Worker -> WorkerState]
      BY <1>2 DEF Stop, TypeOK, WorkerState
    <2>3. stopped' \in BOOLEAN /\ saved' \in {"none", "stop", "run"}
      BY <1>2 DEF Stop, TypeOK
    <2> QED BY <1>2, <2>1, <2>2, <2>3 DEF Stop, TypeOK, fiberVars
  <1>4. ASSUME NEW f \in Fiber, ArmCallback(f) \/ DropCallback(f)
        PROVE  TypeOK'
    <2>1. counted' \subseteq Fiber
      BY <1>4 DEF ArmCallback, DropCallback, TypeOK
    <2> QED BY <1>4, <2>1 DEF ArmCallback, DropCallback, TypeOK, fiberVars, workVars, pipeVars
  <1>3. CASE UNCHANGED vars
    BY <1>3 DEF vars, TypeOK, fiberVars, workVars, pipeVars
  <1> QED BY <1>1, <1>2, <1>3, <1>4, RunStepType, FiberStepType, CallerStepType DEF Next

-----------------------------------------------------------------------------
(* The invariant holds initially, and every action keeps it. *)

LEMMA InvInit == Init => Inv
  <1> SUFFICES ASSUME Init PROVE Inv
    OBVIOUS
  <1>1. TypeOK
    BY TypeInit
  <1>2. DOMAIN fibers = {}
    BY DEF Init
  <1>3. Distinct /\ ClaimedOrQueued
    BY <1>2 DEF Distinct, ClaimedOrQueued, Queued
  <1>4. HoldersKnown /\ OneHolder
    BY DEF Init, HoldersKnown, OneHolder, Executing
  <1>5. ExecutingState /\ Registered /\ YieldsRegistered
    BY SchedulerAssumption DEF Init, ExecutingState, Registered, YieldsRegistered, SchedulerAssumption
  <1>6. Kept
    BY DEF Init, Kept
  <1>7. RootWaits
    BY DEF Init, RootWaits
  <1> QED BY <1>1, <1>3, <1>4, <1>5, <1>6, <1>7 DEF Inv

\* The invariant without the types.
Rest ==
    /\ Distinct /\ ClaimedOrQueued
    /\ HoldersKnown /\ OneHolder
    /\ ExecutingState /\ Registered /\ YieldsRegistered
    /\ Kept
    /\ RootWaits

\* An action that leaves the list, the fibers and their holders alone, and moves
\* one worker outside the code that executes a fiber.
LEMMA QuietStep ==
    ASSUME Inv, NEW w \in Worker, NEW s \in WorkerState,
           UNCHANGED <<fibers, state, claim, cur>>,
           pc[w] \notin Executing, pc[w] # "unborn",
           pc' = [pc EXCEPT ![w] = s], stopped' = stopped,
           s \notin Executing, cur[w] # None => s \in Holding
    PROVE  Rest'
  <1>1. \A v \in Worker : v # w => pc'[v] = pc[v]
    BY DEF Inv, TypeOK
  <1>2. pc'[w] = s
    BY DEF Inv, TypeOK
  <1>3. \A f : Queued(f)' <=> Queued(f)
    BY DEF Queued
  <1>4. \A f : Held(f)' <=> Held(f)
    BY DEF Held
  <1>5. Distinct' /\ ClaimedOrQueued' /\ Kept' /\ OneHolder'
    BY <1>3, <1>4 DEF Inv, Distinct, ClaimedOrQueued, Kept, OneHolder
  <1>6. HoldersKnown' /\ ExecutingState'
    BY <1>1, <1>2 DEF Inv, HoldersKnown, ExecutingState, Executing
  <1>7. Registered'
    <2> SUFFICES ASSUME NEW v \in Worker, NEW f \in Fiber, cur[v] = f, claim[f] \/ Queued(f)
                 PROVE  pc'[v] \in {"registered", "back"} /\ state[f] = "RUNNING"
      BY <1>3 DEF Registered
    <2>1. pc[v] \in {"registered", "back"} /\ state[f] = "RUNNING"
      BY DEF Inv, Registered
    <2> QED BY <1>1, <2>1 DEF Executing
  <1>8. YieldsRegistered'
    <2> SUFFICES ASSUME NEW v \in Worker, NEW f \in Fiber, cur[v] = f,
                        pc'[v] = "registered" \/ (pc'[v] = "back" /\ state[f] = "RUNNING")
                 PROVE  claim[f] \/ Queued(f)
      BY <1>3 DEF YieldsRegistered
    <2>1. v # w
      BY <1>2 DEF Executing
    <2> QED BY <1>1, <2>1 DEF Inv, YieldsRegistered
  <1>9. RootWaits'
    BY <1>1 DEF Inv, RootWaits
  <1> QED BY <1>5, <1>6, <1>7, <1>8, <1>9 DEF Rest

LEMMA ScanTakesStep ==
    ASSUME Inv, NEW w \in Worker, NEW i \in DOMAIN fibers, ScanTakes(w, i)
    PROVE  Rest'
  <1> DEFINE f == fibers[i].fiber
  <1>1. fibers \in Seq(Entry) /\ fibers[i] \in Entry
    BY DEF Inv, TypeOK
  <1>2. f \in Fiber /\ f # None /\ Queued(f) /\ state[f] # "RUNNING"
    BY <1>1, SchedulerAssumption
       DEF ScanTakes, IsFirst, Eligible, Queued, Entry, SchedulerAssumption
  <1>3. Distinct' /\ \A g \in Fiber : Queued(g)' <=> Queued(g) /\ g # f
    BY <1>1, TakeQueue DEF Inv, ScanTakes
  <1>4. ~claim[f] /\ \A v \in Worker : cur[v] # f
    BY <1>2 DEF Inv, ClaimedOrQueued, Registered
  <1> HIDE DEF f
  <1>5. /\ pc[w] = "scan" /\ pc'[w] = "tickle" /\ cur'[w] = f
        /\ \A v \in Worker : v # w => pc'[v] = pc[v] /\ cur'[v] = cur[v]
        /\ state' = state /\ claim' = claim /\ stopped' = stopped
    BY DEF ScanTakes, Inv, TypeOK, fiberVars, f
  <1>6. ClaimedOrQueued'
    BY <1>3, <1>5 DEF Inv, ClaimedOrQueued
  <1>7. HoldersKnown' /\ OneHolder' /\ ExecutingState'
    BY <1>2, <1>4, <1>5 DEF Inv, HoldersKnown, OneHolder, ExecutingState, Holding, Executing
  <1>8. Registered'
    BY <1>3, <1>4, <1>5 DEF Inv, Registered
  <1>9. YieldsRegistered'
    <2> SUFFICES ASSUME NEW v \in Worker, NEW g \in Fiber, cur'[v] = g,
                        pc'[v] = "registered" \/ (pc'[v] = "back" /\ state[g] = "RUNNING")
                 PROVE  claim[g] \/ Queued(g)'
      BY <1>5 DEF YieldsRegistered
    <2>1. v # w /\ g # f
      BY <1>4, <1>5
    <2> QED BY <1>3, <1>5, <2>1 DEF Inv, YieldsRegistered
  <1>10. Kept'
    <2> SUFFICES ASSUME NEW g \in Fiber, state[g] # "END", ~claim[g], ~Queued(g)'
                 PROVE  Held(g)'
      BY <1>5 DEF Kept
    <2>1. CASE g = f
      BY <1>5, <2>1 DEF Held
    <2>2. CASE g # f
      <3>1. PICK v \in Worker : cur[v] = g
        BY <1>3, <2>2 DEF Inv, Kept, Held
      <3>2. v # w
        BY <1>2, <1>5, <3>1, SchedulerAssumption DEF Inv, HoldersKnown, Holding, SchedulerAssumption
      <3> QED BY <1>5, <3>1, <3>2 DEF Held
    <2> QED BY <2>1, <2>2
  <1>11. RootWaits'
    BY <1>5 DEF Inv, RootWaits
  <1> QED BY <1>3, <1>6, <1>7, <1>8, <1>9, <1>10, <1>11 DEF Rest

\* The fiber that a worker executes, or is about to execute, is its own.
LEMMA OwnFiber ==
    ASSUME Inv, NEW w \in Worker, cur[w] # None
    PROVE  /\ cur[w] \in Fiber
           /\ \A v \in Worker : v # w => cur[v] # cur[w]
  BY DEF Inv, TypeOK, OneHolder

LEMMA SwapInStep ==
    ASSUME Inv, NEW w \in Worker, SwapIn(w)
    PROVE  Rest'
  <1> DEFINE f == cur[w]
  <1>1. f \in Fiber /\ \A v \in Worker : v # w => cur[v] # f
    BY OwnFiber DEF SwapIn
  <1>2. ~claim[f] /\ ~Queued(f) /\ pc[w] = "enter"
    BY <1>1 DEF Inv, Registered, SwapIn
  <1>3. fibers' = fibers /\ claim' = claim /\ stopped' = stopped
    BY DEF SwapIn
  <1>4. \A g : Queued(g)' <=> Queued(g)
    BY <1>3 DEF Queued
  <1>5. Distinct' /\ ClaimedOrQueued'
    BY <1>3, <1>4 DEF Inv, Distinct, ClaimedOrQueued
  <1> HIDE DEF f
  <1>6. CASE state[f] # "END"
    <2>1. /\ state' = [state EXCEPT ![f] = "RUNNING"] /\ cur' = cur
          /\ pc'[w] = "exec" /\ \A v \in Worker : v # w => pc'[v] = pc[v]
      BY <1>6 DEF SwapIn, Inv, TypeOK, f
    <2>2. state'[f] = "RUNNING" /\ \A g \in Fiber : g # f => state'[g] = state[g]
      BY <1>1, <2>1 DEF Inv, TypeOK
    <2>3. HoldersKnown' /\ OneHolder'
      BY <2>1 DEF Inv, HoldersKnown, OneHolder, Holding, Executing, SwapIn
    <2>4. \A v \in Worker : v # w /\ pc[v] \in Executing => cur[v] \in Fiber /\ state'[cur[v]] = state[cur[v]]
      BY <1>1, <2>2 DEF Inv, HoldersKnown, TypeOK
    <2>5. ExecutingState'
      BY <2>1, <2>2, <2>4 DEF Inv, ExecutingState, Executing, f
    <2>6. Registered'
      BY <1>1, <1>2, <1>3, <1>4, <2>1, <2>2 DEF Inv, Registered, f
    <2>7. YieldsRegistered'
      BY <1>3, <1>4, <2>1, <2>4 DEF Inv, YieldsRegistered, Executing
    <2>8. Kept'
      BY <1>3, <1>4, <2>1, <2>2 DEF Inv, Kept, Held, f
    <2>9. RootWaits'
      BY <1>2, <1>3, <2>1 DEF Inv, RootWaits
    <2> QED BY <1>5, <2>3, <2>5, <2>6, <2>7, <2>8, <2>9 DEF Rest
  <1>7. CASE state[f] = "END"
    <2>1. /\ state' = state /\ cur'[w] = None
          /\ pc'[w] = "scan" /\ \A v \in Worker : v # w => pc'[v] = pc[v] /\ cur'[v] = cur[v]
      BY <1>7 DEF SwapIn, Inv, TypeOK, f
    <2>2. HoldersKnown' /\ OneHolder' /\ ExecutingState'
      BY <2>1 DEF Inv, HoldersKnown, OneHolder, ExecutingState, Holding, Executing
    <2>3. Registered' /\ YieldsRegistered'
      BY <1>3, <1>4, <2>1, SchedulerAssumption DEF Inv, Registered, YieldsRegistered, SchedulerAssumption
    <2>4. Kept'
      BY <1>3, <1>4, <1>7, <2>1 DEF Inv, Kept, Held, f
    <2>5. RootWaits'
      BY <1>2, <1>3, <2>1 DEF Inv, RootWaits
    <2> QED BY <1>5, <2>2, <2>3, <2>4, <2>5 DEF Rest
  <1> QED BY <1>6, <1>7

LEMMA BackStep ==
    ASSUME Inv, NEW w \in Worker, NEW f \in Fiber, cur[w] = f, Back(w)
    PROVE  Rest'
  <1>1. f # None /\ \A v \in Worker : v # w => cur[v] # f
    BY OwnFiber, SchedulerAssumption DEF SchedulerAssumption
  <1>2. pc[w] = "back" /\ claim' = claim /\ stopped' = stopped
    BY DEF Back
  <1>3. /\ state[f] \in {"RUNNING", "READY", "END"}
        /\ state[f] # "RUNNING" => ~claim[f] /\ ~Queued(f)
    BY <1>1, <1>2 DEF Inv, ExecutingState, Registered
  <1>4. /\ cur'[w] = None /\ pc'[w] = "tickleAfter"
        /\ \A v \in Worker : v # w => pc'[v] = pc[v] /\ cur'[v] = cur[v]
    BY DEF Back, Inv, TypeOK
  <1>5. /\ state[f] = "RUNNING" => state'[f] = "HOLD"
        /\ state[f] # "RUNNING" => state' = state
        /\ \A g \in Fiber : g # f => state'[g] = state[g]
    BY <1>1 DEF Back, Inv, TypeOK
  <1>6. /\ Distinct'
        /\ \A g \in Fiber : Queued(g)' <=> Queued(g) \/ (g = f /\ state[f] = "READY")
    <2>1. CASE state[f] = "READY"
      <3>1. Push(f, AnyThread) /\ ~Queued(f)
        BY <1>3, <2>1 DEF Back
      <3> QED BY <1>1, <2>1, <3>1, PushQueue DEF Inv, TypeOK
    <2>2. CASE state[f] # "READY"
      BY <2>2 DEF Back, Inv, Distinct, Queued
    <2> QED BY <2>1, <2>2
  <1>7. ClaimedOrQueued'
    BY <1>2, <1>3, <1>6 DEF Inv, ClaimedOrQueued
  <1>8. HoldersKnown' /\ OneHolder'
    BY <1>4 DEF Inv, HoldersKnown, OneHolder, Executing
  <1>9. \A v \in Worker : v # w /\ pc[v] \in Executing =>
            cur[v] \in Fiber /\ cur[v] # f /\ state'[cur[v]] = state[cur[v]]
    BY <1>1, <1>5 DEF Inv, HoldersKnown, TypeOK
  <1>10. ExecutingState'
    BY <1>4, <1>9 DEF Inv, ExecutingState, Executing
  <1>11. Registered'
    <2> SUFFICES ASSUME NEW v \in Worker, NEW g \in Fiber, cur'[v] = g, claim[g] \/ Queued(g)'
                 PROVE  pc'[v] \in {"registered", "back"} /\ state'[g] = "RUNNING"
      BY <1>2 DEF Registered
    <2>1. v # w /\ g # f
      BY <1>1, <1>4, SchedulerAssumption DEF SchedulerAssumption
    <2> QED BY <1>4, <1>5, <1>6, <2>1 DEF Inv, Registered
  <1>12. YieldsRegistered'
    <2> SUFFICES ASSUME NEW v \in Worker, NEW g \in Fiber, cur'[v] = g,
                        pc'[v] = "registered" \/ (pc'[v] = "back" /\ state'[g] = "RUNNING")
                 PROVE  claim[g] \/ Queued(g)'
      BY <1>2 DEF YieldsRegistered
    <2>1. v # w /\ g # f
      BY <1>1, <1>4, SchedulerAssumption DEF SchedulerAssumption
    <2> QED BY <1>4, <1>5, <1>6, <2>1 DEF Inv, YieldsRegistered
  <1>13. Kept'
    <2> SUFFICES ASSUME NEW g \in Fiber, state'[g] # "END", ~claim[g], ~Queued(g)'
                 PROVE  Held(g)'
      BY <1>2 DEF Kept
    <2>1. g # f
      <3>1. state[f] = "RUNNING" => claim[f] \/ Queued(f)
        BY <1>1, <1>2 DEF Inv, YieldsRegistered
      <3>2. state[f] = "READY" => Queued(f)'
        BY <1>1, <1>6
      <3>3. state[f] = "END" => state'[f] = "END"
        BY <1>5
      <3>4. Queued(f) => Queued(f)'
        BY <1>1, <1>6
      <3> QED BY <1>3, <3>1, <3>2, <3>3, <3>4
    <2>2. PICK v \in Worker : cur[v] = g
      BY <1>5, <1>6, <2>1 DEF Inv, Kept, Held
    <2>3. v # w
      BY <2>1, <2>2
    <2> QED BY <1>4, <2>2, <2>3 DEF Held
  <1>14. RootWaits'
    BY <1>2, <1>4 DEF Inv, RootWaits
  <1> QED BY <1>6, <1>7, <1>8, <1>10, <1>11, <1>12, <1>13, <1>14 DEF Rest

\* The steps of the fiber that worker w executes: they change only that fiber.
LEMMA ExecuteStep ==
    ASSUME Inv, NEW w \in Worker, NEW f \in Fiber, cur[w] = f, FiberStep(w)
    PROVE  Rest'
  <1>1. f # None /\ \A v \in Worker : v # w => cur[v] # f
    BY OwnFiber, SchedulerAssumption DEF SchedulerAssumption
  <1>2. /\ cur' = cur /\ stopped' = stopped /\ pc[w] \in {"exec", "registered"}
        /\ pc'[w] \in {"registered", "back"}
        /\ \A v \in Worker : v # w => pc'[v] = pc[v]
    BY DEF FiberStep, Finish, YieldToReady, Register, SwitchTo, YieldToHold, Inv, TypeOK, fiberVars
  <1>3. state[f] = "RUNNING" /\ (pc[w] = "exec" => ~claim[f] /\ ~Queued(f))
    BY <1>2 DEF Inv, ExecutingState, Registered
  <1>4. /\ \A g \in Fiber : g # f => state'[g] = state[g] /\ claim'[g] = claim[g]
        /\ state'[f] \in {"RUNNING", "READY", "END"}
        /\ pc'[w] = "registered" => state'[f] = "RUNNING"
    <2>1. CASE Finish(w)
      BY <2>1 DEF Finish, Inv, TypeOK
    <2>2. CASE YieldToReady(w)
      BY <2>2 DEF YieldToReady, Inv, TypeOK
    <2>3. CASE Register(w)
      BY <2>3, <1>3 DEF Register, Inv, TypeOK
    <2>4. CASE \E thread \in Worker : SwitchTo(w, thread)
      BY <2>4, <1>3 DEF SwitchTo, fiberVars
    <2>5. CASE YieldToHold(w)
      BY <2>5, <1>3 DEF YieldToHold, fiberVars
    <2> QED BY <2>1, <2>2, <2>3, <2>4, <2>5 DEF FiberStep
  <1>5. /\ Distinct'
        /\ \A g \in Fiber : g # f => (Queued(g)' <=> Queued(g))
    <2>1. CASE \E thread \in Worker : SwitchTo(w, thread)
      <3>1. PICK thread \in Worker : SwitchTo(w, thread)
        BY <2>1
      <3>2. Push(f, thread) /\ ~Queued(f)
        BY <1>3, <3>1 DEF SwitchTo
      <3> QED BY <3>2, PushQueue DEF Inv, TypeOK
    <2>2. CASE fibers' = fibers
      BY <2>2 DEF Inv, Distinct, Queued
    <2> QED BY <2>1, <2>2 DEF FiberStep, Finish, YieldToReady, Register, YieldToHold
  \* The fiber ends or is READY and nobody else knows it, or it has registered.
  <1>6. \/ (claim'[f] \/ Queued(f)') /\ ~(claim'[f] /\ Queued(f)') /\ state'[f] = "RUNNING"
        \/ ~claim'[f] /\ ~Queued(f)' /\ state'[f] # "RUNNING" /\ pc'[w] = "back"
    <2>1. CASE Finish(w) \/ YieldToReady(w)
      BY <1>3, <2>1 DEF Finish, YieldToReady, Queued, Inv, TypeOK
    <2>2. CASE Register(w)
      BY <1>3, <2>2 DEF Register, Queued, Inv, TypeOK
    <2>3. CASE \E thread \in Worker : SwitchTo(w, thread)
      <3>1. PICK thread \in Worker : SwitchTo(w, thread)
        BY <2>3
      <3>2. Push(f, thread) /\ ~Queued(f) /\ claim'[f] = claim[f] /\ ~claim[f] /\ state' = state
        BY <1>3, <3>1 DEF SwitchTo, fiberVars
      <3>3. Queued(f)'
        BY <3>2, PushQueue DEF Inv, TypeOK
      <3> QED BY <1>3, <3>2, <3>3
    <2>4. CASE YieldToHold(w)
      <3>1. pc[w] = "registered" /\ (Queued(f)' <=> Queued(f)) /\ claim' = claim /\ state' = state
        BY <2>4 DEF YieldToHold, Queued, fiberVars
      <3>2. (claim[f] \/ Queued(f)) /\ ~(claim[f] /\ Queued(f))
        BY <3>1 DEF Inv, YieldsRegistered, ClaimedOrQueued
      <3> QED BY <1>3, <3>1, <3>2
    <2> QED BY <2>1, <2>2, <2>3, <2>4 DEF FiberStep
  <1>7. ClaimedOrQueued'
    BY <1>4, <1>5, <1>6 DEF Inv, ClaimedOrQueued
  <1>8. HoldersKnown' /\ OneHolder'
    BY <1>1, <1>2 DEF Inv, HoldersKnown, OneHolder, Executing, Holding
  <1>9. ExecutingState'
    <2> SUFFICES ASSUME NEW v \in Worker
                 PROVE  /\ pc'[v] \in {"exec", "registered"} => state'[cur[v]] = "RUNNING"
                        /\ pc'[v] = "back" => state'[cur[v]] \in {"RUNNING", "READY", "END"}
      BY <1>2 DEF ExecutingState
    <2>1. CASE v = w
      BY <1>2, <1>4, <2>1
    <2>2. CASE v # w /\ pc[v] \in Executing
      <3>1. cur[v] \in Fiber /\ cur[v] # f
        BY <1>1, <2>2 DEF Inv, TypeOK, HoldersKnown
      <3> QED BY <1>2, <1>4, <2>2, <3>1 DEF Inv, ExecutingState
    <2>3. CASE v # w /\ pc[v] \notin Executing
      BY <1>2, <2>3 DEF Executing
    <2> QED BY <2>1, <2>2, <2>3
  <1>10. Registered'
    <2> SUFFICES ASSUME NEW v \in Worker, NEW g \in Fiber, cur[v] = g, claim'[g] \/ Queued(g)'
                 PROVE  pc'[v] \in {"registered", "back"} /\ state'[g] = "RUNNING"
      BY <1>2 DEF Registered
    <2>1. CASE g = f
      BY <1>1, <1>2, <1>6, <2>1
    <2>2. CASE g # f
      BY <1>2, <1>4, <1>5, <2>2 DEF Inv, Registered
    <2> QED BY <2>1, <2>2
  <1>11. YieldsRegistered'
    <2> SUFFICES ASSUME NEW v \in Worker, NEW g \in Fiber, cur[v] = g,
                        pc'[v] = "registered" \/ (pc'[v] = "back" /\ state'[g] = "RUNNING")
                 PROVE  claim'[g] \/ Queued(g)'
      BY <1>2 DEF YieldsRegistered
    <2>1. CASE g = f
      BY <1>1, <1>4, <1>6, <2>1
    <2>2. CASE g # f
      BY <1>2, <1>4, <1>5, <2>2 DEF Inv, YieldsRegistered
    <2> QED BY <2>1, <2>2
  <1>12. Kept'
    <2> SUFFICES ASSUME NEW g \in Fiber, state'[g] # "END", ~claim'[g], ~Queued(g)'
                 PROVE  Held(g)'
      BY DEF Kept
    <2>1. CASE g = f
      BY <1>2, <2>1 DEF Held
    <2>2. CASE g # f
      BY <1>2, <1>4, <1>5, <2>2 DEF Inv, Kept, Held
    <2> QED BY <2>1, <2>2
  <1>13. RootWaits'
    BY <1>2 DEF Inv, RootWaits
  <1> QED BY <1>5, <1>7, <1>8, <1>9, <1>10, <1>11, <1>12, <1>13 DEF Rest

LEMMA ScheduleStep ==
    ASSUME Inv, NEW c \in Caller, NEW f \in Fiber, NEW thread \in Worker \cup {AnyThread},
           Schedule(c, f, thread)
    PROVE  Rest'
  <1>1. Push(f, thread) /\ ~Queued(f) /\ claim[f]
    BY DEF Schedule, Inv, ClaimedOrQueued
  <1>2. Distinct' /\ \A g \in Fiber : Queued(g)' <=> Queued(g) \/ g = f
    BY <1>1, PushQueue DEF Inv, TypeOK
  <1>3. /\ pc' = pc /\ cur' = cur /\ state' = state /\ stopped' = stopped
        /\ ~claim'[f] /\ \A g \in Fiber : g # f => claim'[g] = claim[g]
    BY DEF Schedule, workVars, Inv, TypeOK
  <1>4. \A g \in Fiber : (claim[g] \/ Queued(g)) <=> (claim'[g] \/ Queued(g)')
    BY <1>1, <1>2, <1>3
  <1>5. ClaimedOrQueued' /\ HoldersKnown' /\ OneHolder' /\ ExecutingState' /\ RootWaits'
    BY <1>2, <1>3 DEF Inv, ClaimedOrQueued, HoldersKnown, OneHolder, ExecutingState, RootWaits
  <1>6. Registered' /\ YieldsRegistered'
    BY <1>3, <1>4 DEF Inv, Registered, YieldsRegistered
  <1>7. Kept'
    BY <1>3, <1>4 DEF Inv, Kept, Held
  <1> QED BY <1>2, <1>5, <1>6, <1>7 DEF Rest

LEMMA StopStep ==
    ASSUME Inv, Stop
    PROVE  Rest'
  <1>1. /\ fibers' = fibers /\ state' = state /\ claim' = claim /\ cur' = cur /\ stopped'
        /\ \A v \in Worker : v # Root => pc'[v] = pc[v]
        /\ Root \in Worker => pc'[Root] \in {"exit", "scan"}
    BY DEF Stop, fiberVars
  <1>2. Root \in Worker => pc[Root] = "unborn" /\ cur[Root] = None
    BY DEF Stop, Inv, RootWaits, HoldersKnown, Holding
  <1>3. \A g : (Queued(g)' <=> Queued(g)) /\ (Held(g)' <=> Held(g))
    BY <1>1 DEF Queued, Held
  <1>4. Distinct' /\ ClaimedOrQueued' /\ OneHolder' /\ Kept' /\ RootWaits'
    BY <1>1, <1>3 DEF Inv, Distinct, ClaimedOrQueued, OneHolder, Kept, RootWaits
  <1>5. HoldersKnown' /\ ExecutingState'
    BY <1>1, <1>2 DEF Inv, HoldersKnown, ExecutingState, Executing
  <1>6. Registered' /\ YieldsRegistered'
    BY <1>1, <1>2, <1>3, SchedulerAssumption
       DEF Inv, Registered, YieldsRegistered, SchedulerAssumption
  <1> QED BY <1>4, <1>5, <1>6 DEF Rest

\* Nothing the invariant speaks of changes.
LEMMA Untouched ==
    ASSUME Inv, UNCHANGED <<fibers, state, claim, cur, pc, stopped>>
    PROVE  Rest'
  <1>1. \A g : (Queued(g)' <=> Queued(g)) /\ (Held(g)' <=> Held(g))
    BY DEF Queued, Held
  <1> QED BY <1>1 DEF Inv, Rest, Distinct, ClaimedOrQueued, HoldersKnown, OneHolder,
                      ExecutingState, Registered, YieldsRegistered, Kept, RootWaits

LEMMA RunLoopStep ==
    ASSUME Inv, NEW w \in Worker, RunStep(w)
    PROVE  Rest'
  <1>1. CASE \E i \in DOMAIN fibers : ScanTakes(w, i)
    BY <1>1, ScanTakesStep
  <1>2. CASE SwapIn(w)
    BY <1>2, SwapInStep
  <1>3. CASE Back(w)
    <2>1. cur[w] \in Fiber
      BY <1>3 DEF Back, Inv, TypeOK, HoldersKnown, Executing
    <2> QED BY <1>3, <2>1, BackStep
  <1>4. CASE ScanFindsNothing(w)
    <2>1. cur[w] # None => FALSE
      BY <1>4 DEF ScanFindsNothing, Inv, HoldersKnown, Holding
    <2> QED BY <1>4, <2>1, QuietStep DEF ScanFindsNothing, fiberVars, Executing, WorkerState
  <1>5. CASE RunTickle(w)
    BY <1>5, QuietStep DEF RunTickle, fiberVars, Executing, Holding, WorkerState
  <1>6. CASE GoIdle(w)
    BY <1>6, QuietStep DEF GoIdle, fiberVars, Executing, WorkerState
  <1>13. CASE LeaveRun(w)
    <2>1. PICK s \in {"exit", "stale"} : pc' = [pc EXCEPT ![w] = s]
      BY <1>13 DEF LeaveRun
    <2> QED BY <1>13, <2>1, QuietStep DEF LeaveRun, fiberVars, Executing, WorkerState
  <1>7. cur[w] = None \/ pc[w] \in Holding
    BY DEF Inv, HoldersKnown
  <1>8. CASE BackTickle(w)
    BY <1>7, <1>8, QuietStep DEF BackTickle, fiberVars, Executing, Holding, WorkerState
  <1>9. CASE Idle(w)
    <2>1. PICK s \in {"scan", "asleep"} : pc' = [pc EXCEPT ![w] = s]
      BY <1>9 DEF Idle
    <2> QED BY <1>7, <1>9, <2>1, QuietStep DEF Idle, fiberVars, Executing, Holding, WorkerState
  <1>10. CASE WakeByTickle(w)
    BY <1>7, <1>10, QuietStep DEF WakeByTickle, fiberVars, Executing, Holding, WorkerState
  <1>11. CASE WakeByTimeout(w)
    BY <1>7, <1>11, QuietStep DEF WakeByTimeout, fiberVars, Executing, Holding, WorkerState
  <1>12. CASE LeaveIdle(w)
    BY <1>7, <1>12, QuietStep DEF LeaveIdle, fiberVars, Executing, Holding, WorkerState
  <1> QED BY <1>1, <1>2, <1>3, <1>4, <1>5, <1>6, <1>8, <1>9, <1>10, <1>11, <1>12, <1>13 DEF RunStep

LEMMA InvStep == Inv /\ [Next]_vars => Inv'
  <1> SUFFICES ASSUME Inv, [Next]_vars PROVE Inv'
    OBVIOUS
  <1>1. TypeOK'
    BY TypeStep DEF Inv
  <1>2. Rest'
    <2>1. ASSUME NEW w \in Worker, FiberStep(w)
          PROVE  Rest'
      <3>1. pc[w] \in Executing
        BY <2>1 DEF FiberStep, Finish, YieldToReady, Register, SwitchTo, YieldToHold, Executing
      <3>2. cur[w] \in Fiber
        BY <3>1 DEF Inv, HoldersKnown, TypeOK
      <3> QED BY <2>1, <3>2, ExecuteStep
    <2>2. ASSUME NEW w \in Worker, WakeByEvent(w)
          PROVE  Rest'
      <3>1. cur[w] = None
        BY <2>2 DEF WakeByEvent, Inv, HoldersKnown, Holding
      <3> QED BY <2>2, <3>1, QuietStep DEF WakeByEvent, fiberVars, Executing, WorkerState
    <2>3. ASSUME NEW c \in Caller, CallerStep(c)
          PROVE  Rest'
      <3>1. CASE ScheduleTickle(c)
        BY <3>1, Untouched DEF ScheduleTickle, fiberVars, workVars
      <3> QED BY <2>3, <3>1, ScheduleStep DEF CallerStep
    <2>4. CASE UNCHANGED vars
      BY <2>4, Untouched DEF vars, fiberVars, workVars
    <2>5. ASSUME NEW f \in Fiber, ArmCallback(f) \/ DropCallback(f)
          PROVE  Rest'
      BY <2>5, Untouched DEF ArmCallback, DropCallback, fiberVars, workVars
    <2> QED BY <2>1, <2>2, <2>3, <2>4, <2>5, RunLoopStep, StopStep DEF Next
  <1> QED BY <1>1, <1>2 DEF Inv, Rest

THEOREM Invariance == Spec => []Inv
  BY InvInit, InvStep, PTL DEF Spec

-----------------------------------------------------------------------------
(* What the invariant is for. *)

\* Every variable of run() and schedule() keeps its type.
THEOREM TypeCorrect == Spec => []TypeOK
  <1>1. Inv => TypeOK
    BY DEF Inv
  <1> QED BY <1>1, Invariance, PTL

\* run() never lets two threads execute one fiber, although a fiber may be
\* scheduled while it still runs: the scan skips it as long as it is RUNNING.
THEOREM RunsOnce == Spec => []NoDoubleRun
  <1>1. Inv => NoDoubleRun
    BY DEF Inv, HoldersKnown, OneHolder, NoDoubleRun
  <1> QED BY <1>1, Invariance, PTL

\* schedule() and run() neither lose a fiber nor put it into m_fibers twice.
THEOREM FiberHasOnePlace == Spec => []OnePlace
  <1>1. Inv => OnePlace
    BY DEF Inv, Distinct, ClaimedOrQueued, Registered, Kept, OnePlace
  <1> QED BY <1>1, Invariance, PTL

-----------------------------------------------------------------------------
(* stop() with use_caller.  The thread that calls it leaves run() only when *)
(* its idle fiber has seen stopping(), and from then on nobody is left who  *)
(* could schedule: there is no other worker, and this one runs no fiber.    *)

AtRest == stopped /\ fibers = <<>> /\ counted = {}

Drained ==
    Root \in Worker /\ (idleEnd[Root] \/ RunEnded(Root)) =>
        /\ Worker = {Root} /\ AtRest
        /\ cur[Root] = None /\ pc[Root] \in {"scan", "tickle", "enter", "exit", "stale"}

\* stopping() counts the threads start() made: none is left but the caller.
LEMMA StoppingAlone ==
    ASSUME Stopping, Root \in Worker
    PROVE  Worker = {Root} /\ AtRest
  <1>1. IsFiniteSet(Worker \ {Root})
    BY SchedulerAssumption, FS_Subset DEF SchedulerAssumption
  <1>2. Worker \ {Root} = {}
    BY <1>1, FS_EmptySet DEF Stopping, ThreadCount
  <1> QED BY <1>2 DEF Stopping, AtRest

\* Nobody schedules any more, and the scan finds nothing.
LEMMA DrainedStays ==
    ASSUME ~External, Inv, Drained, Root \in Worker, idleEnd[Root] \/ RunEnded(Root), [Next]_vars
    PROVE  Drained'
  <1>1. /\ Worker = {Root} /\ AtRest
        /\ cur[Root] = None /\ pc[Root] \in {"scan", "tickle", "enter", "exit", "stale"}
    BY DEF Drained
  <1>2. fibers = <<>> /\ DOMAIN fibers = {} /\ stopped
    BY <1>1 DEF AtRest
  <1>3. ~Acting /\ \A f \in Fiber : ~MayCall(f)
    BY <1>1, <1>2 DEF MayCall, Acting
  <1> SUFFICES ASSUME UNCHANGED <<fibers, counted, cur, stopped>>,
                      pc'[Root] \in {"scan", "tickle", "enter", "exit", "stale"}
               PROVE  Drained'
    <2>1. ASSUME NEW w \in Worker, RunStep(w)
          PROVE  UNCHANGED <<fibers, counted, cur, stopped>> /\ pc'[Root] \in {"scan", "tickle", "enter", "exit", "stale"}
      <3>1. w = Root /\ (pc[w] = "enter" => idleEnd[w])
        BY <1>1, <2>1 DEF RunEnded
      <3>2. ScanFindsNothing(w) \/ RunTickle(w) \/ LeaveRun(w)
        BY <1>1, <1>2, <2>1, <3>1 DEF RunStep, ScanTakes, SwapIn, GoIdle, Back, BackTickle, Idle, WakeByTickle, WakeByTimeout, LeaveIdle
      <3> QED BY <1>1, <3>1, <3>2 DEF ScanFindsNothing, RunTickle, LeaveRun, Inv, TypeOK, fiberVars
    <2>2. ASSUME NEW w \in Worker, FiberStep(w) \/ WakeByEvent(w)
          PROVE  FALSE
      BY <1>1, <2>2 DEF FiberStep, Finish, YieldToReady, Register, SwitchTo, YieldToHold, WakeByEvent
    <2>3. ASSUME NEW c \in Caller, CallerStep(c)
          PROVE  UNCHANGED <<fibers, counted, cur, pc, stopped>>
      BY <1>3, <2>3 DEF CallerStep, Schedule, ScheduleTickle, fiberVars, workVars
    <2>4. ~Stop
      BY <1>2 DEF Stop
    <2>5. CASE UNCHANGED vars
      BY <1>1, <2>5 DEF vars, fiberVars, workVars
    <2>6. ASSUME NEW f \in Fiber PROVE ~ArmCallback(f) /\ ~DropCallback(f)
      BY <1>3 DEF ArmCallback, DropCallback
    <2> QED BY <1>1, <2>1, <2>2, <2>3, <2>4, <2>5, <2>6 DEF Next
  <1> QED BY <1>1 DEF Drained, AtRest

LEMMA DrainedStarts ==
    ASSUME Inv, Root \in Worker, ~idleEnd[Root], ~RunEnded(Root), [Next]_vars
    PROVE  Drained'
  <1> SUFFICES ASSUME idleEnd'[Root] \/ RunEnded(Root)'
               PROVE  Drained'
    BY DEF Drained
  <1>1. CASE Idle(Root)
    <2>1. Stopping /\ pc'[Root] = "scan"
      BY <1>1 DEF Idle, Inv, TypeOK, RunEnded
    <2>2. cur[Root] = None
      BY <1>1 DEF Idle, Inv, HoldersKnown, Holding
    <2>3. Worker = {Root} /\ AtRest
      BY <2>1, StoppingAlone
    <2> QED BY <1>1, <2>1, <2>2, <2>3 DEF Idle, Drained, AtRest, fiberVars
  <1>2. CASE Stop
    <2>0. pc[Root] = "unborn" /\ cur[Root] = None
      BY <1>2 DEF Stop, Inv, RootWaits, HoldersKnown, Holding
    <2>1. pc'[Root] = "exit" /\ Stopping'
      BY <1>2 DEF Stop, RunEnded
    <2>2. Worker = {Root} /\ AtRest'
      <3>1. IsFiniteSet(Worker \ {Root})
        BY SchedulerAssumption, FS_Subset DEF SchedulerAssumption
      <3>2. Worker \ {Root} = {}
        BY <2>1, <3>1, FS_EmptySet DEF Stopping, ThreadCount
      <3> QED BY <2>1, <3>2 DEF Stopping, AtRest
    <2> QED BY <1>2, <2>0, <2>1, <2>2 DEF Stop, Drained
  <1>3. CASE ~Idle(Root) /\ ~Stop
    <2>1. ASSUME NEW w \in Worker, RunStep(w)
          PROVE  idleEnd'[Root] = idleEnd[Root] /\ ~RunEnded(Root)'
      <3>1. CASE w = Root
        BY <1>3, <2>1, <3>1 DEF RunStep, ScanTakes, ScanFindsNothing, RunTickle, SwapIn, GoIdle, LeaveRun, Back,
                                BackTickle, WakeByTickle, WakeByTimeout, LeaveIdle, Inv, TypeOK, RunEnded
      <3>2. CASE w # Root
        BY <2>1, <3>2 DEF RunStep, ScanTakes, ScanFindsNothing, RunTickle, SwapIn, GoIdle, LeaveRun, Back,
                          BackTickle, Idle, WakeByTickle, WakeByTimeout, LeaveIdle, Inv, TypeOK, RunEnded
      <3> QED BY <3>1, <3>2
    <2>2. ASSUME NEW w \in Worker, FiberStep(w) \/ WakeByEvent(w)
          PROVE  idleEnd'[Root] = idleEnd[Root] /\ ~RunEnded(Root)'
      BY <2>2 DEF FiberStep, Finish, YieldToReady, Register, SwitchTo, YieldToHold, WakeByEvent, Inv, TypeOK, RunEnded
    <2>3. ASSUME NEW c \in Caller, CallerStep(c)
          PROVE  idleEnd'[Root] = idleEnd[Root] /\ ~RunEnded(Root)'
      BY <2>3 DEF CallerStep, Schedule, ScheduleTickle, workVars, RunEnded
    <2>4. CASE UNCHANGED vars
      BY <2>4 DEF vars, workVars, RunEnded
    <2>5. ASSUME NEW f \in Fiber, ArmCallback(f) \/ DropCallback(f)
          PROVE  idleEnd'[Root] = idleEnd[Root] /\ ~RunEnded(Root)'
      BY <2>5 DEF ArmCallback, DropCallback, workVars, RunEnded
    <2> QED BY <1>3, <2>1, <2>2, <2>3, <2>4, <2>5 DEF Next
  <1> QED BY <1>1, <1>2, <1>3

\* run() on the calling thread ends with an empty list, no timer and no event
\* pending, and every started fiber has ended or waits on a semaphore, whatever
\* fibers did before: no thread outside schedules meanwhile.
THEOREM StopLeavesNothing == ~External /\ Spec => []StopDrains
  <1> SUFFICES ASSUME ~External PROVE Spec => []StopDrains
    OBVIOUS
  <1>1. Init => Drained
    <2> SUFFICES ASSUME Init, Root \in Worker PROVE ~idleEnd[Root] /\ pc[Root] = "unborn"
      BY DEF Drained, RunEnded
    <2> QED BY DEF Init
  <1>2. Inv /\ Drained /\ [Next]_vars => Drained'
    <2> SUFFICES ASSUME Inv, Drained, [Next]_vars, Root \in Worker PROVE Drained'
      BY DEF Drained
    <2> QED BY DrainedStays, DrainedStarts
  <1>3. Inv /\ Drained => StopDrains
    <2> SUFFICES ASSUME Inv, Drained, Root \in Worker, RunEnded(Root)
                 PROVE  StopDrains
      BY DEF StopDrains
    <2>1. Worker = {Root} /\ AtRest /\ cur[Root] = None
      BY DEF Drained
    <2>2. \A f \in Fiber : ~Queued(f) /\ ~Held(f)
      BY <2>1, SchedulerAssumption DEF AtRest, Queued, Held, SchedulerAssumption
    <2> QED BY <2>1, <2>2 DEF AtRest, Inv, Kept, StopDrains
  <1> QED BY <1>1, <1>2, <1>3, Invariance, PTL DEF Spec

-----------------------------------------------------------------------------
(* The refinement of FiberService, step by step. *)

\* A fiber that has ended is nobody's, except the thread's that comes back
\* from it: it never gets into the list again.
EndedGone ==
    \A f \in Fiber : state[f] = "END" =>
        /\ ~claim[f] /\ ~Queued(f)
        /\ \A w \in Worker : cur[w] = f => pc[w] = "back"

\* The refinement mapping.
Runs == {cur[w] : w \in {v \in Worker : pc[v] \in Executing}}
Waits == {f \in Fiber :
             \/ Queued(f)
             \/ \E w \in Worker : cur[w] = f /\ pc[w] \in {"tickle", "enter"}
             \/ \E w \in Worker : cur[w] = f /\ pc[w] = "back" /\ state[f] = "READY"}
Parked == {f \in Fiber : claim[f]}
Gone == {f \in Fiber : state[f] = "END" /\ ~Held(f)}

\* Where a fiber held by worker w is in the abstract service.
LEMMA HeldPlace ==
    ASSUME Inv, NEW w \in Worker, NEW f \in Fiber, cur[w] = f
    PROVE  /\ f \in Runs <=> pc[w] \in Executing
           /\ f \in Waits <=> Queued(f) \/ pc[w] \in {"tickle", "enter"}
                                        \/ (pc[w] = "back" /\ state[f] = "READY")
           /\ f \notin Gone /\ f # None
  <1>1. f # None /\ \A v \in Worker : cur[v] = f => v = w
    BY SchedulerAssumption DEF SchedulerAssumption, Inv, OneHolder
  <1> QED BY <1>1 DEF Runs, Waits, Gone, Held

LEMMA HeldPlaceNext ==
    ASSUME Inv', NEW w \in Worker, NEW f \in Fiber, cur'[w] = f
    PROVE  /\ f \in Runs' <=> pc'[w] \in Executing
           /\ f \in Waits' <=> Queued(f)' \/ pc'[w] \in {"tickle", "enter"}
                                         \/ (pc'[w] = "back" /\ state'[f] = "READY")
           /\ f \notin Gone'
  <1>1. f # None /\ \A v \in Worker : cur'[v] = f => v = w
    BY SchedulerAssumption DEF SchedulerAssumption, Inv, OneHolder
  <1> QED BY <1>1 DEF Runs, Waits, Gone, Held

LEMMA RunsAreFibers ==
    ASSUME Inv, Inv'
    PROVE  Runs \subseteq Fiber /\ Runs' \subseteq Fiber
  BY DEF Runs, Inv, TypeOK, HoldersKnown

\* A step changes the service only where it changes the place of a fiber.
LEMMA SamePlace ==
    ASSUME Inv, Inv', NEW f \in Fiber,
           state'[f] = state[f], Queued(f)' <=> Queued(f),
           \A w \in Worker : cur'[w] = f <=> cur[w] = f,
           \A w \in Worker : cur[w] = f => pc'[w] = pc[w]
    PROVE  /\ f \in Runs' <=> f \in Runs
           /\ f \in Waits' <=> f \in Waits
           /\ f \in Gone' <=> f \in Gone
  BY DEF Runs, Waits, Gone, Held

\* The service in terms of the mapping.
LEMMA ServiceMap ==
    ASSUME NEW f \in Fiber
    PROVE  /\ Service!vars = <<Runs, Waits, Parked, Gone>>
           /\ f \in Parked /\ Parked' = Parked \ {f} /\ Waits' = Waits \cup {f}
              /\ Runs' = Runs /\ Gone' = Gone => Service!Wake(f)
           /\ f \in Waits /\ f \notin Runs /\ Waits' = Waits \ {f} /\ Runs' = Runs \cup {f}
              /\ Parked' = Parked /\ Gone' = Gone => Service!Run(f)
           /\ f \in Runs /\ f \notin Parked \cup Waits /\ Runs' = Runs /\ Gone' = Gone
              /\ (\/ Parked' = Parked \cup {f} /\ Waits' = Waits
                  \/ Waits' = Waits \cup {f} /\ Parked' = Parked) => Service!Register(f)
           /\ f \in Runs /\ f \in Parked \cup Waits /\ Runs' = Runs \ {f}
              /\ Waits' = Waits /\ Parked' = Parked /\ Gone' = Gone => Service!Leave(f)
           /\ f \in Runs /\ f \notin Parked \cup Waits /\ Runs' = Runs \ {f}
              /\ Gone' = Gone \cup {f} /\ Waits' = Waits /\ Parked' = Parked => Service!End(f)
  <1>1. Service!vars = <<Runs, Waits, Parked, Gone>>
    BY DEF Service!vars, Runs, Waits, Parked, Gone
  <1>2. f \in Parked /\ Parked' = Parked \ {f} /\ Waits' = Waits \cup {f}
        /\ Runs' = Runs /\ Gone' = Gone => Service!Wake(f)
    BY Zenon DEF Service!Wake, Runs, Waits, Parked, Gone
  <1>3. f \in Waits /\ f \notin Runs /\ Waits' = Waits \ {f} /\ Runs' = Runs \cup {f}
        /\ Parked' = Parked /\ Gone' = Gone => Service!Run(f)
    BY Zenon DEF Service!Run, Runs, Waits, Parked, Gone
  <1>4. f \in Runs /\ f \notin Parked \cup Waits /\ Runs' = Runs /\ Gone' = Gone
        /\ (\/ Parked' = Parked \cup {f} /\ Waits' = Waits
            \/ Waits' = Waits \cup {f} /\ Parked' = Parked) => Service!Register(f)
    BY Zenon DEF Service!Register, Runs, Waits, Parked, Gone
  <1>5. f \in Runs /\ f \in Parked \cup Waits /\ Runs' = Runs \ {f}
        /\ Waits' = Waits /\ Parked' = Parked /\ Gone' = Gone => Service!Leave(f)
    BY Zenon DEF Service!Leave, Runs, Waits, Parked, Gone
  <1>6. f \in Runs /\ f \notin Parked \cup Waits /\ Runs' = Runs \ {f}
        /\ Gone' = Gone \cup {f} /\ Waits' = Waits /\ Parked' = Parked => Service!End(f)
    BY Zenon DEF Service!End, Runs, Waits, Parked, Gone
  <1> QED BY <1>1, <1>2, <1>3, <1>4, <1>5, <1>6

\* One fiber moves, the others keep their places.
LEMMA OthersStay ==
    ASSUME Inv, Inv', NEW f \in Fiber,
           \A g \in Fiber : g # f =>
               /\ state'[g] = state[g] /\ claim'[g] = claim[g]
               /\ Queued(g)' <=> Queued(g)
               /\ \A w \in Worker : cur'[w] = g <=> cur[w] = g
               /\ \A w \in Worker : cur[w] = g => pc'[w] = pc[w]
    PROVE  \A g \in Fiber : g # f =>
               /\ g \in Runs' <=> g \in Runs
               /\ g \in Waits' <=> g \in Waits
               /\ g \in Parked' <=> g \in Parked
               /\ g \in Gone' <=> g \in Gone
  <1> SUFFICES ASSUME NEW g \in Fiber, g # f
               PROVE  /\ g \in Runs' <=> g \in Runs
                      /\ g \in Waits' <=> g \in Waits
                      /\ g \in Parked' <=> g \in Parked
                      /\ g \in Gone' <=> g \in Gone
    OBVIOUS
  <1>1. /\ g \in Runs' <=> g \in Runs
        /\ g \in Waits' <=> g \in Waits
        /\ g \in Gone' <=> g \in Gone
    BY SamePlace
  <1>2. g \in Parked' <=> g \in Parked
    BY DEF Parked
  <1> QED BY <1>1, <1>2

\* So each of the four sets changes by that fiber at most.
LEMMA Places ==
    ASSUME Inv, Inv', NEW f \in Fiber,
           \A g \in Fiber : g # f =>
               /\ g \in Runs' <=> g \in Runs
               /\ g \in Waits' <=> g \in Waits
               /\ g \in Parked' <=> g \in Parked
               /\ g \in Gone' <=> g \in Gone
    PROVE  /\ (f \in Runs' <=> f \in Runs) => Runs' = Runs
           /\ f \in Runs' => Runs' = Runs \cup {f}
           /\ f \notin Runs' => Runs' = Runs \ {f}
           /\ (f \in Waits' <=> f \in Waits) => Waits' = Waits
           /\ f \in Waits' => Waits' = Waits \cup {f}
           /\ f \notin Waits' => Waits' = Waits \ {f}
           /\ (f \in Parked' <=> f \in Parked) => Parked' = Parked
           /\ f \in Parked' => Parked' = Parked \cup {f}
           /\ f \notin Parked' => Parked' = Parked \ {f}
           /\ (f \in Gone' <=> f \in Gone) => Gone' = Gone
           /\ f \in Gone' => Gone' = Gone \cup {f}
  <1>1. /\ Runs \subseteq Fiber /\ Runs' \subseteq Fiber
    BY RunsAreFibers
  <1>2. /\ Waits \subseteq Fiber /\ Waits' \subseteq Fiber
        /\ Parked \subseteq Fiber /\ Parked' \subseteq Fiber
        /\ Gone \subseteq Fiber /\ Gone' \subseteq Fiber
    BY DEF Waits, Parked, Gone
  <1>3. /\ (f \in Runs' <=> f \in Runs) => Runs' = Runs
        /\ f \in Runs' => Runs' = Runs \cup {f}
        /\ f \notin Runs' => Runs' = Runs \ {f}
    BY <1>1
  <1>4. /\ (f \in Waits' <=> f \in Waits) => Waits' = Waits
        /\ f \in Waits' => Waits' = Waits \cup {f}
        /\ f \notin Waits' => Waits' = Waits \ {f}
    BY <1>2
  <1>5. /\ (f \in Parked' <=> f \in Parked) => Parked' = Parked
        /\ f \in Parked' => Parked' = Parked \cup {f}
        /\ f \notin Parked' => Parked' = Parked \ {f}
    BY <1>2
  <1>6. /\ (f \in Gone' <=> f \in Gone) => Gone' = Gone
        /\ f \in Gone' => Gone' = Gone \cup {f}
    BY <1>2
  <1> QED BY <1>3, <1>4, <1>5, <1>6

\* A step of the abstract service, or none.
ServiceStep ==
    \/ \E f \in Fiber : Service!Wake(f) \/ Service!Run(f) \/ Service!Register(f)
                                        \/ Service!Leave(f) \/ Service!End(f)
    \/ UNCHANGED <<Runs, Waits, Parked, Gone>>

\* Only the program counter of one worker moves.
LEMMA QuietRefines ==
    ASSUME Inv, Inv', EndedGone, UNCHANGED <<fibers, state, claim, cur>>,
           \A w \in Worker : cur[w] # None =>
               \/ pc'[w] = pc[w]
               \/ pc[w] = "tickle" /\ pc'[w] = "enter"
               \/ pc[w] = "registered" /\ pc'[w] = "back"
    PROVE  ServiceStep /\ EndedGone'
  <1>1. \A g : (Queued(g)' <=> Queued(g)) /\ (Held(g)' <=> Held(g))
    BY DEF Queued, Held
  <1>2. \A w \in Worker : /\ pc'[w] \in Executing <=> pc[w] \in Executing
                          /\ cur[w] # None /\ pc[w] = "back" => pc'[w] = "back"
    BY DEF Inv, HoldersKnown, Executing
  <1>3. Runs' = Runs
    BY <1>2 DEF Runs
  <1>4. Waits' = Waits
    <2>1. \A g \in Fiber : g # None
      BY SchedulerAssumption DEF SchedulerAssumption
    <2>2. ASSUME NEW g \in Fiber, NEW w \in Worker, cur[w] = g
          PROVE  /\ pc'[w] \in {"tickle", "enter"} <=> pc[w] \in {"tickle", "enter"}
                 /\ pc'[w] = "back" /\ state[g] = "READY" <=> pc[w] = "back" /\ state[g] = "READY"
      BY <2>1, <2>2 DEF Inv, ExecutingState
    <2> QED BY <1>1, <2>2 DEF Waits
  <1>5. Parked' = Parked /\ Gone' = Gone
    BY <1>1 DEF Parked, Gone
  <1>6. EndedGone'
    BY <1>1, <1>2, SchedulerAssumption DEF EndedGone, SchedulerAssumption
  <1> QED BY <1>3, <1>4, <1>5, <1>6 DEF ServiceStep

\* run() takes a fiber from the list: it was to be run and still is.
LEMMA ScanTakesRefines ==
    ASSUME Inv, Inv', EndedGone, NEW w \in Worker, NEW i \in DOMAIN fibers, ScanTakes(w, i)
    PROVE  ServiceStep /\ EndedGone'
  <1>0. fibers[i].fiber \in Fiber
    <2>1. fibers[i] \in Entry
      BY DEF Inv, TypeOK
    <2> QED BY <2>1 DEF Entry
  <1> SUFFICES ASSUME NEW f \in Fiber, f = fibers[i].fiber
               PROVE  ServiceStep /\ EndedGone'
    BY <1>0, Zenon
  <1>1. /\ state' = state /\ claim' = claim /\ cur' = [cur EXCEPT ![w] = f]
        /\ pc[w] = "scan" /\ pc' = [pc EXCEPT ![w] = "tickle"]
        /\ fibers' = Without(fibers, i)
    BY DEF ScanTakes, fiberVars
  <1>2. cur[w] = None
    BY <1>1 DEF Inv, HoldersKnown, Holding
  <1>3. \A g \in Fiber : Queued(g)' <=> Queued(g) /\ g # f
    BY <1>1, TakeQueue DEF Inv, TypeOK
  <1>4. Queued(f) /\ state[f] # "END"
    BY DEF Queued, EndedGone
  <1>5. ~Held(f)
    BY <1>4 DEF ScanTakes, IsFirst, Eligible, Inv, Registered, Held
  <1>6. /\ cur'[w] = f /\ pc'[w] = "tickle"
        /\ \A v \in Worker : v # w => cur'[v] = cur[v] /\ pc'[v] = pc[v]
    BY <1>1 DEF Inv, TypeOK
  <1>7. \A g \in Fiber : g # f =>
            /\ state'[g] = state[g] /\ claim'[g] = claim[g]
            /\ Queued(g)' <=> Queued(g)
            /\ \A v \in Worker : cur'[v] = g <=> cur[v] = g
            /\ \A v \in Worker : cur[v] = g => pc'[v] = pc[v]
    BY <1>1, <1>2, <1>3, <1>6, SchedulerAssumption DEF SchedulerAssumption
  <1>8. \A g \in Fiber : g # f =>
            /\ g \in Runs' <=> g \in Runs
            /\ g \in Waits' <=> g \in Waits
            /\ g \in Parked' <=> g \in Parked
            /\ g \in Gone' <=> g \in Gone
    BY <1>7, OthersStay
  <1>9. f \notin Runs /\ f \in Waits /\ f \notin Gone
    BY <1>4, <1>5 DEF Runs, Waits, Gone, Held
  <1>10. f \notin Runs' /\ f \in Waits' /\ f \notin Gone'
    BY <1>6, HeldPlaceNext DEF Executing
  <1>11. Runs' = Runs /\ Waits' = Waits /\ Gone' = Gone
    BY <1>8, <1>9, <1>10, Places
  <1>12. Parked' = Parked
    BY <1>1 DEF Parked
  <1>13. EndedGone'
    BY <1>1, <1>3, <1>4, <1>6 DEF EndedGone
  <1> QED BY <1>11, <1>12, <1>13 DEF ServiceStep

\* swapIn(): the fiber runs, and was not running on another thread.
LEMMA SwapInRefines ==
    ASSUME Inv, Inv', EndedGone, NEW w \in Worker, NEW f \in Fiber, cur[w] = f, SwapIn(w)
    PROVE  ServiceStep /\ EndedGone'
  <1>1. pc[w] = "enter" /\ state[f] # "END"
    BY DEF SwapIn, EndedGone
  <1>2. /\ state' = [state EXCEPT ![f] = "RUNNING"] /\ pc' = [pc EXCEPT ![w] = "exec"]
        /\ UNCHANGED <<cur, fibers, claim>>
    BY <1>1 DEF SwapIn
  <1>3. /\ pc'[w] = "exec" /\ \A v \in Worker : v # w => pc'[v] = pc[v]
        /\ state'[f] = "RUNNING" /\ \A g \in Fiber : g # f => state'[g] = state[g]
        /\ \A g : Queued(g)' <=> Queued(g)
    BY <1>2 DEF Inv, TypeOK, Queued
  <1>4. \A g \in Fiber : g # f =>
            /\ state'[g] = state[g] /\ claim'[g] = claim[g]
            /\ Queued(g)' <=> Queued(g)
            /\ \A v \in Worker : cur'[v] = g <=> cur[v] = g
            /\ \A v \in Worker : cur[v] = g => pc'[v] = pc[v]
    BY <1>2, <1>3
  <1>5. \A g \in Fiber : g # f =>
            /\ g \in Runs' <=> g \in Runs
            /\ g \in Waits' <=> g \in Waits
            /\ g \in Parked' <=> g \in Parked
            /\ g \in Gone' <=> g \in Gone
    BY <1>4, OthersStay
  <1>6. ~claim[f] /\ ~Queued(f)
    BY <1>1 DEF Inv, Registered
  <1>7. f \notin Runs /\ f \in Waits /\ f \notin Gone
    BY <1>1, HeldPlace DEF Executing
  <1>8. f \in Runs' /\ f \notin Waits' /\ f \notin Gone'
    BY <1>2, <1>3, <1>6, HeldPlaceNext DEF Executing
  <1>9. Runs' = Runs \cup {f} /\ Waits' = Waits \ {f} /\ Gone' = Gone
    BY <1>5, <1>7, <1>8, Places
  <1>10. Parked' = Parked
    BY <1>2 DEF Parked
  <1>11. Service!Run(f)
    BY <1>7, <1>9, <1>10, ServiceMap
  <1>12. EndedGone'
    BY <1>2, <1>3 DEF EndedGone
  <1> QED BY <1>11, <1>12 DEF ServiceStep

\* Back from swapIn(): the fiber leaves with its next turn arranged, or for good.
LEMMA BackRefines ==
    ASSUME Inv, Inv', EndedGone, NEW w \in Worker, NEW f \in Fiber, cur[w] = f, Back(w)
    PROVE  ServiceStep /\ EndedGone'
  <1>1. /\ pc[w] = "back" /\ claim' = claim
        /\ IF state[f] = "READY" THEN Push(f, AnyThread) ELSE UNCHANGED fibers
        /\ state' = IF state[f] = "RUNNING" THEN [state EXCEPT ![f] = "HOLD"] ELSE state
        /\ cur' = [cur EXCEPT ![w] = None] /\ pc' = [pc EXCEPT ![w] = "tickleAfter"]
    BY DEF Back
  <1>2. f # None /\ \A v \in Worker : v # w => cur[v] # f
    BY OwnFiber, SchedulerAssumption DEF SchedulerAssumption
  <1>3. /\ cur'[w] = None /\ pc'[w] = "tickleAfter"
        /\ \A v \in Worker : v # w => cur'[v] = cur[v] /\ pc'[v] = pc[v]
        /\ state'[f] = IF state[f] = "RUNNING" THEN "HOLD" ELSE state[f]
        /\ \A g \in Fiber : g # f => state'[g] = state[g]
    BY <1>1 DEF Inv, TypeOK
  <1>4. \A g \in Fiber : Queued(g)' <=> Queued(g) \/ (g = f /\ state[f] = "READY")
    <2>1. CASE state[f] = "READY"
      <3>1. ~Queued(f)
        BY <2>1 DEF Inv, Registered
      <3> QED BY <1>1, <2>1, <3>1, PushQueue DEF Inv, TypeOK
    <2>2. CASE state[f] # "READY"
      BY <1>1, <2>2 DEF Queued
    <2> QED BY <2>1, <2>2
  <1>5. \A g \in Fiber : g # f =>
            /\ state'[g] = state[g] /\ claim'[g] = claim[g]
            /\ Queued(g)' <=> Queued(g)
            /\ \A v \in Worker : cur'[v] = g <=> cur[v] = g
            /\ \A v \in Worker : cur[v] = g => pc'[v] = pc[v]
    BY <1>1, <1>3, <1>4, SchedulerAssumption DEF SchedulerAssumption
  <1>6. \A g \in Fiber : g # f =>
            /\ g \in Runs' <=> g \in Runs
            /\ g \in Waits' <=> g \in Waits
            /\ g \in Parked' <=> g \in Parked
            /\ g \in Gone' <=> g \in Gone
    BY <1>5, OthersStay
  <1>7. f \in Runs /\ f \notin Gone /\ (f \in Waits <=> Queued(f) \/ state[f] = "READY")
    BY <1>1, HeldPlace DEF Executing
  <1>8. \A v \in Worker : cur'[v] # f
    BY <1>2, <1>3
  <1>9. f \notin Runs' /\ (f \in Waits' <=> Queued(f)') /\ (f \in Gone' <=> state'[f] = "END")
    BY <1>8 DEF Runs, Waits, Gone, Held
  <1>10. Runs' = Runs \ {f} /\ Waits' = Waits /\ Parked' = Parked
    <2>1. f \in Waits' <=> f \in Waits
      BY <1>4, <1>7, <1>9
    <2> QED BY <1>1, <1>6, <1>9, <2>1, Places DEF Parked
  <1>11. ASSUME state[f] = "END"
         PROVE  ServiceStep
    <2>1. f \notin Parked \cup Waits
      BY <1>7, <1>11 DEF EndedGone, Parked
    <2>2. Gone' = Gone \cup {f}
      BY <1>3, <1>6, <1>9, <1>11, Places
    <2> QED BY <1>7, <1>10, <2>1, <2>2, ServiceMap DEF ServiceStep
  <1>12. ASSUME state[f] # "END"
         PROVE  ServiceStep
    <2>1. f \in Parked \cup Waits
      BY <1>1, <1>7, <1>12 DEF Inv, ExecutingState, YieldsRegistered, Parked
    <2>2. Gone' = Gone
      BY <1>3, <1>6, <1>7, <1>9, <1>12, Places
    <2> QED BY <1>7, <1>10, <2>1, <2>2, ServiceMap DEF ServiceStep
  <1>13. EndedGone'
    <2> SUFFICES ASSUME NEW g \in Fiber, state'[g] = "END"
                 PROVE  /\ ~claim'[g] /\ ~Queued(g)'
                        /\ \A v \in Worker : cur'[v] = g => pc'[v] = "back"
      BY DEF EndedGone
    <2>1. state[g] = "END"
      BY <1>3
    <2>2. ~claim[g] /\ ~Queued(g) /\ \A v \in Worker : cur[v] = g => pc[v] = "back"
      BY <2>1 DEF EndedGone
    <2>3. ~claim'[g] /\ ~Queued(g)'
      BY <1>1, <1>4, <2>1, <2>2
    <2> QED BY <1>5, <1>8, <2>2, <2>3
  <1> QED BY <1>11, <1>12, <1>13

\* The fiber that runs ends (the service sees it when its thread is back), puts
\* itself up to be run again, or hands out a claim on itself.
LEMMA ExecuteRefines ==
    ASSUME Inv, Inv', EndedGone, NEW w \in Worker, NEW f \in Fiber, cur[w] = f, FiberStep(w)
    PROVE  ServiceStep /\ EndedGone'
  <1>1. CASE YieldToHold(w)
    <2>1. \A v \in Worker : pc'[v] = pc[v] \/ (pc[v] = "registered" /\ pc'[v] = "back")
      BY <1>1 DEF YieldToHold, Inv, TypeOK
    <2> QED BY <1>1, <2>1, QuietRefines DEF YieldToHold, fiberVars
  <1>2. CASE Finish(w) \/ YieldToReady(w) \/ Register(w) \/ \E thread \in Worker : SwitchTo(w, thread)
    <2>1. /\ pc[w] = "exec" /\ cur' = cur
          /\ \A v \in Worker : v # w => pc'[v] = pc[v]
          /\ \A g \in Fiber : g # f => state'[g] = state[g] /\ claim'[g] = claim[g]
      BY <1>2 DEF Finish, YieldToReady, Register, SwitchTo, Inv, TypeOK, fiberVars
    <2>2. state[f] = "RUNNING" /\ ~claim[f] /\ ~Queued(f)
      BY <2>1 DEF Inv, ExecutingState, Registered
    <2>3. \/ Finish(w) /\ state'[f] = "END" /\ pc'[w] = "back" /\ ~claim'[f] /\ fibers' = fibers
          \/ YieldToReady(w) /\ state'[f] = "READY" /\ pc'[w] = "back" /\ ~claim'[f] /\ fibers' = fibers
          \/ Register(w) /\ state'[f] = "RUNNING" /\ pc'[w] = "registered" /\ claim'[f] /\ fibers' = fibers
          \/ /\ state'[f] = "RUNNING" /\ pc'[w] = "registered" /\ ~claim'[f]
             /\ \E thread \in Worker : Push(f, thread)
      BY <1>2, <2>2 DEF Finish, YieldToReady, Register, SwitchTo, Inv, TypeOK, fiberVars
    <2>4. /\ \A g \in Fiber : g # f => (Queued(g)' <=> Queued(g))
          /\ fibers' = fibers => ~Queued(f)'
          /\ (\E thread \in Worker : Push(f, thread)) => Queued(f)'
      <3>1. ASSUME fibers' = fibers
            PROVE  \A g : Queued(g)' <=> Queued(g)
        BY <3>1 DEF Queued
      <3>2. ASSUME NEW thread \in Worker, Push(f, thread)
            PROVE  \A g \in Fiber : Queued(g)' <=> Queued(g) \/ g = f
        BY <2>2, <3>2, PushQueue DEF Inv, TypeOK
      <3> QED BY <2>2, <2>3, <3>1, <3>2
    <2>5. \A g \in Fiber : g # f =>
              /\ state'[g] = state[g] /\ claim'[g] = claim[g]
              /\ Queued(g)' <=> Queued(g)
              /\ \A v \in Worker : cur'[v] = g <=> cur[v] = g
              /\ \A v \in Worker : cur[v] = g => pc'[v] = pc[v]
      BY <2>1, <2>4
    <2>6. \A g \in Fiber : g # f =>
              /\ g \in Runs' <=> g \in Runs
              /\ g \in Waits' <=> g \in Waits
              /\ g \in Parked' <=> g \in Parked
              /\ g \in Gone' <=> g \in Gone
      BY <2>5, OthersStay
    <2>7. f \in Runs /\ f \notin Waits /\ f \notin Gone /\ f \notin Parked
      BY <2>1, <2>2, HeldPlace DEF Executing, Parked
    <2>8. /\ f \in Runs' /\ f \notin Gone' /\ (f \in Parked' <=> claim'[f])
          /\ f \in Waits' <=> Queued(f)' \/ (pc'[w] = "back" /\ state'[f] = "READY")
      BY <2>1, <2>3, HeldPlaceNext DEF Executing, Parked
    <2>9. Runs' = Runs /\ Gone' = Gone
      BY <2>6, <2>7, <2>8, Places
    <2>10. \/ f \notin Parked' /\ f \notin Waits'
           \/ f \in Parked' /\ f \notin Waits'
           \/ f \notin Parked' /\ f \in Waits'
      BY <2>3, <2>4, <2>8
    <2>11. \/ Parked' = Parked /\ Waits' = Waits
           \/ Parked' = Parked \cup {f} /\ Waits' = Waits
           \/ Waits' = Waits \cup {f} /\ Parked' = Parked
      BY <2>6, <2>7, <2>10, Places
    <2>12. ServiceStep
      BY <2>7, <2>9, <2>11, ServiceMap DEF ServiceStep
    <2>13. state'[f] = "END" => ~claim'[f] /\ ~Queued(f)' /\ pc'[w] = "back"
      BY <2>3, <2>4
    <2>14. EndedGone'
      <3> SUFFICES ASSUME NEW g \in Fiber, state'[g] = "END"
                   PROVE  /\ ~claim'[g] /\ ~Queued(g)'
                          /\ \A v \in Worker : cur'[v] = g => pc'[v] = "back"
        BY DEF EndedGone
      <3>1. CASE g = f
        <4>1. \A v \in Worker : cur[v] = f => v = w
          BY SchedulerAssumption DEF SchedulerAssumption, Inv, OneHolder
        <4> QED BY <2>1, <2>13, <3>1, <4>1
      <3>2. CASE g # f
        BY <2>5, <3>2 DEF EndedGone
      <3> QED BY <3>1, <3>2
    <2> QED BY <2>12, <2>14
  <1> QED BY <1>1, <1>2 DEF FiberStep

\* schedule(): whoever has a claim on the fiber makes it runnable.
LEMMA ScheduleRefines ==
    ASSUME Inv, Inv', EndedGone, NEW c \in Caller, NEW f \in Fiber,
           NEW thread \in Worker \cup {AnyThread}, Schedule(c, f, thread)
    PROVE  ServiceStep /\ EndedGone'
  <1>1. /\ Push(f, thread) /\ ~Queued(f) /\ claim[f] /\ ~claim'[f]
        /\ \A g \in Fiber : g # f => claim'[g] = claim[g]
        /\ UNCHANGED <<state, pc, cur>>
    BY DEF Schedule, workVars, Inv, ClaimedOrQueued, TypeOK
  <1>2. \A g \in Fiber : Queued(g)' <=> Queued(g) \/ g = f
    BY <1>1, PushQueue DEF Inv, TypeOK
  <1>3. \A g \in Fiber : g # f =>
            /\ g \in Runs' <=> g \in Runs
            /\ g \in Waits' <=> g \in Waits
            /\ g \in Parked' <=> g \in Parked
            /\ g \in Gone' <=> g \in Gone
    BY <1>1, <1>2, OthersStay
  <1>4. Runs' = Runs /\ Gone' = Gone
    BY <1>1 DEF Runs, Gone, Held
  <1>5. f \in Parked /\ f \notin Parked' /\ f \in Waits'
    BY <1>1, <1>2 DEF Parked, Waits
  <1>6. Parked' = Parked \ {f} /\ Waits' = Waits \cup {f}
    BY <1>3, <1>5, Places
  <1>7. Service!Wake(f)
    BY <1>4, <1>5, <1>6, ServiceMap
  <1>8. EndedGone'
    <2> SUFFICES ASSUME NEW g \in Fiber, state'[g] = "END"
                 PROVE  /\ ~claim'[g] /\ ~Queued(g)'
                        /\ \A v \in Worker : cur'[v] = g => pc'[v] = "back"
      BY DEF EndedGone
    <2>1. ~claim[g] /\ ~Queued(g) /\ \A v \in Worker : cur[v] = g => pc[v] = "back"
      BY <1>1 DEF EndedGone
    <2>2. g # f
      BY <1>1, <2>1
    <2> QED BY <1>1, <1>2, <2>1, <2>2
  <1> QED BY <1>7, <1>8 DEF ServiceStep

\* The rest of run() does not concern the service.
LEMMA RunRefines ==
    ASSUME Inv, Inv', EndedGone, NEW w \in Worker, RunStep(w)
    PROVE  ServiceStep /\ EndedGone'
  <1>1. CASE \E i \in DOMAIN fibers : ScanTakes(w, i)
    BY <1>1, ScanTakesRefines
  <1>2. CASE SwapIn(w)
    <2>1. cur[w] \in Fiber
      BY <1>2 DEF SwapIn, Inv, TypeOK
    <2> QED BY <1>2, <2>1, SwapInRefines
  <1>3. CASE Back(w)
    <2>1. cur[w] \in Fiber
      BY <1>3 DEF Back, Inv, TypeOK, HoldersKnown, Executing
    <2> QED BY <1>3, <2>1, BackRefines
  <1>4. CASE RunTickle(w)
    <2>1. \A v \in Worker : pc'[v] = pc[v] \/ (pc[v] = "tickle" /\ pc'[v] = "enter")
      BY <1>4 DEF RunTickle, Inv, TypeOK
    <2> QED BY <1>4, <2>1, QuietRefines DEF RunTickle, fiberVars
  <1>5. CASE \/ ScanFindsNothing(w) \/ GoIdle(w) \/ LeaveRun(w) \/ BackTickle(w) \/ Idle(w)
             \/ WakeByTickle(w) \/ WakeByTimeout(w) \/ LeaveIdle(w)
    <2>1. /\ UNCHANGED <<fibers, state, claim, cur>>
          /\ \A v \in Worker : v # w => pc'[v] = pc[v]
      BY <1>5 DEF ScanFindsNothing, GoIdle, LeaveRun, BackTickle, Idle, WakeByTickle, WakeByTimeout,
                  LeaveIdle, Inv, TypeOK, fiberVars
    <2>2. pc[w] \notin Holding \/ cur[w] = None
      BY <1>5 DEF ScanFindsNothing, GoIdle, LeaveRun, BackTickle, Idle, WakeByTickle, WakeByTimeout,
                  LeaveIdle, Holding
    <2>3. cur[w] = None
      BY <2>2 DEF Inv, HoldersKnown
    <2> QED BY <2>1, <2>3, QuietRefines
  <1> QED BY <1>1, <1>2, <1>3, <1>4, <1>5 DEF RunStep

LEMMA StepRefines ==
    ASSUME Inv, Inv', EndedGone, [Next]_vars
    PROVE  ServiceStep /\ EndedGone'
  <1>1. ASSUME NEW w \in Worker, FiberStep(w)
        PROVE  ServiceStep /\ EndedGone'
    <2>1. pc[w] \in Executing
      BY <1>1 DEF FiberStep, Finish, YieldToReady, Register, SwitchTo, YieldToHold, Executing
    <2>2. cur[w] \in Fiber
      BY <2>1 DEF Inv, HoldersKnown, TypeOK
    <2> QED BY <1>1, <2>2, ExecuteRefines
  <1>2. ASSUME NEW w \in Worker, WakeByEvent(w)
        PROVE  ServiceStep /\ EndedGone'
    <2>1. cur[w] = None /\ \A v \in Worker : v # w => pc'[v] = pc[v]
      BY <1>2 DEF WakeByEvent, Inv, TypeOK, HoldersKnown, Holding
    <2> QED BY <1>2, <2>1, QuietRefines DEF WakeByEvent, fiberVars
  <1>3. ASSUME NEW c \in Caller, CallerStep(c)
        PROVE  ServiceStep /\ EndedGone'
    <2>1. CASE ScheduleTickle(c)
      BY <2>1, QuietRefines DEF ScheduleTickle, fiberVars, workVars
    <2> QED BY <1>3, <2>1, ScheduleRefines DEF CallerStep
  <1>4. CASE Stop
    <2>1. \A v \in Worker : v # Root => pc'[v] = pc[v]
      BY <1>4 DEF Stop
    <2>2. Root \in Worker => cur[Root] = None
      BY <1>4 DEF Stop, Inv, RootWaits, HoldersKnown, Holding
    <2> QED BY <1>4, <2>1, <2>2, QuietRefines DEF Stop, fiberVars
  <1>5. CASE UNCHANGED vars
    BY <1>5, QuietRefines DEF vars, fiberVars, workVars
  <1>6. ASSUME NEW f \in Fiber, ArmCallback(f) \/ DropCallback(f)
        PROVE  ServiceStep /\ EndedGone'
    BY <1>6, QuietRefines DEF ArmCallback, DropCallback, fiberVars, workVars
  <1> QED BY <1>1, <1>2, <1>3, <1>4, <1>5, <1>6, RunRefines DEF Next

\* The list, the workers and the tickles together are a FiberService: every
\* step of run(), schedule() and stop() is one of its steps, or none.  (That
\* what is runnable is run at last is checked with TLC.)
THEOREM KeepsPromise == Spec => Service!Promise
  <1>1. Init => Service!Init /\ EndedGone
    <2> SUFFICES ASSUME Init PROVE Service!Init /\ EndedGone
      OBVIOUS
    <2>1. \A f \in Fiber : ~Queued(f) /\ ~Held(f) /\ claim[f] /\ state[f] = "INIT"
      BY SchedulerAssumption DEF Init, Queued, Held, SchedulerAssumption
    <2>2. Runs = {} /\ Waits = {} /\ Gone = {} /\ Parked = Fiber
      <3>1. Runs = {}
        BY DEF Init, Runs, Executing
      <3> QED BY <2>1, <3>1 DEF Waits, Gone, Parked, Held
    <2>3. Service!Init
      BY <2>2, Zenon DEF Service!Init, Runs, Waits, Gone, Parked
    <2> QED BY <2>1, <2>3 DEF EndedGone
  <1>2. Inv /\ Inv' /\ EndedGone /\ [Next]_vars => EndedGone'
    BY StepRefines
  <1>3. ServiceStep => [Service!Next]_(Service!vars)
    BY Zenon DEF ServiceStep, Service!Next, Service!vars, Runs, Waits, Parked, Gone
  <1>4. Inv /\ Inv' /\ EndedGone /\ [Next]_vars => [Service!Next]_(Service!vars)
    BY <1>3, StepRefines
  <1> QED BY <1>1, <1>2, <1>4, Invariance, PTL DEF Spec, Service!Promise

=============================================================================
