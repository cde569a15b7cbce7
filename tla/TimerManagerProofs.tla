------------------------- MODULE TimerManagerProofs -------------------------
(***************************************************************************)
(* Proofs about TimerManager, for any sets of timers, workers and callers  *)
(* and any values of the bounds: its variables have their types, m_timers  *)
(* agrees with the callbacks (so that find() in cancel() succeeds), the    *)
(* subtraction in reset() does not wrap, and no timer expires early.       *)
(***************************************************************************)
EXTENDS TimerManager, WellFoundedInduction, TLAPS

Inserting(t) == \E c \in Caller : at[c] = "insert" /\ arg[c] = t

\* The types, with what they rest on: m_next is never below m_ms, or reset()
\* would store a wrapped number, and a caller inside addTimer has a timer.
TypeInv ==
    /\ TypeOK
    /\ StartNotNegative
    /\ \A c \in Caller : at[c] # "out" => arg[c] \in Timer

\* The inductive invariant behind HeapConsistent.  A timer under construction
\* has its callback but is not in m_timers yet; nobody else knows it.
HeapInv ==
    /\ \A c, d \in Caller : at[c] = "insert" /\ c # d => arg[c] # arg[d]
    /\ \A t \in Timer : Inserting(t) => hasCb[t] /\ ~shared[t]
    /\ \A e \in timers : hasCb[e[2]] /\ e = Entry(e[2]) /\ ~Inserting(e[2])
    /\ \A t \in Timer : hasCb[t] /\ ~Inserting(t) => Found(t)

\* The inductive invariant behind NoEarlyExpiry: a stored or held reading of
\* the clock is not ahead of the clock plus what it was set back, and a reading
\* in use is at most Stale old.
ClockInv ==
    /\ previous <= clock + back
    /\ \A w \in Worker : pc[w] = "collect" =>
           now[w] <= clock + back /\ clock <= now[w] + Stale

-----------------------------------------------------------------------------
(* The ordered set has a first element, and epoll_wait a sane timeout. *)

\* A nonempty set of numbers has a smallest one (what begin() rests on).
LEMMA LeastNat ==
    ASSUME NEW S \in SUBSET Nat, S # {}
    PROVE  \E n \in S : \A m \in S : n <= m
<1> DEFINE R == OpToRel(<, Nat)
<1>1. IsWellFoundedOn(R, Nat)
  BY NatLessThanWellFounded
<1>2. PICK n \in S : \A m \in S : <<m, n>> \notin R
  <2> HIDE DEF R
  <2>1. S \subseteq Nat
    OBVIOUS
  <2>2. QED
    BY ONLY <1>1, <2>1, WFMin, S # {}
<1>3. \A m \in S : ~(m < n)
  BY <1>2 DEF OpToRel
<1>4. QED
  BY <1>3

\* A nonempty m_timers has a begin(): the smallest m_next, then the smallest
\* address.
LEMMA BeginExists ==
    ASSUME NEW S \in SUBSET (Nat \X Nat), S # {}
    PROVE  Begin(S) \in S /\ IsBegin(Begin(S), S)
<1> DEFINE Keys == {e[1] : e \in S}
<1>1. PICK n \in Keys : \A m \in Keys : n <= m
  BY LeastNat, Keys \in SUBSET Nat, Keys # {}
<1> DEFINE Ties == {e[2] : e \in {f \in S : f[1] = n}}
<1>2. PICK k \in Ties : \A m \in Ties : k <= m
  BY LeastNat, Ties \in SUBSET Nat, Ties # {}
<1>3. <<n, k>> \in S
  BY <1>1, <1>2
<1>4. ASSUME NEW o \in S
      PROVE  o = <<n, k>> \/ Comparator(<<n, k>>, o)
  <2>1. n <= o[1] /\ n \in Nat /\ k \in Nat
    BY <1>1, <1>2
  <2>2. CASE o[1] = n
    <3>1. k <= o[2]
      BY <2>2, <1>2
    <3>2. QED
      BY <3>1, <2>1, <2>2 DEF Comparator
  <2>3. QED
    BY <2>1, <2>2 DEF Comparator
<1>5. IsBegin(<<n, k>>, S)
  BY <1>4 DEF IsBegin
<1>6. QED
  BY <1>3, <1>5 DEF Begin

\* getNextTimer returns a number.
LEMMA NextTimerType == TypeOK => NextTimer \in Int
<1> SUFFICES ASSUME TypeOK PROVE NextTimer \in Int
  OBVIOUS
<1>1. CASE timers = {}
  BY <1>1 DEF NextTimer, Infinite
<1>2. CASE timers # {}
  <2>1. timers \in SUBSET (Nat \X Nat)
    BY TimerAssumption DEF TypeOK
  <2>0. Begin(timers) \in Nat \X Nat
    BY <1>2, <2>1, BeginExists
  <2>2. clock \in Nat
    BY DEF TypeOK
  <2>3. QED
    BY <1>2, <2>0, <2>2 DEF NextTimer
<1>3. QED
  BY <1>1, <1>2

\* The argument of epoll_wait is negative or between 0 and MAX_TIMEOUT, whatever
\* the (int) cast makes of a timer far in the future.
LEMMA EpollTimeoutType ==
    ASSUME NEW n \in Int
    PROVE  EpollTimeout(n) \in {Infinite} \cup 0 .. MaxTimeout
<1>1. CASE n = Infinite \/ AsInt(n) > MaxTimeout
  BY <1>1, TimerAssumption DEF EpollTimeout
<1>2. CASE ~(n = Infinite \/ AsInt(n) > MaxTimeout)
  <2>1. n % (2 * IntLimit) \in Int
    BY TimerAssumption
  <2>2. AsInt(n) \in Int
    BY <2>1, TimerAssumption DEF AsInt
  <2>3. QED
    BY <1>2, <2>2, TimerAssumption DEF EpollTimeout
<1>3. QED
  BY <1>1, <1>2

-----------------------------------------------------------------------------
(* Types. *)

LEMMA TypeInit == Init => TypeInv
<1> SUFFICES ASSUME Init PROVE TypeInv
  OBVIOUS
<1>1. TypeOK
  <2>1. tickled \in BOOLEAN /\ bytes \in BOOLEAN /\ edge \in BOOLEAN
    BY DEF Init
  <2>2. left \in [Worker -> {Infinite} \cup 0 .. MaxTimeout]
    BY TimerAssumption DEF Init, Infinite
  <2>3. timers \subseteq Nat \X Timer /\ previous \in Nat
    BY TimerAssumption DEF Init
  <2>4. QED
    BY <2>1, <2>2, <2>3, TimerAssumption DEF Init, TypeOK, WorkerState, CallerState, NoTimer
<1>2. StartNotNegative /\ \A c \in Caller : at[c] # "out" => arg[c] \in Timer
  BY DEF Init, StartNotNegative
<1>3. QED
  BY <1>1, <1>2 DEF TypeInv

\* Every action keeps the types and m_next >= m_ms.
LEMMA TypeStep == TypeInv /\ [Next]_vars => TypeInv'
<1> SUFFICES ASSUME TypeInv, [Next]_vars PROVE TypeInv'
  OBVIOUS
<1> USE TimerAssumption DEF TypeInv, TypeOK, StartNotNegative, WorkerState, CallerState
<1>1. ASSUME NEW c \in Caller, NEW t \in Timer, NEW m \in Delay, NEW r \in BOOLEAN, NewTimer(c, t, m, r)
      PROVE  TypeInv'
  BY <1>1 DEF NewTimer, clockVars, workVars, pipeVars
<1>2. ASSUME NEW c \in Caller, InsertTimer(c)
      PROVE  TypeInv'
  <2>1. arg[c] \in Timer /\ Entry(arg[c]) \in Nat \X Timer
    BY <1>2 DEF InsertTimer, Entry
  <2>2. tickled' \in BOOLEAN
    BY <1>2, Zenon DEF InsertTimer, InsertLocked
  <2>3. QED
    BY <1>2, <2>1, <2>2 DEF InsertTimer, InsertLocked, NoTimer, clockVars, workVars, pipeVars
<1>3. ASSUME NEW c \in Caller, OnTimerInsertedAtFront(c)
      PROVE  TypeInv'
  BY <1>3 DEF OnTimerInsertedAtFront, Tickle, NoTimer, clockVars, workVars, pipeVars
<1>4. ASSUME NEW c \in Caller, NEW t \in Timer, Cancel(c, t)
      PROVE  TypeInv'
  BY <1>4 DEF Cancel, clockVars, workVars, pipeVars, callVars
<1>5. ASSUME NEW c \in Caller, NEW t \in Timer, Refresh(c, t)
      PROVE  TypeInv'
  BY <1>5 DEF Refresh, clockVars, workVars, pipeVars, callVars
<1>6. ASSUME NEW c \in Caller, NEW t \in Timer, NEW m \in Delay, NEW b \in BOOLEAN, Reset(c, t, m, b)
      PROVE  TypeInv'
  <2> DEFINE start == IF b THEN clock ELSE next[t] - ms[t]
  <2>1. start \in Nat /\ m \in Nat
    OBVIOUS
  <2>2. tickled' \in BOOLEAN
    BY <1>6, Zenon DEF Reset, InsertLocked
  <2>3. /\ next' = [next EXCEPT ![t] = start + m]
        /\ timers' = (timers \ {Entry(t)}) \cup {<<start + m, t>>}
        /\ ms' = [ms EXCEPT ![t] = m]
    BY <1>6 DEF Reset, InsertLocked
  <2> HIDE DEF start
  <2>4. next' \in [Timer -> Nat] /\ timers' \subseteq Nat \X Timer /\ ms' \in [Timer -> Nat]
        /\ \A u \in Timer : next'[u] >= ms'[u]
    BY <2>1, <2>3
  <2>5. at' \in [Caller -> CallerState] /\ arg' \in [Caller -> Timer \cup {NoTimer}]
        /\ \A d \in Caller : at'[d] # "out" => arg'[d] \in Timer
    BY <1>6 DEF Reset, InsertLocked, NoTimer
  <2>6. QED
    BY <1>6, <2>2, <2>4, <2>5 DEF Reset, clockVars, workVars, pipeVars
<1>7. ASSUME NEW w \in Worker, GoIdle(w)
      PROVE  TypeInv'
  BY <1>7 DEF GoIdle, clockVars, timerVars, callVars, pipeVars
<1>8. ASSUME NEW w \in Worker, Sleep(w)
      PROVE  TypeInv'
  <2>1. EpollTimeout(NextTimer) \in {Infinite} \cup 0 .. MaxTimeout
    BY NextTimerType, EpollTimeoutType
  <2>2. QED
    BY <1>8, <2>1 DEF Sleep, clockVars, timerVars, callVars, pipeVars
<1>9. ASSUME NEW w \in Worker, WakeByTickle(w)
      PROVE  TypeInv'
  <2>1. edge' \in BOOLEAN /\ bytes' \in BOOLEAN
    BY <1>9, Zenon DEF WakeByTickle
  <2>2. left' \in [Worker -> {Infinite} \cup 0 .. MaxTimeout] /\ pc' \in [Worker -> WorkerState]
    BY <1>9 DEF WakeByTickle, Infinite
  <2>3. took' \in [Worker -> BOOLEAN]
    BY <1>9, Zenon DEF WakeByTickle
  <2>4. QED
    BY <1>9, <2>1, <2>2, <2>3 DEF WakeByTickle, clockVars, timerVars, callVars
<1>10. ASSUME NEW w \in Worker, WakeByTimeout(w) \/ WakeByEvent(w)
      PROVE  TypeInv'
  BY <1>10 DEF WakeByTimeout, WakeByEvent, clockVars, timerVars, callVars, pipeVars, Infinite
<1>11. ASSUME NEW w \in Worker, ReadNow(w)
      PROVE  TypeInv'
  BY <1>11 DEF ReadNow, clockVars, timerVars, callVars, pipeVars
<1>12. ASSUME NEW w \in Worker, ListExpiredCb(w)
      PROVE  TypeInv'
  <2> DEFINE gone == {e[2] : e \in Expired(w)}
             again == {t \in gone : recurring[t]}
  <2>1. gone \subseteq Timer /\ again \subseteq Timer /\ Expired(w) \subseteq timers
    BY DEF Expired
  <2> HIDE DEF gone
  <2>2. next' = [t \in Timer |-> IF t \in again THEN now[w] + ms[t] ELSE next[t]]
    BY <1>12 DEF ListExpiredCb, gone
  <2>3. next' \in [Timer -> Nat] /\ \A t \in Timer : next'[t] >= ms[t]
    BY <2>2
  <2>4. timers' = (timers \ Expired(w)) \cup {<<now[w] + ms[t], t>> : t \in again}
    BY <1>12 DEF ListExpiredCb, gone
  <2>5. timers' \subseteq Nat \X Timer
    BY <2>1, <2>4
  <2>6. hasCb' \in [Timer -> BOOLEAN]
    BY <1>12, Zenon DEF ListExpiredCb
  <2>7. /\ previous' \in Nat /\ bytes' \in BOOLEAN /\ edge' \in BOOLEAN
        /\ now' \in [Worker -> Nat] /\ pc' \in [Worker -> WorkerState]
    BY <1>12 DEF ListExpiredCb, pipeVars
  <2>8. QED
    BY <1>12, <2>3, <2>5, <2>6, <2>7 DEF ListExpiredCb, clockVars, callVars
<1>13. ASSUME NEW w \in Worker, Drain(w)
      PROVE  TypeInv'
  <2>1. bytes' \in BOOLEAN
    BY <1>13, Zenon DEF Drain
  <2>2. QED
    BY <1>13, <2>1 DEF Drain, clockVars, timerVars, callVars
<1>14. CASE Tick
  BY <1>14 DEF Tick, timerVars, callVars, pipeVars, Infinite
<1>15. ASSUME NEW k \in 1 .. MaxBack, SetBack(k)
      PROVE  TypeInv'
  BY <1>15 DEF SetBack, timerVars, workVars, callVars, pipeVars
<1>16. CASE UNCHANGED vars
  BY <1>16 DEF vars, clockVars, timerVars, workVars, callVars, pipeVars
<1>17. QED
  BY <1>1, <1>2, <1>3, <1>4, <1>5, <1>6, <1>7, <1>8, <1>9, <1>10, <1>11,
     <1>12, <1>13, <1>14, <1>15, <1>16 DEF Next, CallerStep, WorkerStep

\* The variables of the timer service have their types in every reachable state.
THEOREM TypeCorrect == Spec => []TypeOK
<1>1. TypeInv => TypeOK
  BY DEF TypeInv
<1>2. QED
  BY <1>1, TypeInit, TypeStep, PTL DEF Spec

\* reset() without from_now never subtracts m_ms from a smaller m_next.
THEOREM NoWrapInReset == Spec => []StartNotNegative
<1>1. TypeInv => StartNotNegative
  BY DEF TypeInv
<1>2. QED
  BY <1>1, TypeInit, TypeStep, PTL DEF Spec

-----------------------------------------------------------------------------
(* m_timers agrees with the callbacks. *)

\* The actions of the idle loop other than listExpiredCb, and time, leave the
\* timers and the callers alone.
LEMMA HeapFrame ==
    ASSUME HeapInv, UNCHANGED <<timerVars, timers, callVars>>
    PROVE  HeapInv'
BY DEF HeapInv, Inserting, Entry, Found, timerVars, callVars

\* Every action keeps m_timers in agreement with the callbacks.
LEMMA HeapStep == TypeInv /\ HeapInv /\ [Next]_vars => HeapInv'
<1> SUFFICES ASSUME TypeInv, HeapInv, [Next]_vars PROVE HeapInv'
  OBVIOUS
<1> USE DEF TypeInv, TypeOK, HeapInv, Inserting, Entry, Found
<1>1. ASSUME NEW c \in Caller, NEW t \in Timer, NEW m \in Delay, NEW r \in BOOLEAN, NewTimer(c, t, m, r)
      PROVE  HeapInv'
  <2>1. /\ ~shared[t] /\ ~hasCb[t] /\ at[c] = "out"
        /\ \A d \in Caller : arg[d] # t
        /\ \A u \in Timer : next'[u] = IF u = t THEN clock + m ELSE next[u]
        /\ \A u \in Timer : hasCb'[u] = IF u = t THEN TRUE ELSE hasCb[u]
        /\ \A d \in Caller : at'[d] = IF d = c THEN "insert" ELSE at[d]
        /\ \A d \in Caller : arg'[d] = IF d = c THEN t ELSE arg[d]
        /\ timers' = timers /\ shared' = shared
    BY <1>1 DEF NewTimer
  <2>2. \A e \in timers : e[2] \in Timer /\ e[2] # t
    BY <2>1
  <2> HIDE DEF TypeInv
  <2>3. \A u \in Timer : Inserting(u)' <=> (u = t \/ Inserting(u))
    BY <2>1
  <2>4. \A c1, d \in Caller : at'[c1] = "insert" /\ c1 # d => arg'[c1] # arg'[d]
    BY <2>1
  <2>5. ASSUME NEW u \in Timer, Inserting(u)'
        PROVE  hasCb'[u] /\ ~shared'[u]
    <3>1. CASE u = t
      BY <2>1, <3>1
    <3>2. CASE u # t
      <4>1. Inserting(u)
        BY ONLY <2>3, <2>5, <3>2, u \in Timer, Zenon
      <4>2. hasCb[u] /\ ~shared[u]
        BY <4>1
      <4>3. QED
        BY ONLY <2>1, <3>2, <4>2, u \in Timer
    <3>3. QED
      BY <3>1, <3>2
  <2>6. ASSUME NEW e \in timers'
        PROVE  hasCb'[e[2]] /\ e = Entry(e[2])' /\ ~Inserting(e[2])'
    <3>1. e[2] \in Timer /\ e[2] # t /\ hasCb[e[2]] /\ e = <<next[e[2]], e[2]>> /\ ~Inserting(e[2])
      BY <2>1, <2>2
    <3>2. ~Inserting(e[2])'
      BY <2>3, <3>1, Zenon
    <3>3. next'[e[2]] = next[e[2]] /\ hasCb'[e[2]]
      BY <2>1, <3>1
    <3>4. QED
      BY ONLY <3>1, <3>2, <3>3 DEF Entry
  <2>7. ASSUME NEW u \in Timer, hasCb'[u], ~Inserting(u)'
        PROVE  Found(u)'
    <3>1. u # t /\ ~Inserting(u)
      BY <2>3, <2>7, Zenon
    <3>2. hasCb[u] /\ next'[u] = next[u]
      BY <2>1, <2>7, <3>1
    <3>3. <<next[u], u>> \in timers
      BY <3>1, <3>2
    <3>4. QED
      BY ONLY <2>1, <3>2, <3>3 DEF Found, Entry
  <2>8. QED
    BY <2>4, <2>5, <2>6, <2>7
<1>2. ASSUME NEW c \in Caller, InsertTimer(c)
      PROVE  HeapInv'
  <2> DEFINE t == arg[c]
  <2>1. /\ at[c] = "insert" /\ t \in Timer
        /\ timers' = timers \cup {Entry(t)}
        /\ next' = next /\ hasCb' = hasCb
        /\ \A d \in Caller : at'[d] = IF d = c THEN at'[c] ELSE at[d]
        /\ at'[c] \in {"out", "tickle"}
        /\ \A d \in Caller : d # c => arg'[d] = arg[d]
        /\ \A u \in Timer : u # t => shared'[u] = shared[u]
    BY <1>2 DEF InsertTimer, InsertLocked
  <2>2. arg'[c] \in {t, NoTimer}
    BY <1>2 DEF InsertTimer, InsertLocked
  <2>3. \A u \in Timer : Inserting(u)' <=> (u # t /\ Inserting(u))
    BY <2>1
  <2>4. NoTimer \notin Timer
    BY TimerAssumption DEF NoTimer
  <2>5. \A c1, d \in Caller : at'[c1] = "insert" /\ c1 # d => arg'[c1] # arg'[d]
    BY <2>1, <2>2, <2>4
  <2>6. \A e \in timers' : hasCb'[e[2]] /\ e = Entry(e[2])' /\ ~Inserting(e[2])'
    BY <2>1, <2>3
  <2>7. \A u \in Timer : hasCb'[u] /\ ~Inserting(u)' => Found(u)'
    BY <2>1, <2>3
  <2>8. QED
    BY <2>1, <2>3, <2>5, <2>6, <2>7
<1>3. ASSUME NEW c \in Caller, OnTimerInsertedAtFront(c)
      PROVE  HeapInv'
  <2>1. /\ at[c] = "tickle" /\ arg[c] \in Timer
        /\ \A d \in Caller : at'[d] = IF d = c THEN "out" ELSE at[d]
        /\ \A d \in Caller : arg'[d] = IF d = c THEN NoTimer ELSE arg[d]
        /\ \A u \in Timer : shared'[u] = IF u = arg[c] THEN TRUE ELSE shared[u]
        /\ next' = next /\ hasCb' = hasCb /\ timers' = timers
    BY <1>3 DEF OnTimerInsertedAtFront
  <2>2. NoTimer \notin Timer
    BY TimerAssumption DEF NoTimer
  <2>3. \A u \in Timer : Inserting(u)' <=> Inserting(u)
    BY <2>1
  <2>4. ~Inserting(arg[c])
    BY <2>1
  <2>5. \A c1, d \in Caller : at'[c1] = "insert" /\ c1 # d => arg'[c1] # arg'[d]
    BY <2>1, <2>2
  <2>6. \A e \in timers' : hasCb'[e[2]] /\ e = Entry(e[2])' /\ ~Inserting(e[2])'
    BY <2>1, <2>3
  <2>7. \A u \in Timer : hasCb'[u] /\ ~Inserting(u)' => Found(u)'
    BY <2>1, <2>3
  <2>8. ASSUME NEW u \in Timer, Inserting(u)'
        PROVE  hasCb'[u] /\ ~shared'[u]
    <3> HIDE DEF Inserting
    <3>1. Inserting(u) /\ u # arg[c]
      BY ONLY <2>3, <2>4, <2>8, u \in Timer, Zenon
    <3>2. QED
      BY <2>1, <3>1
  <2>9. QED
    BY <2>5, <2>6, <2>7, <2>8
<1>4. ASSUME NEW c \in Caller, NEW t \in Timer, Cancel(c, t)
      PROVE  HeapInv'
  <2>1. /\ shared[t] /\ hasCb[t] /\ next' = next /\ shared' = shared /\ at' = at /\ arg' = arg
        /\ \A u \in Timer : hasCb'[u] = IF u = t THEN FALSE ELSE hasCb[u]
        /\ timers' = timers \ {Entry(t)}
    BY <1>4 DEF Cancel, callVars
  <2>2. ~Inserting(t)
    BY <2>1
  <2>3. \A u \in Timer : Inserting(u)' <=> Inserting(u)
    BY <2>1
  <2>4. \A e \in timers' : hasCb'[e[2]] /\ e = Entry(e[2])' /\ ~Inserting(e[2])'
    <3> SUFFICES ASSUME NEW e \in timers'
                 PROVE  hasCb'[e[2]] /\ e = Entry(e[2])' /\ ~Inserting(e[2])'
      OBVIOUS
    <3>1. e \in timers /\ e # Entry(t)
      BY <2>1
    <3>2. hasCb[e[2]] /\ e[2] \in Timer /\ e = Entry(e[2]) /\ ~Inserting(e[2])
      BY <3>1
    <3>3. e[2] # t
      BY <3>1, <3>2
    <3>4. hasCb'[e[2]] /\ next'[e[2]] = next[e[2]]
      BY <2>1, <3>2, <3>3
    <3>5. QED
      BY <2>3, <3>2, <3>4
  <2>5. \A u \in Timer : hasCb'[u] /\ ~Inserting(u)' => Found(u)'
    BY <2>1, <2>3
  <2>6. \A u \in Timer : Inserting(u)' => hasCb'[u] /\ ~shared'[u]
    BY <2>1, <2>2, <2>3
  <2>7. QED
    BY <2>1, <2>4, <2>5, <2>6
<1>5. ASSUME NEW c \in Caller, NEW t \in Timer, Refresh(c, t)
      PROVE  HeapInv'
  <2>1. /\ shared[t] /\ hasCb[t] /\ hasCb' = hasCb /\ shared' = shared /\ at' = at /\ arg' = arg
        /\ \A u \in Timer : next'[u] = IF u = t THEN clock + ms[t] ELSE next[u]
        /\ timers' = (timers \ {Entry(t)}) \cup {<<clock + ms[t], t>>}
    BY <1>5 DEF Refresh, callVars
  <2>2. ~Inserting(t)
    BY <2>1
  <2>3. QED
    BY <2>1, <2>2
<1>6. ASSUME NEW c \in Caller, NEW t \in Timer, NEW m \in Delay, NEW b \in BOOLEAN, Reset(c, t, m, b)
      PROVE  HeapInv'
  <2> DEFINE n == (IF b THEN clock ELSE next[t] - ms[t]) + m
  <2>1. /\ shared[t] /\ hasCb[t] /\ hasCb' = hasCb /\ shared' = shared /\ at[c] = "out"
        /\ \A u \in Timer : next'[u] = IF u = t THEN n ELSE next[u]
        /\ timers' = (timers \ {Entry(t)}) \cup {<<n, t>>}
        /\ \A d \in Caller : d # c => at'[d] = at[d] /\ arg'[d] = arg[d]
        /\ at'[c] \in {"out", "tickle"}
        /\ arg'[c] \in {t, NoTimer}
    BY <1>6 DEF Reset, InsertLocked
  <2> HIDE DEF n
  <2>2. ~Inserting(t)
    BY <2>1
  <2>3. \A u \in Timer : Inserting(u)' <=> Inserting(u)
    BY <2>1
  <2>4. NoTimer \notin Timer
    BY TimerAssumption DEF NoTimer
  <2>5. \A c1, d \in Caller : at'[c1] = "insert" /\ c1 # d => arg'[c1] # arg'[d]
    BY <2>1, <2>2, <2>4
  <2>6. \A e \in timers' : hasCb'[e[2]] /\ e = Entry(e[2])' /\ ~Inserting(e[2])'
    BY <2>1, <2>2, <2>3
  <2>7. \A u \in Timer : hasCb'[u] /\ ~Inserting(u)' => Found(u)'
    BY <2>1, <2>2, <2>3
  <2>8. QED
    BY <2>1, <2>3, <2>5, <2>6, <2>7
<1>7. ASSUME NEW w \in Worker,
             \/ GoIdle(w) \/ Sleep(w) \/ WakeByTickle(w) \/ WakeByTimeout(w)
             \/ WakeByEvent(w) \/ ReadNow(w) \/ Drain(w)
      PROVE  HeapInv'
  <2>1. UNCHANGED <<timerVars, timers, callVars>>
    BY <1>7 DEF GoIdle, Sleep, WakeByTickle, WakeByTimeout, WakeByEvent, ReadNow, Drain
  <2>2. QED
    BY <2>1, HeapFrame
<1>8. ASSUME NEW w \in Worker, ListExpiredCb(w)
      PROVE  HeapInv'
  <2> DEFINE gone == {e[2] : e \in Expired(w)}
             again == {t \in gone : recurring[t]}
             n(t) == now[w] + ms[t]
  <2>1. /\ \A t \in Timer : next'[t] = IF t \in again THEN n(t) ELSE next[t]
        /\ timers' = (timers \ Expired(w)) \cup {<<n(t), t>> : t \in again}
        /\ shared' = shared /\ at' = at /\ arg' = arg
    BY <1>8 DEF ListExpiredCb, callVars
  <2>2. \A t \in Timer : hasCb'[t] <=> (hasCb[t] /\ t \notin gone \ again)
    BY <1>8, Zenon DEF ListExpiredCb
  <2>3. Expired(w) \subseteq timers /\ gone \subseteq Timer /\ again \subseteq gone
    BY DEF Expired
  <2>4. \A t \in gone : hasCb[t] /\ ~Inserting(t) /\ Entry(t) \in Expired(w)
    BY <2>3
  <2>5. \A t \in Timer : Inserting(t)' <=> Inserting(t)
    BY <2>1
  <2>6. \A e \in timers \ Expired(w) : e[2] \in Timer /\ e[2] \notin gone
    BY <2>4
  <2> HIDE DEF gone, n
  <2>7. \A e \in timers \ Expired(w) : hasCb'[e[2]] /\ e = Entry(e[2])' /\ ~Inserting(e[2])'
    BY <2>1, <2>2, <2>5, <2>6
  <2>8. \A t \in again : hasCb'[t] /\ <<n(t), t>> = Entry(t)' /\ ~Inserting(t)'
    BY <2>1, <2>2, <2>3, <2>4, <2>5
  <2>9. \A e \in timers' : hasCb'[e[2]] /\ e = Entry(e[2])' /\ ~Inserting(e[2])'
    BY <2>1, <2>7, <2>8
  <2>10. \A t \in Timer : hasCb'[t] /\ ~Inserting(t)' => Found(t)'
    <3> SUFFICES ASSUME NEW t \in Timer, hasCb'[t], ~Inserting(t)' PROVE Found(t)'
      OBVIOUS
    <3>1. CASE t \in again
      BY <3>1, <2>1
    <3>2. CASE t \notin again
      <4>1. t \notin gone /\ Entry(t) \in timers
        BY <3>2, <2>2, <2>5
      <4>2. Entry(t) \notin Expired(w)
        BY <4>1 DEF gone
      <4>3. QED
        BY <3>2, <4>1, <4>2, <2>1
    <3>3. QED
      BY <3>1, <3>2
  <2>11. \A t \in Timer : Inserting(t)' => hasCb'[t] /\ ~shared'[t]
    BY <2>1, <2>2, <2>4, <2>5
  <2>12. QED
    BY <2>1, <2>9, <2>10, <2>11
<1>9. CASE Tick \/ \E k \in 1 .. MaxBack : SetBack(k)
  <2>1. UNCHANGED <<timerVars, timers, callVars>>
    BY <1>9 DEF Tick, SetBack
  <2>2. QED
    BY <2>1, HeapFrame
<1>10. CASE UNCHANGED vars
  BY <1>10, HeapFrame DEF vars
<1>11. QED
  BY <1>1, <1>2, <1>3, <1>4, <1>5, <1>6, <1>7, <1>8, <1>9, <1>10
     DEF Next, CallerStep, WorkerStep

\* The find() in cancel() always succeeds: every timer others can reach and
\* that still has a callback is in m_timers, at the place of its m_next.
THEOREM HeapAgrees == Spec => []HeapConsistent
<1>1. Init => HeapInv
  BY DEF Init, HeapInv, Inserting
<1>2. TypeInv /\ HeapInv => HeapConsistent
  BY DEF TypeInv, HeapInv, HeapConsistent
<1>3. QED
  BY <1>1, <1>2, TypeInit, TypeStep, HeapStep, PTL DEF Spec

-----------------------------------------------------------------------------
(* No timer expires early. *)

\* Every action keeps the clock readings in bounds.
LEMMA ClockStep == TypeInv /\ ClockInv /\ [Next]_vars => ClockInv'
<1> SUFFICES ASSUME TypeInv, ClockInv, [Next]_vars PROVE ClockInv'
  OBVIOUS
<1> USE DEF TypeInv, TypeOK, ClockInv
<1>1. ASSUME NEW c \in Caller, CallerStep(c)
      PROVE  ClockInv'
  <2>1. UNCHANGED <<clockVars, previous, workVars>>
    BY <1>1 DEF CallerStep, NewTimer, InsertTimer, OnTimerInsertedAtFront, Cancel, Refresh, Reset
  <2>2. QED
    BY <2>1 DEF clockVars, workVars
<1>2. ASSUME NEW w \in Worker,
             \/ GoIdle(w) \/ Sleep(w) \/ WakeByTickle(w) \/ WakeByTimeout(w) \/ WakeByEvent(w) \/ Drain(w)
      PROVE  ClockInv'
  <2>1. /\ UNCHANGED <<clockVars, previous, now>>
        /\ \E s \in WorkerState \ {"collect"} : pc' = [pc EXCEPT ![w] = s]
    BY <1>2 DEF GoIdle, Sleep, WakeByTickle, WakeByTimeout, WakeByEvent, Drain, WorkerState
  <2>2. QED
    BY <2>1 DEF clockVars
<1>3. ASSUME NEW w \in Worker, ReadNow(w)
      PROVE  ClockInv'
  <2>1. UNCHANGED <<clockVars, previous>>
    BY <1>3 DEF ReadNow
  <2>2. \A v \in Worker : v # w => pc'[v] = pc[v] /\ now'[v] = now[v]
    BY <1>3 DEF ReadNow
  <2>3. pc'[w] = "collect" => now'[w] = clock
    BY <1>3 DEF ReadNow
  <2>4. QED
    BY <2>1, <2>2, <2>3, TimerAssumption DEF clockVars
<1>4. ASSUME NEW w \in Worker, ListExpiredCb(w)
      PROVE  ClockInv'
  <2>1. /\ UNCHANGED clockVars /\ previous' \in {previous, now[w]} /\ pc[w] = "collect"
        /\ \A v \in Worker : v # w => pc'[v] = pc[v] /\ now'[v] = now[v]
        /\ pc'[w] = "drain"
    BY <1>4 DEF ListExpiredCb
  <2>2. QED
    BY <2>1 DEF clockVars
<1>5. CASE Tick
  BY <1>5 DEF Tick
<1>6. ASSUME NEW k \in 1 .. MaxBack, SetBack(k)
      PROVE  ClockInv'
  <2>1. k \in Nat /\ clock' = clock - k /\ back' = back + k /\ UNCHANGED <<previous, now, pc>>
    BY <1>6 DEF SetBack, workVars
  <2>2. clock' + back' = clock + back /\ clock' <= clock
    BY <2>1
  <2>3. \A w \in Worker : now[w] \in Nat /\ (clock <= now[w] + Stale => clock' <= now[w] + Stale)
    BY <2>1, TimerAssumption
  <2>4. QED
    BY <2>1, <2>2, <2>3
<1>7. CASE UNCHANGED vars
  BY <1>7 DEF vars, clockVars, workVars
<1>8. QED
  BY <1>1, <1>2, <1>3, <1>4, <1>5, <1>6, <1>7 DEF Next, WorkerStep

\* No step of a caller moves a worker, nor does the clock.
LEMMA CallerWork ==
    ASSUME NEW c \in Caller, CallerStep(c)
    PROVE  pc' = pc
<1>1. ASSUME NEW t \in Timer, NEW m \in Delay, NEW r \in BOOLEAN, NewTimer(c, t, m, r)
      PROVE  pc' = pc
  BY <1>1 DEF NewTimer, workVars
<1>2. CASE InsertTimer(c)
  BY <1>2 DEF InsertTimer, workVars
<1>3. CASE OnTimerInsertedAtFront(c)
  BY <1>3 DEF OnTimerInsertedAtFront, workVars
<1>4. ASSUME NEW t \in Timer, Cancel(c, t) \/ Refresh(c, t)
      PROVE  pc' = pc
  BY <1>4 DEF Cancel, Refresh, workVars
<1>5. ASSUME NEW t \in Timer, NEW m \in Delay, NEW b \in BOOLEAN, Reset(c, t, m, b)
      PROVE  pc' = pc
  BY <1>5 DEF Reset, workVars
<1>6. QED
  BY <1>1, <1>2, <1>3, <1>4, <1>5 DEF CallerStep

LEMMA OnlyWorkersMove ==
    ASSUME [Next]_vars, pc' # pc
    PROVE  \E w \in Worker : WorkerStep(w) \/ WakeByEvent(w)
<1>1. ~UNCHANGED vars /\ ~Tick /\ \A k \in 1 .. MaxBack : ~SetBack(k)
  BY DEF vars, workVars, Tick, SetBack
<1>2. \A c \in Caller : ~CallerStep(c)
  BY CallerWork, Zenon
<1>3. QED
  BY <1>1, <1>2 DEF Next

\* A timer that listExpiredCb takes out is due on the wall clock, whatever the
\* workers store in m_previouseTime in whatever order, as long as the clock is
\* not set back by more than Hour - Stale.
THEOREM ExpiryNotEarly == Spec => NoEarlyExpiry
<1> DEFINE Early ==
      \A w \in Worker : pc[w] = "collect" /\ pc'[w] = "drain" =>
          \A e \in timers \ timers' : e[1] <= clock + back \/ back + Stale > Hour
<1>1. Init => ClockInv
  BY TimerAssumption DEF Init, ClockInv
<1>2. TypeInv /\ ClockInv /\ [Next]_vars => [Early]_vars
  <2> SUFFICES ASSUME TypeInv, ClockInv, Next, NEW w \in Worker,
                      pc[w] = "collect", pc'[w] = "drain",
                      NEW e \in timers, e \notin timers'
               PROVE  e[1] <= clock + back \/ back + Stale > Hour
    OBVIOUS
  <2> USE DEF TypeInv, TypeOK, ClockInv
  <2>1. ListExpiredCb(w)
    <3>1. \A c \in Caller : ~CallerStep(c)
      BY CallerWork, pc'[w] # pc[w], Zenon
    <3>2. ~Tick /\ \A k \in 1 .. MaxBack : ~SetBack(k)
      BY DEF Tick, SetBack, workVars
    <3>3. \A v \in Worker : v # w => ~(WorkerStep(v) \/ WakeByEvent(v))
      BY DEF WorkerStep, GoIdle, Sleep, WakeByTickle, WakeByTimeout, WakeByEvent, ReadNow, ListExpiredCb, Drain
    <3>4. WorkerStep(w) \/ WakeByEvent(w)
      BY <3>1, <3>2, <3>3 DEF Next
    <3>5. QED
      BY <3>4 DEF WorkerStep, GoIdle, Sleep, WakeByTickle, WakeByTimeout, WakeByEvent, ReadNow, Drain
  <2>2. e \in Expired(w)
    BY <2>1 DEF ListExpiredCb
  <2>3. e[1] \in Nat
    OBVIOUS
  <2>4. CASE DetectClockRollover(w)
    <3>1. now[w] < previous - Hour /\ previous <= clock + back /\ clock <= now[w] + Stale
      BY <2>4 DEF DetectClockRollover
    <3>2. QED
      BY <3>1, TimerAssumption
  <2>5. CASE ~DetectClockRollover(w)
    <3>1. e[1] <= now[w] /\ now[w] <= clock + back
      BY <2>2, <2>5 DEF Expired
    <3>2. QED
      BY <2>3, <3>1
  <2>6. QED
    BY <2>4, <2>5
<1>3. QED
  BY <1>1, <1>2, TypeInit, TypeStep, ClockStep, PTL DEF Spec, NoEarlyExpiry

-----------------------------------------------------------------------------
(* The m_tickled handshake loses no wake-up. *)

\* The delays the (int) cast of the epoll timeout leaves alone.
DelaysFit == \A m \in Delay : m < IntLimit

AllAsleep == \A w \in Worker : pc[w] = "asleep"

\* The timeout of w ends by the time the first timer is due.
Covers(w) ==
    /\ left[w] # Infinite
    /\ left[w] = 0 \/ \A e \in timers : clock + left[w] <= e[1]

\* A timer is due at most its period from now, as long as the clock is never
\* set back.  So refresh(), which does not tickle, moves a timer backwards only.
DueInv ==
    /\ \A t \in Timer : ms[t] < IntLimit
    /\ back = 0 => \A t \in Timer : next[t] <= clock + ms[t]

\* Whoever set m_tickled is still on the way to the pipe, or its byte is there,
\* once all workers are blocked: the last one to block has cleared m_tickled.
\* And without a tickle on its way some worker is covering m_timers.
WakeInv ==
    /\ AllAsleep /\ tickled => TickleOnItsWay
    /\ back = 0 /\ AllAsleep /\ ~TickleOnItsWay => \E w \in Worker : Covers(w)

LEMMA DueStep ==
    ASSUME DelaysFit, TypeInv, HeapInv, ClockInv, DueInv, [Next]_vars
    PROVE  DueInv'
<1> USE DEF TypeInv, TypeOK
<1>1. ASSUME NEW c \in Caller, NEW t \in Timer, NEW m \in Delay, NEW r \in BOOLEAN, NewTimer(c, t, m, r)
      PROVE  DueInv'
  <2>1. /\ UNCHANGED clockVars /\ m \in Nat /\ m < IntLimit
        /\ \A u \in Timer : next'[u] = IF u = t THEN clock + m ELSE next[u]
        /\ \A u \in Timer : ms'[u] = IF u = t THEN m ELSE ms[u]
    BY <1>1, TimerAssumption DEF NewTimer, DelaysFit
  <2>2. QED
    BY <2>1 DEF DueInv, clockVars
<1>2. ASSUME NEW c \in Caller, NEW t \in Timer, Refresh(c, t)
      PROVE  DueInv'
  <2>1. /\ UNCHANGED <<clockVars, ms>>
        /\ \A u \in Timer : next'[u] = IF u = t THEN clock + ms[t] ELSE next[u]
    BY <1>2 DEF Refresh
  <2>2. QED
    BY <2>1 DEF DueInv, clockVars
<1>3. ASSUME NEW c \in Caller, NEW t \in Timer, NEW m \in Delay, NEW b \in BOOLEAN, Reset(c, t, m, b)
      PROVE  DueInv'
  <2>1. PICK start \in {clock, next[t] - ms[t]} :
          /\ UNCHANGED clockVars /\ m \in Nat /\ m < IntLimit
          /\ \A u \in Timer : next'[u] = IF u = t THEN start + m ELSE next[u]
          /\ \A u \in Timer : ms'[u] = IF u = t THEN m ELSE ms[u]
    BY <1>3, TimerAssumption DEF Reset, DelaysFit
  <2>2. back = 0 => start + m <= clock + m
    <3>1. back = 0 => start <= clock
      BY DEF DueInv
    <3>2. start \in Int
      OBVIOUS
    <3>3. QED
      BY <2>1, <3>1, <3>2
  <2>3. QED
    BY <2>1, <2>2 DEF DueInv, clockVars
<1>4. ASSUME NEW w \in Worker, ListExpiredCb(w)
      PROVE  DueInv'
  <2>1. /\ UNCHANGED <<clockVars, ms>> /\ pc[w] = "collect"
        /\ \A u \in Timer : next'[u] \in {next[u], now[w] + ms[u]}
    BY <1>4 DEF ListExpiredCb
  <2>2. now[w] <= clock + back /\ now[w] \in Nat
    BY <2>1 DEF ClockInv
  <2>3. QED
    BY <2>1, <2>2 DEF DueInv, clockVars
<1>5. CASE Tick
  BY <1>5 DEF Tick, DueInv, timerVars
<1>6. ASSUME NEW k \in 1 .. MaxBack, SetBack(k)
      PROVE  DueInv'
  <2>1. back' # 0 /\ ms' = ms
    BY <1>6, TimerAssumption DEF SetBack, timerVars
  <2>2. QED
    BY <2>1 DEF DueInv
<1>7. CASE UNCHANGED <<clockVars, next, ms>>
  BY <1>7 DEF DueInv, clockVars
<1>8. QED
  BY <1>1, <1>2, <1>3, <1>4, <1>5, <1>6, <1>7
     DEF Next, CallerStep, WorkerStep, InsertTimer, OnTimerInsertedAtFront, Cancel, GoIdle, Sleep,
         WakeByTickle, WakeByTimeout, WakeByEvent, ReadNow, Drain, vars, timerVars

\* The % of the (int) cast leaves small numbers alone.
LEMMA SmallMod ==
    ASSUME NEW n \in Nat, NEW k \in Nat, n < k
    PROVE  n % k = n
OBVIOUS

\* A worker that blocks now wakes up in time for every timer there is.
LEMMA SleepCovers ==
    ASSUME TypeInv, HeapInv, DueInv, back = 0, NEW n, n = EpollTimeout(NextTimer)
    PROVE  n # Infinite /\ (n = 0 \/ \A e \in timers : clock + n <= e[1])
<1> USE DEF TypeInv, TypeOK
<1>1. CASE timers = {}
  BY <1>1, TimerAssumption DEF EpollTimeout, NextTimer, Infinite
<1>2. CASE timers # {}
  <2>1. timers \in SUBSET (Nat \X Nat)
    BY TimerAssumption
  <2>2. Begin(timers) \in timers /\ IsBegin(Begin(timers), timers)
    BY <1>2, <2>1, BeginExists
  <2> SUFFICES ASSUME NEW b \in timers, b = Begin(timers), IsBegin(b, timers)
               PROVE  n # Infinite /\ (n = 0 \/ \A e \in timers : clock + n <= e[1])
    BY <2>2, Zenon
  <2>3. b[1] \in Nat /\ b[2] \in Timer /\ b[1] = next[b[2]]
    BY DEF HeapInv, Entry
  <2>4. \A e \in timers : e[1] \in Nat /\ b[1] <= e[1]
    BY <2>3 DEF IsBegin, Comparator
  <2>5. b[1] <= clock + ms[b[2]] /\ ms[b[2]] < IntLimit
    BY <2>3 DEF DueInv
  <2> SUFFICES ASSUME NEW m, m = NextTimer
               PROVE  n # Infinite /\ (n = 0 \/ clock + n <= b[1])
    <3>1. n \in Int
      BY EpollTimeoutType, NextTimerType, TimerAssumption DEF Infinite
    <3>2. QED
      BY <2>3, <2>4, <3>1
  <2>6. (clock >= b[1] /\ m = 0) \/ (clock < b[1] /\ m = b[1] - clock)
    BY <1>2, <2>3 DEF NextTimer
  <2>7. m \in Nat /\ m < IntLimit
    <3>1. clock \in Nat /\ ms[b[2]] \in Nat
      BY <2>3
    <3>2. IntLimit \in Nat /\ 0 < IntLimit
      <4> HIDE DEF TypeInv, TypeOK
      <4>1. QED
        BY TimerAssumption
    <3>3. QED
      BY <2>3, <2>5, <2>6, <3>1, <3>2
  <2>8. AsInt(m) = m
    <3>1. m % (2 * IntLimit) = m
      <4>1. 2 * IntLimit \in Nat /\ m < 2 * IntLimit
        BY <2>7, TimerAssumption
      <4>2. QED
        BY <2>7, <4>1, SmallMod
    <3>2. QED
      BY <2>7, <3>1 DEF AsInt
  <2>9. n = IF m > MaxTimeout THEN MaxTimeout ELSE m
    BY <2>7, <2>8 DEF EpollTimeout, Infinite
  <2>10. QED
    BY <2>3, <2>6, <2>7, <2>9, TimerAssumption DEF Infinite
<1>3. QED
  BY <1>1, <1>2

\* A tickle on its way stays there while all workers are blocked.
LEMMA WayStays ==
    ASSUME TypeInv, Worker # {}, AllAsleep, AllAsleep', TickleOnItsWay, [Next]_vars
    PROVE  TickleOnItsWay'
<1> USE DEF TypeInv, TypeOK
<1>1. ASSUME NEW c \in Caller, OnTimerInsertedAtFront(c)
      PROVE  TickleOnItsWay'
  <2>1. HasIdleThreads
    BY DEF AllAsleep, HasIdleThreads
  <2>2. QED
    BY <1>1, <2>1 DEF OnTimerInsertedAtFront, Tickle, TickleOnItsWay
<1>2. ASSUME NEW c \in Caller, CallerStep(c), ~OnTimerInsertedAtFront(c)
      PROVE  TickleOnItsWay'
  <2>1. /\ UNCHANGED pipeVars /\ at[c] # "tickle"
        /\ \A d \in Caller : d # c => at'[d] = at[d]
    <3>1. CASE \E t \in Timer, m \in Delay, r \in BOOLEAN : NewTimer(c, t, m, r)
      BY <3>1 DEF NewTimer
    <3>2. CASE InsertTimer(c)
      BY <3>2 DEF InsertTimer, InsertLocked
    <3>3. CASE \E t \in Timer : Cancel(c, t) \/ Refresh(c, t)
      BY <3>3 DEF Cancel, Refresh, callVars
    <3>4. CASE \E t \in Timer, m \in Delay, b \in BOOLEAN : Reset(c, t, m, b)
      BY <3>4 DEF Reset, InsertLocked
    <3>5. QED
      BY <1>2, <3>1, <3>2, <3>3, <3>4 DEF CallerStep
  <2>2. QED
    BY <2>1 DEF TickleOnItsWay, pipeVars
<1>3. \A w \in Worker : ~(WorkerStep(w) \/ WakeByEvent(w))
  BY DEF AllAsleep, WorkerStep, GoIdle, Sleep, WakeByTickle, WakeByTimeout, WakeByEvent, ReadNow, ListExpiredCb, Drain
<1>4. CASE Tick \/ (\E k \in 1 .. MaxBack : SetBack(k)) \/ UNCHANGED vars
  BY <1>4 DEF Tick, SetBack, vars, callVars, pipeVars, TickleOnItsWay
<1>5. QED
  BY <1>1, <1>2, <1>3, <1>4 DEF Next

\* addTimer under the lock, all workers blocked and no tickle on its way: the
\* caller has to tickle, or the new element comes after one that is covered.
LEMMA InsertCovered ==
    ASSUME TypeInv, AllAsleep, ~tickled, NEW c \in Caller, NEW t, NEW k \in Int,
           NEW S \in SUBSET timers, InsertLocked(c, t, <<k, t>>, S), ~TickleOnItsWay',
           NEW w \in Worker, Covers(w), UNCHANGED <<clock, left>>
    PROVE  ~tickled' /\ Covers(w)'
<1> USE DEF TypeInv, TypeOK
<1>1. ~IsBegin(<<k, t>>, S \cup {<<k, t>>}) /\ timers' = S \cup {<<k, t>>} /\ ~tickled'
  <2>1. at'[c] # "tickle"
    BY DEF TickleOnItsWay
  <2>2. QED
    BY <2>1 DEF InsertLocked
<1>2. PICK o \in S : o # <<k, t>> /\ ~Comparator(<<k, t>>, o)
  BY <1>1 DEF IsBegin
<1>3. o[1] \in Nat /\ o[1] <= k
  BY <1>2 DEF Comparator
<1>4. left[w] \in Int /\ clock \in Nat
  BY TimerAssumption DEF Infinite
<1>5. left[w] = 0 \/ \A e \in timers' : clock + left[w] <= e[1]
  <2>1. left[w] = 0 \/ (clock + left[w] <= o[1] /\ \A e \in S : clock + left[w] <= e[1])
    BY DEF Covers
  <2>2. left[w] = 0 \/ clock + left[w] <= k
    BY <1>3, <1>4, <2>1
  <2>3. QED
    BY <1>1, <2>1, <2>2
<1>6. QED
  BY <1>1, <1>5 DEF Covers

LEMMA WakeStep ==
    ASSUME Worker # {}, TypeInv, HeapInv, DueInv, WakeInv, [Next]_vars
    PROVE  WakeInv'
<1> USE DEF TypeInv, TypeOK
<1> SUFFICES ASSUME AllAsleep', ~TickleOnItsWay'
             PROVE  ~tickled' /\ (back' = 0 => \E w \in Worker : Covers(w)')
  BY DEF WakeInv
<1>1. ASSUME ~AllAsleep
      PROVE  ~tickled' /\ (back' = 0 => \E w \in Worker : Covers(w)')
  <2>1. pc' # pc
    BY <1>1 DEF AllAsleep
  <2>2. PICK w \in Worker : WorkerStep(w) \/ WakeByEvent(w)
    BY <2>1, OnlyWorkersMove, Zenon
  <2>3. Sleep(w)
    BY <2>2 DEF AllAsleep, WorkerStep, GoIdle, WakeByTickle, WakeByTimeout, WakeByEvent, ReadNow, ListExpiredCb, Drain
  <2>4. /\ ~tickled' /\ left'[w] = EpollTimeout(NextTimer)
        /\ clock' = clock /\ back' = back /\ timers' = timers
    BY <2>3 DEF Sleep, clockVars
  <2>5. back = 0 => Covers(w)'
    BY <2>4, SleepCovers DEF Covers
  <2>6. QED
    BY <2>4, <2>5
<1>2. ASSUME AllAsleep
      PROVE  ~tickled' /\ (back' = 0 => \E w \in Worker : Covers(w)')
  <2>1. ~TickleOnItsWay /\ ~tickled
    BY <1>2, WayStays DEF WakeInv
  <2>2. back = 0 => \E w \in Worker : Covers(w)
    BY <1>2, <2>1 DEF WakeInv
  <2>3. \A w \in Worker : ~(WorkerStep(w) \/ WakeByEvent(w))
    BY <1>2 DEF AllAsleep, WorkerStep, GoIdle, Sleep, WakeByTickle, WakeByTimeout, WakeByEvent, ReadNow, ListExpiredCb, Drain
  <2>4. ASSUME NEW c \in Caller, InsertTimer(c)
        PROVE  ~tickled' /\ (back' = 0 => \E w \in Worker : Covers(w)')
    <3>1. /\ arg[c] \in Timer /\ InsertLocked(c, arg[c], <<next[arg[c]], arg[c]>>, timers)
          /\ UNCHANGED <<clock, back, left>>
      BY <2>4 DEF InsertTimer, Entry, clockVars, workVars
    <3>2. next[arg[c]] \in Int
      BY <3>1
    <3>3. ~tickled'
      <4>1. at'[c] # "tickle"
        BY DEF TickleOnItsWay
      <4>2. QED
        BY <2>1, <3>1, <4>1 DEF InsertLocked
    <3>4. \A w \in Worker : Covers(w) => Covers(w)'
      BY <1>2, <2>1, <3>1, <3>2, InsertCovered
    <3>5. QED
      BY <2>2, <3>1, <3>3, <3>4
  <2>5. ASSUME NEW c \in Caller, NEW t \in Timer, NEW m \in Delay, NEW b \in BOOLEAN, Reset(c, t, m, b)
        PROVE  ~tickled' /\ (back' = 0 => \E w \in Worker : Covers(w)')
    <3>1. PICK start \in {clock, next[t] - ms[t]} :
             /\ InsertLocked(c, t, <<start + m, t>>, timers \ {Entry(t)})
             /\ UNCHANGED <<clock, back, left>>
      BY <2>5 DEF Reset, clockVars, workVars
    <3>2. start + m \in Int
      BY TimerAssumption
    <3>3. ~tickled'
      <4>1. at'[c] # "tickle"
        BY DEF TickleOnItsWay
      <4>2. QED
        BY <2>1, <3>1, <4>1 DEF InsertLocked
    <3>4. \A w \in Worker : Covers(w) => Covers(w)'
      <4>1. timers \ {Entry(t)} \in SUBSET timers
        OBVIOUS
      <4>2. QED
        BY <1>2, <2>1, <3>1, <3>2, <4>1, InsertCovered
    <3>5. QED
      BY <2>2, <3>1, <3>3, <3>4
  <2>6. ASSUME NEW c \in Caller, NEW t \in Timer, Refresh(c, t)
        PROVE  ~tickled' /\ (back' = 0 => \E w \in Worker : Covers(w)')
    <3>1. /\ timers' = (timers \ {Entry(t)}) \cup {<<clock + ms[t], t>>} /\ Entry(t) \in timers
          /\ UNCHANGED <<clock, back, left, tickled>>
      BY <2>6 DEF Refresh, Found, clockVars, workVars
    <3>2. ASSUME back = 0, NEW w \in Worker, Covers(w)
          PROVE  Covers(w)'
      <4>1. Entry(t)[1] = next[t] /\ next[t] <= clock + ms[t]
        BY <3>2 DEF DueInv, Entry
      <4>2. left[w] \in Int /\ clock \in Nat /\ next[t] \in Nat /\ ms[t] \in Nat
        BY TimerAssumption DEF Infinite
      <4>3. left[w] # Infinite /\ (left[w] = 0 \/ (clock + left[w] <= next[t] /\ \A e \in timers : clock + left[w] <= e[1]))
        BY <3>1, <3>2, <4>1 DEF Covers
      <4>4. left[w] = 0 \/ clock + left[w] <= clock + ms[t]
        BY <4>1, <4>2, <4>3
      <4>5. QED
        BY <3>1, <4>3, <4>4 DEF Covers
    <3>3. QED
      BY <2>1, <2>2, <3>1, <3>2
  <2>7. ASSUME NEW c \in Caller, NEW t \in Timer, Cancel(c, t)
        PROVE  ~tickled' /\ (back' = 0 => \E w \in Worker : Covers(w)')
    <3>1. timers' \subseteq timers /\ UNCHANGED <<clock, back, left, tickled>>
      BY <2>7 DEF Cancel, clockVars, workVars
    <3>2. QED
      BY <2>1, <2>2, <3>1 DEF Covers
  <2>8. CASE Tick
    <3>1. /\ UNCHANGED <<back, timers, tickled>> /\ clock' = clock + 1
          /\ \A w \in Worker : left'[w] = IF left[w] > 0 THEN left[w] - 1 ELSE left[w]
      BY <1>2, <2>8 DEF Tick, AllAsleep
    <3>2. ASSUME NEW w \in Worker, Covers(w)
          PROVE  Covers(w)'
      <4>1. left[w] \in Nat /\ clock \in Nat
        BY <3>2, TimerAssumption DEF Covers, Infinite
      <4>2. CASE left[w] = 0
        BY <3>1, <4>2 DEF Covers, Infinite
      <4>3. CASE left[w] > 0
        <5>1. clock' + left'[w] = clock + left[w] /\ left'[w] # Infinite
          BY <3>1, <4>1, <4>3 DEF Infinite
        <5>2. \A e \in timers' : clock + left[w] <= e[1]
          BY <3>1, <3>2, <4>1, <4>3 DEF Covers
        <5>3. QED
          BY <5>1, <5>2 DEF Covers
      <4>4. QED
        BY <4>1, <4>2, <4>3
    <3>3. QED
      BY <2>1, <2>2, <3>1, <3>2
  <2>9. ASSUME NEW k \in 1 .. MaxBack, SetBack(k)
        PROVE  ~tickled' /\ (back' = 0 => \E w \in Worker : Covers(w)')
    BY <2>1, <2>9, TimerAssumption DEF SetBack
  <2>10. CASE UNCHANGED <<clockVars, timers, tickled, left>>
    BY <2>1, <2>2, <2>10 DEF Covers, clockVars
  <2>11. QED
    BY <2>3, <2>4, <2>5, <2>6, <2>7, <2>8, <2>9, <2>10
       DEF Next, CallerStep, NewTimer, OnTimerInsertedAtFront, vars, workVars
<1>3. QED
  BY <1>1, <1>2

\* No worker oversleeps: when all of them are blocked in epoll_wait and nobody
\* is about to tickle, one wakes up in time for the first timer.  There has to
\* be a worker, and no delay may be one that the (int) cast makes negative.
THEOREM NobodyOversleeps == Worker # {} /\ DelaysFit /\ Spec => []SleepersCovered
<1> SUFFICES ASSUME Worker # {}, DelaysFit PROVE Spec => []SleepersCovered
  OBVIOUS
<1>1. Init => HeapInv /\ ClockInv /\ DueInv /\ WakeInv
  <2> SUFFICES ASSUME Init PROVE HeapInv /\ ClockInv /\ DueInv /\ WakeInv
    OBVIOUS
  <2>1. HeapInv
    BY DEF Init, HeapInv, Inserting
  <2>2. ClockInv
    BY TimerAssumption DEF Init, ClockInv
  <2>3. DueInv
    BY TimerAssumption DEF Init, DueInv
  <2>4. ~AllAsleep
    BY DEF Init, AllAsleep
  <2>5. QED
    BY <2>1, <2>2, <2>3, <2>4 DEF WakeInv
<1>2. TypeInv /\ HeapInv /\ ClockInv /\ DueInv /\ [Next]_vars => DueInv'
  BY DueStep
<1>3. TypeInv /\ HeapInv /\ DueInv /\ WakeInv /\ [Next]_vars => WakeInv'
  BY WakeStep
<1>4. TypeInv /\ WakeInv => SleepersCovered
  <2> SUFFICES ASSUME TypeInv, WakeInv, back = 0, AllAsleep, timers # {}, ~TickleOnItsWay
               PROVE  \E w \in Worker :
                          /\ left[w] # Infinite
                          /\ left[w] = 0 \/ clock + left[w] <= Begin(timers)[1]
    BY DEF SleepersCovered, AllAsleep
  <2>1. Begin(timers) \in timers
    <3>1. timers \in SUBSET (Nat \X Nat)
      BY TimerAssumption DEF TypeInv, TypeOK
    <3>2. QED
      BY <3>1, BeginExists
  <2>2. QED
    BY <2>1 DEF WakeInv, Covers
<1>5. QED
  BY <1>1, <1>2, <1>3, <1>4, TypeInit, TypeStep, HeapStep, ClockStep, PTL DEF Spec

=============================================================================
