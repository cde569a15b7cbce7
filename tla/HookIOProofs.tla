---------------------------- MODULE HookIOProofs ----------------------------
(***************************************************************************)
(* Proofs about the hooked calls: a fiber that waits has exactly one party *)
(* that will wake it, timeouts and sleeps end no earlier than the division *)
(* to milliseconds and the clock make them, and connect() does not report  *)
(* a connection that is not there; for any number of calls and timers, any *)
(* timeout and any sleep.                                                  *)
(***************************************************************************)
EXTENDS HookIO, TLAPS

-----------------------------------------------------------------------------
(* The inductive invariant. *)

Waits == pc \in {"added", "held"}

\* The timers that are alive belong to calls that have begun; a callback that
\* was taken out of the manager was due, and only OnTimer's go on from there.
TimersKnown ==
    /\ timers \in [Slot -> Timer \cup {None}]
    /\ \A s \in Slot : Alive(s) =>
           /\ timers[s].call <= call
           /\ timers[s].st # "armed" => timers[s].left = 0
           /\ timers[s].st \in {"locked", "set"} => timers[s].does = "cancel"
           /\ timers[s].st = "set" => cancelled[timers[s].call]
    /\ \A c \in Calls : c > call => ~cancelled[c]
    /\ pc # "out" => call \in Calls

\* The timer of a sleep is there only while its fiber sleeps, and is alone.
OneSleepTimer ==
    /\ \A s \in Slot : Alive(s) /\ timers[s].does = "schedule" =>
           Waits /\ kind = "sleep" /\ timers[s].call = call
    /\ \A s, t \in Slot :
           Alive(s) /\ timers[s].does = "schedule" /\ Alive(t) /\ timers[t].does = "schedule"
               => s = t

\* A timer of the present call was armed no earlier than the call began, and
\* lost less than a millisecond to the clock.
Lasts(s) == IF timers[s].does = "schedule" THEN WholeMs(asked) ELSE TimeoutTicks
TimersAged ==
    pc # "out" => \A s \in Slot :
        Alive(s) /\ timers[s].call = call => Lasts(s) < timers[s].left + age + PerMs

\* Where a sleeping fiber can be, and that it is woken by its timer only.
SleepAged ==
    kind = "sleep" =>
        /\ pc \in {"out", "added", "held", "woken", "check"}
        /\ scheduled = 1 \/ pc \in {"woken", "check"} => WholeMs(asked) < age + PerMs

\* The descriptor is open, and known, until close() gets there.
CloserKnown == closer = "idle" => open /\ known

\* A socket is connected once, so WRITE is cancelled by the present call only,
\* and the wait for it ends with an answer or with the timeout.
ConnectInv ==
    closer = "idle" /\ ~MayRefuse =>
        /\ conn = "fresh" => \A s \in Slot : Alive(s) => timers[s].ev = "READ"
        /\ kind = "connect" /\ pc # "out" =>
               /\ pc = "try" => conn = "fresh"
               /\ pc # "try" => conn # "fresh"
               /\ \A s \in Slot : Alive(s) /\ timers[s].ev = "WRITE" => timers[s].call = call
               /\ (scheduled = 1 \/ pc \in {"woken", "check"}) /\ ~cancelled[call]
                      => conn # "connecting"

Inv ==
    /\ TypeOK /\ TimersKnown
    /\ OneWake /\ OneSleepTimer
    /\ TimeoutNotEarly /\ TimersAged
    /\ SleepAged
    /\ CloserKnown /\ ConnectInv /\ (~MayRefuse => ConnectTruth)

-----------------------------------------------------------------------------
\* A sleep loses less than a millisecond to the division.
LEMMA WholeTicks ==
    ASSUME HookIOAssumption, NEW n \in 0 .. MaxAge
    PROVE  /\ WholeMs(n) \in Nat /\ WholeMs(n) <= MaxAge
           /\ n < WholeMs(n) + PerMs
  <1>1. n \in Nat /\ PerMs \in Nat /\ PerMs > 0 /\ MaxAge \in Nat /\ n <= MaxAge
    BY DEF HookIOAssumption
  <1> DEFINE q == n \div PerMs
  <1>2. q \in Nat /\ q * PerMs <= n /\ n < q * PerMs + PerMs
    BY <1>1
  <1>3. WholeMs(n) = q * PerMs
    BY DEF WholeMs
  <1> HIDE DEF q
  <1>4. q * PerMs \in Nat
    BY <1>1, <1>2
  <1> QED
    BY <1>1, <1>2, <1>3, <1>4

LEMMA TicksKnown ==
    ASSUME HookIOAssumption
    PROVE  PerMs \in Nat /\ MaxAge \in Nat /\ TimeoutTicks \in Nat
  BY DEF HookIOAssumption, TimeoutTicks

LEMMA InitInv == Init => Inv
  <1> SUFFICES ASSUME Init PROVE Inv
    OBVIOUS
  <1> USE HookIOAssumption DEF Init, Calls
  <1>a. timed \in BOOLEAN /\ known \in BOOLEAN /\ open \in BOOLEAN
    BY Zenon
  <1>1. TypeOK
    BY <1>a DEF TypeOK
  <1>2. TimersKnown
    BY DEF TimersKnown, Alive, Waits
  <1>3. OneWake
    BY DEF OneWake, Alive, Waits
  <1>4. OneSleepTimer
    BY DEF OneSleepTimer, Alive, Waits
  <1>5. TimeoutNotEarly
    BY DEF TimeoutNotEarly, Alive, Waits
  <1>6. TimersAged
    BY DEF TimersAged, Alive, Waits
  <1>7. SleepAged
    BY DEF SleepAged, Alive, Waits
  <1>8. CloserKnown
    BY DEF CloserKnown, Alive, Waits
  <1>9. ConnectInv
    BY DEF ConnectInv, Alive, Waits
  <1>10. (~MayRefuse => ConnectTruth)
    BY DEF ConnectTruth, Alive, Waits
  <1> QED BY <1>1, <1>2, <1>3, <1>4, <1>5, <1>6, <1>7, <1>8, <1>9, <1>10 DEF Inv

\* A timer that comes one tick nearer.
LEMMA Nearer ==
    ASSUME NEW t \in Timer, t.left > 0, NEW u, u = [t EXCEPT !.left = @ - 1]
    PROVE  /\ u \in Timer /\ u.left = t.left - 1
           /\ u.st = t.st /\ u.call = t.call /\ u.does = t.does /\ u.ev = t.ev
  BY HookIOAssumption DEF Timer

\* A timer that goes on to another state.
LEMMA Moved ==
    ASSUME HookIOAssumption, NEW t \in Timer, NEW st \in {"due", "locked", "set"},
           NEW u, u = [t EXCEPT !.st = st]
    PROVE  /\ u \in Timer /\ u.st = st /\ u # None
           /\ u.left = t.left /\ u.call = t.call /\ u.does = t.does /\ u.ev = t.ev
  BY DEF Timer, HookIOAssumption

LEMMA StepInv == Inv /\ [Next]_vars => Inv'
  <1> SUFFICES ASSUME Inv, [Next]_vars PROVE Inv'
    OBVIOUS
  <1> USE HookIOAssumption DEF Inv, TypeOK, TimersKnown, OneWake, OneSleepTimer, TimeoutNotEarly,
     TimersAged, Lasts, SleepAged, CloserKnown, ConnectInv, ConnectTruth, Alive, Waits, Calls, Timer, Ev,
     Return, fiberVars, eventVars, sockVars, fdVars, InState, AddTimer, CancelTimer, TriggerEvent, CancelEvent, CancelAll, IsReady
  <1>a. PerMs \in Nat /\ MaxAge \in Nat /\ TimeoutTicks \in Nat
    BY TicksKnown
  <1>b. WholeMs(asked) \in Nat /\ WholeMs(asked) <= MaxAge
    BY WholeTicks
  <1> USE <1>a, <1>b
  <1>1. CASE TryRead
    BY <1>1 DEF TryRead
  <1>2. CASE TryConnect
    BY <1>2 DEF TryConnect
  <1>3. CASE Arm
    BY SMTT(60), <1>3 DEF Arm
  <1>4. CASE AddEvent
    BY <1>4 DEF AddEvent
  <1>5. CASE YieldToHold
    BY <1>5 DEF YieldToHold
  <1>6. CASE Resume
    BY <1>6 DEF Resume
  <1>7. CASE WakeUp
    BY <1>7 DEF WakeUp
  <1>8. CASE CheckIO
    BY <1>8 DEF CheckIO
  <1>9. CASE CheckConnect
    BY <1>9 DEF CheckConnect
  <1>10. CASE EndSleep
    BY <1>10 DEF EndSleep
  <1>11. CASE Tick
    <2>a. /\ age' = IF pc = "out" \/ age = MaxAge THEN age ELSE age + 1
          /\ UNCHANGED <<pc, kind, call, timed, asked, handle, result, cancelled, eventVars, sockVars, fdVars>>
      BY <1>11 DEF Tick
    <2>c. ASSUME NEW s \in Slot
          PROVE  /\ timers'[s] # None <=> timers[s] # None
                 /\ timers[s] # None =>
                        /\ timers'[s].left = IF timers[s].left > 0 THEN timers[s].left - 1 ELSE 0
                        /\ timers'[s].st = timers[s].st
                        /\ timers'[s].call = timers[s].call
                        /\ timers'[s].does = timers[s].does
                        /\ timers'[s].ev = timers[s].ev
                 /\ timers'[s] \in Timer \cup {None}
      <3> DEFINE t == timers[s]
                 u == timers'[s]
      <3>1. u = IF t # None /\ t.left > 0 THEN [t EXCEPT !.left = @ - 1] ELSE t
        BY <1>11 DEF Tick
      <3>2. t \in Timer \cup {None}
        OBVIOUS
      <3> HIDE DEF t, u
      <3>3. CASE t # None /\ t.left > 0
        BY SMTT(60), <3>1, <3>2, <3>3, Nearer DEF t, u
      <3>4. CASE ~(t # None /\ t.left > 0)
        BY <3>1, <3>2, <3>4 DEF t, u
      <3> QED BY <3>3, <3>4
    <2>b. timers' \in [Slot -> Timer \cup {None}]
      BY <1>11, <2>c DEF Tick
    <2>1. TypeOK'
      BY <2>a, <2>b, <2>c
    <2>2. TimersKnown'
      BY <2>a, <2>b, <2>c
    <2>3. OneWake'
      BY <2>a, <2>b, <2>c
    <2>4. OneSleepTimer'
      BY <2>a, <2>b, <2>c
    <2>5. TimeoutNotEarly'
      BY <2>a, <2>b, <2>c
    <2>6. TimersAged'
      BY SMTT(60), <2>a, <2>b, <2>c
    <2>7. SleepAged'
      BY <2>a, <2>b, <2>c
    <2>8. CloserKnown'
      BY <2>a, <2>b, <2>c
    <2>9. ConnectInv'
      BY <2>a, <2>b, <2>c
    <2>10. (~MayRefuse => ConnectTruth)'
      BY <2>a, <2>b, <2>c
    <2> QED BY <2>1, <2>2, <2>3, <2>4, <2>5, <2>6, <2>7, <2>8, <2>9, <2>10
  <1>12. CASE Deliver
    BY <1>12 DEF Deliver
  <1>13. CASE Send
    BY <1>13 DEF Send
  <1>14. CASE Steal
    BY <1>14 DEF Steal
  <1>15. CASE Answer
    BY <1>15 DEF Answer
  <1>16. CASE CloseCancelAll
    BY <1>16 DEF CloseCancelAll
  <1>17. CASE CloseDel
    <2>0. known' \in BOOLEAN /\ open' \in BOOLEAN
      BY <1>17, Zenon DEF CloseDel
    <2>1. TypeOK'
      BY <1>17, <2>0 DEF CloseDel
    <2>2. TimersKnown'
      BY <1>17 DEF CloseDel
    <2>3. OneWake'
      BY <1>17 DEF CloseDel
    <2>4. OneSleepTimer'
      BY <1>17 DEF CloseDel
    <2>5. TimeoutNotEarly'
      BY <1>17 DEF CloseDel
    <2>6. TimersAged'
      BY <1>17 DEF CloseDel
    <2>7. SleepAged'
      BY <1>17 DEF CloseDel
    <2>8. CloserKnown'
      BY <1>17 DEF CloseDel
    <2>9. ConnectInv'
      BY <1>17 DEF CloseDel
    <2>10. (~MayRefuse => ConnectTruth)'
      BY <1>17 DEF CloseDel
    <2> QED BY <2>1, <2>2, <2>3, <2>4, <2>5, <2>6, <2>7, <2>8, <2>9, <2>10
  <1>18. CASE CloseF
    <2>0. open' \in BOOLEAN /\ known' \in BOOLEAN
      BY <1>18, Zenon DEF CloseF
    <2>1. TypeOK'
      BY <1>18, <2>0 DEF CloseF
    <2>2. TimersKnown'
      BY <1>18 DEF CloseF
    <2>3. OneWake'
      BY <1>18 DEF CloseF
    <2>4. OneSleepTimer'
      BY <1>18 DEF CloseF
    <2>5. TimeoutNotEarly'
      BY <1>18 DEF CloseF
    <2>6. TimersAged'
      BY <1>18 DEF CloseF
    <2>7. SleepAged'
      BY <1>18 DEF CloseF
    <2>8. CloserKnown'
      BY <1>18 DEF CloseF
    <2>9. ConnectInv'
      BY <1>18 DEF CloseF
    <2>10. (~MayRefuse => ConnectTruth)'
      BY <1>18 DEF CloseF
    <2> QED BY <2>1, <2>2, <2>3, <2>4, <2>5, <2>6, <2>7, <2>8, <2>9, <2>10
  <1>19. ASSUME NEW s \in Slot, Expire(s) PROVE Inv'
    <2>a. /\ timers' = [timers EXCEPT ![s] = [timers[s] EXCEPT !.st = "due"]]
          /\ timers[s] \in Timer /\ timers[s].left = 0
          /\ UNCHANGED <<fiberVars, cancelled, eventVars, sockVars, fdVars>>
      BY <1>19 DEF Expire
    <2> DEFINE r == [timers[s] EXCEPT !.st = "due"]
    <2>b. /\ r \in Timer /\ r.st = "due" /\ r # None
          /\ r.left = timers[s].left /\ r.call = timers[s].call
          /\ r.does = timers[s].does /\ r.ev = timers[s].ev
      BY <2>a, Moved
    <2> HIDE DEF r
    <2>c. /\ timers' \in [Slot -> Timer \cup {None}] /\ timers'[s] = r
          /\ \A u \in Slot : u # s => timers'[u] = timers[u]
      BY <2>a, <2>b DEF r
    <2> HIDE DEF Timer
    <2>1. TypeOK'
      BY <2>a, <2>b, <2>c
    <2>2. TimersKnown'
      BY <2>a, <2>b, <2>c
    <2>3. OneWake'
      BY SMTT(60), <2>a, <2>b, <2>c
    <2>4. OneSleepTimer'
      BY <2>a, <2>b, <2>c
    <2>5. TimeoutNotEarly'
      BY <2>a, <2>b, <2>c
    <2>6. TimersAged'
      BY <2>a, <2>b, <2>c
    <2>7. SleepAged'
      BY <2>a, <2>b, <2>c
    <2>8. CloserKnown'
      BY <2>a, <2>b, <2>c
    <2>9. ConnectInv'
      BY <2>a, <2>b, <2>c
    <2>10. (~MayRefuse => ConnectTruth)'
      BY <2>a, <2>b, <2>c
    <2> QED BY <2>1, <2>2, <2>3, <2>4, <2>5, <2>6, <2>7, <2>8, <2>9, <2>10
  <1>20. ASSUME NEW s \in Slot, RunSchedule(s) PROVE Inv'
    BY <1>20 DEF RunSchedule
  <1>21. ASSUME NEW s \in Slot, RunLock(s) PROVE Inv'
    <2>a. /\ UNCHANGED <<fiberVars, cancelled, eventVars, sockVars, fdVars>>
          /\ timers[s] \in Timer /\ timers[s].does = "cancel" /\ timers[s].st = "due"
          /\ \/ timers' = [timers EXCEPT ![s] = None]
             \/ timers' = [timers EXCEPT ![s] = [timers[s] EXCEPT !.st = "locked"]]
      BY <1>21 DEF RunLock
    <2> DEFINE r == [timers[s] EXCEPT !.st = "locked"]
    <2>b. /\ r \in Timer /\ r.st = "locked" /\ r # None
          /\ r.left = timers[s].left /\ r.call = timers[s].call
          /\ r.does = timers[s].does /\ r.ev = timers[s].ev
      BY <2>a, Moved
    <2> HIDE DEF r
    <2>c. /\ timers' \in [Slot -> Timer \cup {None}] /\ timers'[s] \in {None, r}
          /\ \A u \in Slot : u # s => timers'[u] = timers[u]
      <3>1. CASE timers' = [timers EXCEPT ![s] = None]
        BY <3>1
      <3>2. CASE timers' = [timers EXCEPT ![s] = r]
        BY <3>2, <2>b
      <3> QED
        BY <3>1, <3>2, <2>a DEF r
    <2> HIDE DEF Timer
    <2>d. \A u \in Slot :
              /\ timers'[u] # None /\ timers'[u].does = "schedule"
                     <=> timers[u] # None /\ timers[u].does = "schedule"
      BY <2>a, <2>b, <2>c
    <2>e. /\ pc' = pc /\ kind' = kind /\ call' = call /\ cancelled' = cancelled /\ age' = age
          /\ scheduled' = scheduled /\ registered' = registered
          /\ \A u \in Slot : timers'[u] # None => timers'[u].call = timers[u].call
      BY <2>a, <2>b, <2>c
    <2>1. TypeOK'
      BY <2>a, <2>b, <2>c
    <2>2. TimersKnown'
      <3>1. timers[s].call <= call /\ timers[s].left = 0
        BY <2>a
      <3>2. \A u \in Slot : timers'[u] # None =>
                /\ timers'[u].call <= call
                /\ timers'[u].st # "armed" => timers'[u].left = 0
                /\ timers'[u].st \in {"locked", "set"} => timers'[u].does = "cancel"
                /\ timers'[u].st = "set" => cancelled[timers'[u].call]
        <4> SUFFICES ASSUME NEW u \in Slot, timers'[u] # None
                     PROVE  /\ timers'[u].call <= call
                            /\ timers'[u].st # "armed" => timers'[u].left = 0
                            /\ timers'[u].st \in {"locked", "set"} => timers'[u].does = "cancel"
                            /\ timers'[u].st = "set" => cancelled[timers'[u].call]
          OBVIOUS
        <4>1. CASE u = s
          BY <4>1, <3>1, <2>a, <2>b, <2>c
        <4>2. CASE u # s
          BY <4>2, <2>c
        <4> QED
          BY <4>1, <4>2
      <3> QED
        BY <2>c, <2>e, <3>2
    <2>3. OneWake'
      BY <2>d, <2>e
    <2>4. OneSleepTimer'
      BY <2>d, <2>e
    <2>5. TimeoutNotEarly'
      BY <2>d, <2>e
    <2>6. TimersAged'
      BY <2>a, <2>b, <2>c
    <2>7. SleepAged'
      BY <2>a, <2>b, <2>c
    <2>8. CloserKnown'
      BY <2>a, <2>b, <2>c
    <2>9. ConnectInv'
      BY <2>a, <2>b, <2>c
    <2>10. (~MayRefuse => ConnectTruth)'
      BY <2>a, <2>b, <2>c
    <2> QED BY <2>1, <2>2, <2>3, <2>4, <2>5, <2>6, <2>7, <2>8, <2>9, <2>10
  <1>22. ASSUME NEW s \in Slot, RunSetCancelled(s) PROVE Inv'
    <2>1. TypeOK'
      <3>1. timers[s] \in Timer /\ timers' = [timers EXCEPT ![s] = [timers[s] EXCEPT !.st = "set"]]
        BY <1>22 DEF RunSetCancelled, InState
      <3>2. [timers[s] EXCEPT !.st = "set"] \in Timer
        BY <3>1 DEF Timer
      <3>3. timers' \in [Slot -> Timer \cup {None}]
        BY <3>1, <3>2
      <3>4. cancelled' \in [Calls -> BOOLEAN]
        BY <1>22 DEF RunSetCancelled
      <3> QED
        BY SMTT(60), <1>22, <3>3, <3>4 DEF RunSetCancelled
    <2>2. TimersKnown'
      <3>1. /\ UNCHANGED <<call, pc>> /\ timers[s] \in Timer /\ timers[s].st = "locked"
            /\ timers[s].does = "cancel" /\ timers[s].left = 0 /\ timers[s].call <= call
            /\ cancelled' = [cancelled EXCEPT ![timers[s].call] = TRUE]
            /\ timers' = [timers EXCEPT ![s] = [timers[s] EXCEPT !.st = "set"]]
        BY <1>22 DEF RunSetCancelled, InState
      <3> DEFINE r == [timers[s] EXCEPT !.st = "set"]
      <3>2. /\ r \in Timer /\ r.st = "set" /\ r.does = "cancel"
            /\ r.call = timers[s].call /\ r.left = timers[s].left
        BY <3>1 DEF Timer
      <3> HIDE DEF r
      <3>3. /\ timers' \in [Slot -> Timer \cup {None}] /\ timers'[s] = r
            /\ \A u \in Slot : u # s => timers'[u] = timers[u]
        BY <3>1, <3>2 DEF r
      <3>4. timers[s].call \in Calls /\ \A c \in Calls : cancelled[c] => cancelled'[c]
        BY <3>1 DEF Timer
      <3>5. \A c \in Calls : c > call => ~cancelled'[c]
        BY <3>1, <3>4
      <3>6. cancelled'[r.call]
        BY <3>1, <3>2, <3>4
      <3> QED
        BY SMTT(60), <3>1, <3>2, <3>3, <3>4, <3>5, <3>6
    <2>3. OneWake'
      BY SMTT(60), <1>22 DEF RunSetCancelled
    <2>4. OneSleepTimer'
      BY <1>22 DEF RunSetCancelled
    <2>5. TimeoutNotEarly'
      BY SMTT(60), <1>22 DEF RunSetCancelled
    <2>6. TimersAged'
      BY SMTT(60), <1>22 DEF RunSetCancelled
    <2>7. SleepAged'
      BY <1>22 DEF RunSetCancelled
    <2>8. CloserKnown'
      BY <1>22 DEF RunSetCancelled
    <2>9. ConnectInv'
      BY <1>22 DEF RunSetCancelled
    <2>10. (~MayRefuse => ConnectTruth)'
      BY <1>22 DEF RunSetCancelled
    <2> QED BY <2>1, <2>2, <2>3, <2>4, <2>5, <2>6, <2>7, <2>8, <2>9, <2>10
  <1>23. ASSUME NEW s \in Slot, RunCancelEvent(s) PROVE Inv'
    BY SMTT(60), <1>23 DEF RunCancelEvent
  <1>24. ASSUME NEW k \in Kind, Start(k), Begin(k) PROVE Inv'
    <2>1. TypeOK'
      BY <1>24 DEF Start, Begin, MayCall
    <2>2. TimersKnown'
      BY SMTT(60), <1>24 DEF Start, Begin, MayCall
    <2>3. OneWake'
      BY <1>24 DEF Start, Begin, MayCall
    <2>4. OneSleepTimer'
      BY <1>24 DEF Start, Begin, MayCall
    <2>5. TimeoutNotEarly'
      BY <1>24 DEF Start, Begin, MayCall
    <2>6. TimersAged'
      BY <1>24 DEF Start, Begin, MayCall
    <2>7. SleepAged'
      BY <1>24 DEF Start, Begin, MayCall
    <2>8. CloserKnown'
      BY <1>24 DEF Start, Begin, MayCall
    <2>9. ConnectInv'
      BY <1>24 DEF Start, Begin, MayCall
    <2>10. (~MayRefuse => ConnectTruth)'
      BY <1>24 DEF Start, Begin, MayCall
    <2> QED BY <2>1, <2>2, <2>3, <2>4, <2>5, <2>6, <2>7, <2>8, <2>9, <2>10
  <1>25. ASSUME NEW k \in Kind, Start(k), BeginUnknown(k) PROVE Inv'
    <2>0. timed' \in BOOLEAN
      BY <1>25, Zenon DEF Start, BeginUnknown, MayCall
    <2>1. TypeOK'
      BY <1>25, <2>0 DEF Start, BeginUnknown, MayCall
    <2>2. TimersKnown'
      BY <1>25 DEF Start, BeginUnknown, MayCall
    <2>3. OneWake'
      BY <1>25 DEF Start, BeginUnknown, MayCall
    <2>4. OneSleepTimer'
      BY <1>25 DEF Start, BeginUnknown, MayCall
    <2>5. TimeoutNotEarly'
      BY <1>25 DEF Start, BeginUnknown, MayCall
    <2>6. TimersAged'
      BY <1>25 DEF Start, BeginUnknown, MayCall
    <2>7. SleepAged'
      BY <1>25 DEF Start, BeginUnknown, MayCall
    <2>8. CloserKnown'
      BY <1>25 DEF Start, BeginUnknown, MayCall
    <2>9. ConnectInv'
      BY <1>25 DEF Start, BeginUnknown, MayCall
    <2>10. (~MayRefuse => ConnectTruth)'
      BY <1>25 DEF Start, BeginUnknown, MayCall
    <2> QED BY <2>1, <2>2, <2>3, <2>4, <2>5, <2>6, <2>7, <2>8, <2>9, <2>10
  <1>26. ASSUME NEW k \in Kind, Start(k), BeginSleep(k) PROVE Inv'
    <2>a. PICK n \in Naps : asked' = n /\ AddTimer(call + 1, WholeMs(n), "schedule", "READ")
      BY <1>26 DEF BeginSleep
    <2>b. PICK s \in Slot, passed \in 0 .. (PerMs - 1) :
              /\ timers[s] = None
              /\ timers' = [timers EXCEPT ![s] =
                     [st |-> "armed", left |-> IF passed < WholeMs(n) THEN WholeMs(n) - passed ELSE 0,
                      call |-> call + 1, does |-> "schedule", ev |-> "READ"]]
              /\ handle' = s
      BY <2>a
    <2>d. /\ pc = "out" /\ pc' = "added" /\ kind' = "sleep" /\ call' = call + 1 /\ call < MaxCalls
          /\ age' = 0 /\ asked' = n /\ timed' = TRUE /\ result' = "none" /\ handle' = s
          /\ UNCHANGED <<cancelled, eventVars, data, sent, conn, fdVars>>
      BY <1>26, <2>a, <2>b DEF Start, BeginSleep
    <2>e. /\ WholeMs(n) \in Nat /\ WholeMs(n) <= MaxAge /\ n \in 0 .. MaxAge
      BY WholeTicks
    <2> DEFINE left == IF passed < WholeMs(n) THEN WholeMs(n) - passed ELSE 0
               r == [st |-> "armed", left |-> left, call |-> call + 1,
                     does |-> "schedule", ev |-> "READ"]
    <2>f. left \in 0 .. MaxAge /\ WholeMs(n) < left + PerMs
      BY <2>e
    <2>g. /\ timers' = [timers EXCEPT ![s] = r]
          /\ r.left = left /\ r.st = "armed" /\ r.call = call + 1
          /\ r.does = "schedule" /\ r.ev = "READ"
      BY <2>b
    <2> HIDE DEF left
    <2>h. r \in Timer /\ r # None
      BY <2>d, <2>f DEF Timer
    <2> HIDE DEF r
    <2>i. WholeMs(asked)' = WholeMs(n)
      BY <2>d DEF WholeMs
    <2>c. /\ timers' \in [Slot -> Timer \cup {None}] /\ timers'[s] = r
          /\ \A u \in Slot : u # s => timers'[u] = timers[u]
      BY <2>g, <2>h
    <2>1. TypeOK'
      BY <2>b, <2>c, <2>d, <2>e, <2>f, <2>g, <2>h, <2>i
    <2>2. TimersKnown'
      BY <2>b, <2>c, <2>d, <2>e, <2>f, <2>g, <2>h, <2>i
    <2>3. OneWake'
      BY <2>b, <2>c, <2>d, <2>e, <2>f, <2>g, <2>h, <2>i
    <2>4. OneSleepTimer'
      BY <2>b, <2>c, <2>d, <2>e, <2>f, <2>g, <2>h, <2>i
    <2>5. TimeoutNotEarly'
      BY <2>b, <2>c, <2>d, <2>e, <2>f, <2>g, <2>h, <2>i
    <2>6. TimersAged'
      BY <2>b, <2>c, <2>d, <2>e, <2>f, <2>g, <2>h, <2>i
    <2>7. SleepAged'
      BY <2>b, <2>c, <2>d, <2>e, <2>f, <2>g, <2>h, <2>i
    <2>8. CloserKnown'
      BY <2>b, <2>c, <2>d, <2>e, <2>f, <2>g, <2>h, <2>i
    <2>9. ConnectInv'
      BY <2>b, <2>c, <2>d, <2>e, <2>f, <2>g, <2>h, <2>i
    <2>10. (~MayRefuse => ConnectTruth)'
      BY <2>b, <2>c, <2>d, <2>e, <2>f, <2>g, <2>h, <2>i
    <2> QED BY <2>1, <2>2, <2>3, <2>4, <2>5, <2>6, <2>7, <2>8, <2>9, <2>10
  <1>27. CASE UNCHANGED vars
    BY <1>27 DEF vars
  <1> HIDE DEF Inv
  <1> QED
    BY <1>1, <1>2, <1>3, <1>4, <1>5, <1>6, <1>7, <1>8, <1>9, <1>10, <1>11, <1>12, <1>13, <1>14, <1>15, <1>16, <1>17, <1>18, <1>19, <1>20, <1>21, <1>22, <1>23, <1>24, <1>25, <1>26, <1>27 DEF Next, FiberStep, Continue, CallbackStep, Close, Start

\* Inv is an invariant of the hooked calls.
THEOREM Invariance == Spec => []Inv
  <1>1. Init => Inv
    BY InitInv
  <1>2. Inv /\ [Next]_vars => Inv'
    BY StepInv
  <1> QED
    BY <1>1, <1>2, PTL DEF Spec

-----------------------------------------------------------------------------
\* The variables of a hooked call keep their types: call numbers, ages and the
\* delays of timers stay within their bounds.
THEOREM TypeCorrect == Spec => []TypeOK
  <1>1. Inv => TypeOK
    BY DEF Inv
  <1> QED
    BY <1>1, Invariance, PTL

\* do_io, connect_with_timeout and the sleeps: a fiber that waits is woken by
\* exactly one party, and nothing is left behind that would end a later wait.
THEOREM WokenByOne == Spec => []OneWake
  <1>1. Inv => OneWake
    BY DEF Inv
  <1> QED
    BY <1>1, Invariance, PTL

\* The callback of a timeout marks a call as cancelled only when the timeout
\* has passed since the call began, but for less than a millisecond.
THEOREM TimeoutsLast == Spec => []TimeoutNotEarly
  <1>1. Inv => TimeoutNotEarly
    BY DEF Inv
  <1> QED
    BY <1>1, Invariance, PTL

\* sleep, usleep and nanosleep come back less than two milliseconds before the
\* time asked for.
THEOREM SleepsLast == Spec => []SleepsLongEnough
  <1>1. Inv => SleepsLongEnough
    <2>1. PerMs \in Nat /\ MaxAge \in Nat
      BY HookIOAssumption DEF HookIOAssumption
    <2> QED
      BY <2>1, HookIOAssumption, WholeTicks DEF Inv, TypeOK, SleepAged, SleepsLongEnough
  <1> QED
    BY <1>1, Invariance, PTL

\* connect() returns 0 on a connected socket only, as long as connect(2) itself
\* does not fail at once (hook_refused shows what happens then).
THEOREM ConnectReports == ~MayRefuse /\ Spec => []ConnectTruth
  <1>1. ~MayRefuse /\ Inv => ConnectTruth
    BY DEF Inv
  <1>2. CASE ~MayRefuse
    <2>1. Inv => ConnectTruth
      BY <1>1, <1>2
    <2> QED
      BY <2>1, Invariance, PTL
  <1>3. CASE MayRefuse
    BY <1>3
  <1> QED
    BY <1>2, <1>3
=============================================================================
