---------------------------- MODULE FiberService ----------------------------
(***************************************************************************)
(* What a scheduler promises, without queues, threads or tickles.  A fiber *)
(* somebody outside has a claim on is parked.  The claim is used up by     *)
(* making the fiber runnable, a runnable fiber is run by one thread at a   *)
(* time, and a fiber that runs ends, yields, or is parked again.  A fiber  *)
(* may be woken while it still runs: it runs again later, the wake-up is   *)
(* not lost.                                                               *)
(***************************************************************************)
CONSTANT Fiber

VARIABLES
    running,   \* the fibers some thread is executing
    runnable,  \* the fibers that will be executed without further ado
    parked,    \* the fibers somebody outside will make runnable
    done       \* the fibers that have ended

vars == <<running, runnable, parked, done>>

Init ==
    /\ running = {} /\ runnable = {} /\ done = {}
    /\ parked = Fiber

Wake(f) ==
    /\ f \in parked
    /\ parked' = parked \ {f} /\ runnable' = runnable \cup {f}
    /\ UNCHANGED <<running, done>>

Run(f) ==
    /\ f \in runnable /\ f \notin running
    /\ runnable' = runnable \ {f} /\ running' = running \cup {f}
    /\ UNCHANGED <<parked, done>>

\* A running fiber hands out a claim on itself, or makes itself runnable.
Register(f) ==
    /\ f \in running /\ f \notin parked \cup runnable
    /\ \/ parked' = parked \cup {f} /\ UNCHANGED runnable
       \/ runnable' = runnable \cup {f} /\ UNCHANGED parked
    /\ UNCHANGED <<running, done>>

Leave(f) ==
    /\ f \in running /\ f \in parked \cup runnable
    /\ running' = running \ {f}
    /\ UNCHANGED <<runnable, parked, done>>

End(f) ==
    /\ f \in running /\ f \notin parked \cup runnable
    /\ running' = running \ {f} /\ done' = done \cup {f}
    /\ UNCHANGED <<runnable, parked>>

Next == \E f \in Fiber : Wake(f) \/ Run(f) \/ Register(f) \/ Leave(f) \/ End(f)

Promise == Init /\ [][Next]_vars

\* What is runnable is run at last.
Spec == Promise /\ \A f \in Fiber : WF_vars(Run(f))

=============================================================================
